--------------------------- MODULE BackupsProofs ----------------------------
(***************************************************************************)
(* Proofs about the backup store, for any servers, backups, limits and     *)
(* bounds.  The inductive invariant IInv says who may write the store (the *)
(* holder of the storage lock, and a recovery), what each step of a job    *)
(* and of a removal relies on, and whose an archive without a row is.      *)
(***************************************************************************)
EXTENDS Backups, FiniteSetTheorems, WellFoundedInduction, TLAPS

\* The steps of a job under its locks, those that have a data helper, and
\* those with an identifier that has no row yet.
Working == Pcs \ {"idle", "wait", "crashed"}
Helped == {"helper", "writing", "published", "recorded", "prune", "cleanup", "staging", "crashed"}
Unrecorded == {"begin", "helper", "writing", "published", "cleanup"}

\* A job under its locks has the storage to itself.  Its new backup has no row,
\* and fits the limit once it is complete.  The backup it restores from stays
\* complete unless a user wants it deleted.
JobFits(s) ==
    /\ job[s].pc \in Working => held["storage"] = s
    /\ job[s].id =< made /\ job[s].keep =< made
    /\ job[s].pc \in Unrecorded => job[s].id # 0 /\ row[job[s].id] = "none"
    /\ job[s].pc \in {"begin", "helper", "writing"} => ArchiveBytes + job[s].available =< MaxBytes
    /\ job[s].pc = "published" =>
          disk[job[s].id] = "published" /\ ArchiveBytes + size[job[s].id] =< MaxBytes
    /\ job[s].pc \in {"restoring", "staging"} => job[s].keep # 0
    /\ job[s].keep # 0 =>
          of[job[s].keep] = s /\ (row[job[s].keep] = "complete" \/ job[s].keep \in wanted)

\* A removal is made under the storage lock.  Its archive goes after its row was
\* marked, and its row after the archive.  FinishDeletions takes no backup that
\* is complete, a job none of another server, and not the one it restores from.
RemovalFits(a) ==
    removing[a].ids # <<>> =>
        /\ held["storage"] = a
        /\ removing[a].pc # "mark" => row[Current(a)] # "complete"
        /\ removing[a].pc = "row" => disk[Current(a)] = "none"
        /\ a = "delete" => deletion.pc = "held"
        /\ a = "tick" => \A i \in DOMAIN removing[a].ids : row[removing[a].ids[i]] # "complete"
        /\ a \in Server =>
              /\ job[a].pc = "prune"
              /\ \A i \in DOMAIN removing[a].ids :
                    /\ of[removing[a].ids[i]] = a
                    /\ removing[a].ids[i] # job[a].keep \/ removing[a].ids[i] \in wanted

DeletionFits ==
    /\ deletion.pc # "idle" => deletion.id # 0
    /\ deletion.pc = "held" => held["storage"] = "delete"

\* An archive without a row belongs to a job that has yet to deal with it.
StoreFits ==
    /\ \A b \in Backup :
        /\ row[b] = "complete" => disk[b] = "published"
        /\ disk[b] # "none" /\ row[b] = "none" /\ b \notin unseen =>
              \E s \in Server : job[s].id = b /\ job[s].pc \in Unrecorded \cup {"crashed"}
        /\ b > made => row[b] = "none"
    /\ ArchiveBytes =< MaxBytes

HelpersFit == \A s \in helpers : job[s].pc \in Helped

\* No two jobs have the same new backup.
IdsDiffer == \A s, t \in Server : s # t /\ job[s].id # 0 => job[s].id # job[t].id

IInv ==
    /\ TypeOK /\ DeletionFits /\ StoreFits /\ HelpersFit /\ IdsDiffer
    /\ \A s \in Server : JobFits(s)
    /\ \A a \in Actor : RemovalFits(a)

----------------------------------------------------------------------------
(* Numbers of backups, the order of a pruning, and the bytes *)

LEMMA BackupsAre ==
    ASSUME NEW S \in SUBSET Backup
    PROVE  /\ S \subseteq Nat /\ \A b \in S : 1 <= b /\ b <= MaxBackups
           /\ IsFiniteSet(S) /\ Cardinality(S) \in Nat
<1>1. S \subseteq Nat /\ MaxBackups \in Nat /\ \A b \in S : 1 <= b /\ b <= MaxBackups
  BY BackupsAssumption DEF Backup
<1>2. IsFiniteSet(S)
  BY <1>1, FS_BoundedSetOfNaturals
<1> QED BY <1>1, <1>2, FS_CardinalityType

\* Every set of backups that is not empty has an oldest and a newest one.
LEMMA MinIs ==
    ASSUME NEW S \in SUBSET Backup, S # {}
    PROVE  Min(S) \in S /\ \A b \in S : Min(S) <= b
<1> DEFINE R == {p \in Nat \X Nat : p[1] < p[2]}
<1>1. IsWellFoundedOn(R, Nat)
  BY NatLessThanWellFounded DEF OpToRel
<1>2. \A x, y \in Nat : <<y, x>> \in R <=> y < x
  OBVIOUS
<1> HIDE DEF R
<1>3. S \subseteq Nat
  BY BackupsAre
<1>4. PICK n \in S : \A m \in S : ~(<<m, n>> \in R)
  BY <1>1, <1>3, WFMin
<1>5. \A m \in S : n <= m
  <2> TAKE m \in S
  <2>1. n \in Nat /\ m \in Nat /\ ~(m < n)
    BY <1>2, <1>3, <1>4
  <2> QED BY <2>1
<1> QED BY <1>5 DEF Min

LEMMA MaxIs ==
    ASSUME NEW S \in SUBSET Backup, S # {}
    PROVE  Max(S) \in S /\ \A b \in S : b <= Max(S)
<1> DEFINE T == {n \in Backup : MaxBackups + 1 - n \in S}
<1>1. MaxBackups \in Nat /\ \A b \in S : b \in Nat /\ 1 <= b /\ b <= MaxBackups
  BY BackupsAre, BackupsAssumption
<1>2. \A b \in S : MaxBackups + 1 - b \in T
  <2> TAKE b \in S
  <2>1. b \in Nat /\ 1 <= b /\ b <= MaxBackups /\ MaxBackups \in Nat
    BY <1>1
  <2>2. MaxBackups + 1 - b \in Backup /\ MaxBackups + 1 - (MaxBackups + 1 - b) = b
    BY <2>1 DEF Backup
  <2> QED BY <2>2
<1>3. T \in SUBSET Backup /\ T # {}
  BY <1>2
<1>4. Min(T) \in T /\ \A t \in T : Min(T) <= t
  BY <1>3, MinIs, Zenon
<1> DEFINE b == MaxBackups + 1 - Min(T)
<1>5. b \in S
  BY <1>4
<1>6. ASSUME NEW c \in S PROVE c <= b
  <2>1. Min(T) <= MaxBackups + 1 - c
    BY <1>2, <1>4
  <2>2. Min(T) \in Nat /\ c \in Nat /\ MaxBackups \in Nat
    BY <1>1, <1>4 DEF Backup
  <2> HIDE DEF T
  <2> QED BY <2>1, <2>2
<1>7. \E m \in S : \A c \in S : m >= c
  <2> HIDE DEF b
  <2>1. \A c \in S : b >= c
    BY <1>1, <1>5, <1>6
  <2> QED BY <1>5, <2>1
<1>8. Max(S) \in S /\ \A c \in S : Max(S) >= c
  BY <1>7 DEF Max
<1> QED BY <1>1, <1>8

\* Newest lists backups of the set it is given.
LEMMA NewestIs ==
    ASSUME NEW ids \in SUBSET Backup
    PROVE  /\ Newest(ids) \in Seq(ids)
           /\ \A i \in DOMAIN Newest(ids) : Newest(ids)[i] \in ids
<1> DEFINE newer(b) == {c \in ids : c > b}
           n == Cardinality(ids)
<1>1. ids \subseteq Nat /\ n \in Nat
  BY BackupsAre
<1>2. \A b \in ids : IsFiniteSet(newer(b)) /\ Cardinality(newer(b)) \in Nat
  BY BackupsAre
<1>3. ASSUME NEW i \in 1..n PROVE \E b \in ids : Cardinality(newer(b)) = i - 1
  <2> DEFINE S == {b \in ids : Cardinality(newer(b)) >= i - 1}
  <2>1. ids # {}
    BY <1>1, FS_EmptySet
  <2>2. Min(ids) \in ids /\ \A b \in ids : Min(ids) <= b
    BY <2>1, MinIs
  <2>3. newer(Min(ids)) = ids \ {Min(ids)}
    <3>1. \A c \in ids : c > Min(ids) <=> c # Min(ids)
      <4> TAKE c \in ids
      <4>1. c \in Nat /\ Min(ids) \in Nat /\ Min(ids) <= c
        BY <1>1, <2>2
      <4> QED BY <4>1
    <3> QED BY <2>2, <3>1
  <2>4. Cardinality(newer(Min(ids))) = n - 1
    BY <2>2, <2>3, FS_RemoveElement, BackupsAre
  <2>5. S # {} /\ S \in SUBSET Backup
    <3>1. Cardinality(newer(Min(ids))) >= i - 1
      BY <1>1, <2>4
    <3> QED BY <2>2, <3>1
  <2>6. Max(S) \in S /\ \A c \in S : c <= Max(S)
    BY <2>5, MaxIs, Zenon
  <2>7. PICK b \in S : \A c \in S : c <= b
    BY <2>6
  <2>8. ASSUME Cardinality(newer(b)) > i - 1 PROVE FALSE
    <3>1. newer(b) # {}
      BY <1>2, <2>8, FS_EmptySet
    <3>2. newer(b) \in SUBSET Backup
      OBVIOUS
    <3>3. PICK c \in newer(b) : \A d \in newer(b) : c <= d
      BY <3>1, <3>2, MinIs
    <3>4. c \in ids /\ c > b
      BY <3>3
    <3>5. newer(c) = newer(b) \ {c}
      <4>1. ASSUME NEW d \in ids PROVE d > c <=> (d > b /\ d # c)
        <5>1. d \in Nat /\ c \in Nat /\ b \in Nat
          BY <1>1, <3>4
        <5>2. d > b => c <= d
          <6>1. HAVE d > b
          <6>2. d \in newer(b)
            BY <6>1
          <6> QED BY <3>3, <6>2
        <5> QED BY <3>4, <5>1, <5>2
      <4> QED BY <4>1
    <3>6. Cardinality(newer(c)) = Cardinality(newer(b)) - 1
      <4>1. IsFiniteSet(newer(b)) /\ c \in newer(b)
        BY <1>2, <3>3
      <4> HIDE DEF newer, S
      <4>2. Cardinality(newer(b) \ {c}) = Cardinality(newer(b)) - 1
        BY <4>1, FS_RemoveElement
      <4> QED BY <3>5, <4>2
    <3>7. c \in S
      <4>1. Cardinality(newer(b)) \in Nat /\ i \in Nat
        BY <1>2
      <4> HIDE DEF newer
      <4>2. Cardinality(newer(c)) >= i - 1
        BY <2>8, <3>6, <4>1
      <4> QED BY <3>4, <4>2
    <3>8. c <= b /\ c > b /\ c \in Nat /\ b \in Nat
      BY <1>1, <2>7, <3>4, <3>7
    <3> QED BY <3>8
  <2>9. Cardinality(newer(b)) \in Nat /\ Cardinality(newer(b)) >= i - 1 /\ b \in ids
    BY <1>2, <2>7
  <2>10. Cardinality(newer(b)) = i - 1
    <3> HIDE DEF newer, S
    <3> QED BY <2>8, <2>9
  <2> QED BY <2>9, <2>10
<1>4. Newest(ids) = [i \in 1..n |-> CHOOSE b \in ids : Cardinality(newer(b)) = i - 1]
  BY DEF Newest
<1>5. ASSUME NEW i \in 1..n PROVE Newest(ids)[i] \in ids
  BY <1>3, <1>4
<1> HIDE DEF newer
<1>6. DOMAIN Newest(ids) = 1..n
  BY <1>4
<1>7. Newest(ids) = [i \in 1..n |-> Newest(ids)[i]]
  BY <1>4
<1>8. Newest(ids) \in [1..n -> ids]
  BY <1>5, <1>7
<1> HIDE DEF n
<1> QED BY <1>1, <1>5, <1>6, <1>8

\* The bytes of complete backups, of any rows r and sizes z.
Bytes(r, z) == {p \in Backup \X (1..MaxBytes) : r[p[1]] = "complete" /\ p[2] =< z[p[1]]}

LEMMA BytesAre ==
    ASSUME NEW r, NEW z
    PROVE  IsFiniteSet(Bytes(r, z)) /\ Cardinality(Bytes(r, z)) \in Nat
<1>1. IsFiniteSet(Backup) /\ IsFiniteSet(1..MaxBytes)
  BY BackupsAre, FS_Interval, BackupsAssumption
<1>2. IsFiniteSet(Backup \X (1..MaxBytes))
  BY <1>1, FS_Product
<1>3. Bytes(r, z) \in SUBSET (Backup \X (1..MaxBytes))
  BY DEF Bytes
<1> QED BY <1>2, <1>3, FS_Subset, FS_CardinalityType

\* They become no more when complete backups become fewer, and more by the size
\* of a backup that is completed.
LEMMA BytesShrink ==
    ASSUME NEW r, NEW z, NEW q, NEW y,
           \A b \in Backup : r[b] = "complete" => q[b] = "complete" /\ y[b] = z[b]
    PROVE  Cardinality(Bytes(r, z)) <= Cardinality(Bytes(q, y))
<1>1. Bytes(r, z) \in SUBSET Bytes(q, y)
  BY DEF Bytes
<1> QED BY <1>1, BytesAre, FS_Subset

LEMMA BytesGrow ==
    ASSUME NEW r, NEW z \in [Backup -> 0..MaxBytes], NEW q, NEW c \in Backup,
           \A b \in Backup \ {c} : r[b] = "complete" => q[b] = "complete"
    PROVE  Cardinality(Bytes(r, z)) <= Cardinality(Bytes(q, z)) + z[c]
<1> DEFINE m == z[c]
<1>0. m \in Nat /\ MaxBytes \in Nat
  BY BackupsAssumption
<1>1. \A n \in 1..MaxBytes : n <= z[c] => n \in 1..m
  BY <1>0
<1> HIDE DEF m
<1> DEFINE new == {c} \X (1..m)
<1>2. IsFiniteSet(1..m) /\ Cardinality(1..m) = m
  <2>1. 1 \in Int /\ m \in Int
    BY <1>0
  <2>2. IsFiniteSet(1..m) /\ Cardinality(1..m) = IF 1 > m THEN 0 ELSE m - 1 + 1
    BY <2>1, FS_Interval, Zenon
  <2> QED BY <1>0, <2>2
<1>3. IsFiniteSet(new) /\ Cardinality(new) = m
  <2>1. IsFiniteSet({c}) /\ Cardinality({c}) = 1
    BY FS_Singleton
  <2>2. IsFiniteSet(new) /\ Cardinality(new) = Cardinality({c}) * Cardinality(1..m)
    BY <1>2, <2>1, FS_Product, Zenon
  <2> HIDE DEF new
  <2> QED BY <1>0, <1>2, <2>1, <2>2
<1>4. /\ IsFiniteSet(Bytes(q, z) \cup new)
      /\ Cardinality(Bytes(q, z) \cup new)
           = Cardinality(Bytes(q, z)) + m - Cardinality(Bytes(q, z) \cap new)
  BY <1>3, BytesAre, FS_Union
<1>5. Cardinality(Bytes(q, z) \cap new) \in Nat
  BY <1>3, FS_Intersection, FS_CardinalityType, BytesAre
<1>6. Bytes(r, z) \in SUBSET (Bytes(q, z) \cup new)
  BY <1>1 DEF Bytes
<1>7. Cardinality(Bytes(r, z)) <= Cardinality(Bytes(q, z) \cup new)
  BY <1>4, <1>6, FS_Subset
<1>8. Cardinality(Bytes(r, z)) <= Cardinality(Bytes(q, z)) + m
  <2> HIDE DEF new
  <2> QED BY <1>0, <1>4, <1>5, <1>7, BytesAre
<1> QED BY <1>8 DEF m

LEMMA BytesNow == ArchiveBytes = Cardinality(Bytes(row, size)) /\ ArchiveBytes \in Nat
<1>1. ArchiveBytes = Cardinality(Bytes(row, size))
  BY DEF ArchiveBytes, Bytes
<1> QED BY <1>1, BytesAre

----------------------------------------------------------------------------
(* Types *)

JobRecords == [pc : Pcs, id : 0..MaxBackups, keep : 0..MaxBackups, available : 0..MaxBytes]

\* A job goes on: the rest of its record stays as it is, and so do the others.
LEMMA GotoIs ==
    ASSUME job \in [Server -> JobRecords], NEW s \in Server, NEW pc \in Pcs, Goto(s, pc)
    PROVE  /\ job' \in [Server -> JobRecords]
           /\ job'[s].pc = pc
           /\ \A t \in Server : /\ job'[t].id = job[t].id
                                /\ job'[t].keep = job[t].keep
                                /\ job'[t].available = job[t].available
                                /\ t # s => job'[t].pc = job[t].pc
BY DEF Goto, JobRecords

LEMMA NoJobIs == NoJob \in JobRecords
BY BackupsAssumption DEF NoJob, JobRecords, Pcs

Removals == [ids : Seq(Backup), pc : {"mark", "unlink", "row"}]
Deletions == [pc : {"idle", "wait", "held"}, id : 0..MaxBackups, access : BOOLEAN]

LEMMA NothingIs == NoRemoval \in Removals /\ NoDeletion \in Deletions
<1>1. NoRemoval \in Removals
  BY DEF NoRemoval, Removals
<1>2. NoDeletion \in Deletions
  BY BackupsAssumption DEF NoDeletion, Deletions
<1> QED BY <1>1, <1>2

\* The removal an actor is at.
LEMMA CurrentIs ==
    ASSUME TypeOK, NEW a \in Actor, removing[a].ids # <<>>
    PROVE  /\ Current(a) \in Backup
           /\ 1 \in DOMAIN removing[a].ids /\ Current(a) = removing[a].ids[1]
<1>1. removing[a].ids \in Seq(Backup)
  BY DEF TypeOK
<1> QED BY <1>1 DEF Current

LEMMA TypeInit == Init => TypeOK
<1> SUFFICES ASSUME Init PROVE TypeOK
  OBVIOUS
<1> USE BackupsAssumption DEF Init, TypeOK, Backup, Actor
<1>1. row \in [Backup -> {"none", "complete", "deleting"}] /\ disk \in [Backup -> {"none", "partial", "published"}]
  OBVIOUS
<1>2. size \in [Backup -> 0..MaxBytes] /\ of \in [Backup -> Server]
  OBVIOUS
<1>3. held \in [Server \cup {"storage"} -> Actor \cup {"none"}]
  OBVIOUS
<1>4. job \in [Server -> JobRecords]
  BY NoJobIs
<1>5. removing \in [Actor -> [ids : Seq(Backup), pc : {"mark", "unlink", "row"}]]
  BY DEF NoRemoval
<1>6. deletion \in [pc : {"idle", "wait", "held"}, id : 0..MaxBackups, access : BOOLEAN]
  BY DEF NoDeletion
<1>7. tick \in [pending : SUBSET Backup, cursor : 0..MaxBackups]
  OBVIOUS
<1>8. stuck \subseteq Backup
  OBVIOUS
<1>9. /\ helpers \subseteq Server /\ unseen \subseteq Backup /\ wanted \subseteq Backup
      /\ settings \in {"none", "auto", "admin"} /\ initing \in BOOLEAN /\ up \in BOOLEAN
  OBVIOUS
<1>10. /\ made \in 0..MaxBackups /\ asked \in 0..MaxAsked
       /\ faults \in 0..MaxFaults /\ crashes \in 0..MaxCrashes
  OBVIOUS
<1> QED BY <1>1, <1>2, <1>3, <1>4, <1>5, <1>6, <1>7, <1>8, <1>9, <1>10 DEF JobRecords

\* Whoever acts, the store, the locks and the counters keep their types.
LEMMA LocksTyped ==
    ASSUME TypeOK, NEW a \in Actor, NEW keys
    PROVE  /\ Taken(a, keys) \in [Server \cup {"storage"} -> Actor \cup {"none"}]
           /\ Released(a) \in [Server \cup {"storage"} -> Actor \cup {"none"}]
BY DEF TypeOK, Taken, Released

LEMMA FaultTyped == TypeOK /\ (\E b : Fault(b)) => faults' \in 0..MaxFaults
BY BackupsAssumption DEF TypeOK, Fault

LEMMA RemoveTyped == IInv /\ (\E a \in Actor : RemoveStep(a)) => TypeOK'
<1> SUFFICES ASSUME IInv, NEW a \in Actor, RemoveStep(a) PROVE TypeOK'
  OBVIOUS
<1>1. TypeOK /\ Current(a) \in Backup /\ removing[a].ids # <<>>
  BY CurrentIs DEF IInv, RemoveStep, RemoveMark, Mark, RemoveUnlink, RemoveRow, RemoveFails
<1>2. removing[a].ids \in Seq(Backup) /\ Tail(removing[a].ids) \in Seq(Backup)
  BY <1>1 DEF TypeOK
<1>0. removing \in [Actor -> Removals] /\ removing[a] \in Removals
  BY <1>1 DEF TypeOK, Removals
<1>3. CASE RemoveMark(a)
  <2>1. removing' \in [Actor -> Removals]
    BY <1>0, <1>3 DEF RemoveMark, Mark, Removals
  <2>2. row' \in [Backup -> {"none", "complete", "deleting"}]
    BY <1>1, <1>3 DEF RemoveMark, Mark, TypeOK
  <2>3. wanted' \subseteq Backup
    BY <1>1, <1>3 DEF RemoveMark, TypeOK
  <2> QED BY <1>1, <1>3, <2>1, <2>2, <2>3 DEF RemoveMark, Removals, TypeOK, conf, env
<1>4. CASE RemoveUnlink(a)
  <2>1. removing' \in [Actor -> Removals]
    BY <1>0, <1>4 DEF RemoveUnlink, Removals
  <2>2. disk' \in [Backup -> {"none", "partial", "published"}]
    BY <1>1, <1>4 DEF RemoveUnlink, TypeOK
  <2> QED BY <1>1, <1>4, <2>1, <2>2 DEF RemoveUnlink, Removals, TypeOK, conf, env, history
<1>5. CASE RemoveRow(a)
  <2>1. removing' \in [Actor -> Removals]
    BY <1>0, <1>2, <1>5 DEF RemoveRow, Removals
  <2>2. row' \in [Backup -> {"none", "complete", "deleting"}]
    BY <1>1, <1>5 DEF RemoveRow, TypeOK
  <2> QED BY <1>1, <1>5, <2>1, <2>2 DEF RemoveRow, Removals, TypeOK, conf, env, history
<1>6. CASE RemoveFails(a)
  <2>1. removing' \in [Actor -> Removals]
    BY <1>0, <1>6, NothingIs DEF RemoveFails
  <2>2. faults' \in 0..MaxFaults
    BY <1>1, <1>6, FaultTyped DEF RemoveFails
  <2> QED BY <1>1, <1>6, <2>1, <2>2 DEF RemoveFails, Removals, TypeOK, store, conf, env, history
<1> QED BY <1>3, <1>4, <1>5, <1>6 DEF RemoveStep

LEMMA ReadTyped ==
    ASSUME TypeOK, NEW b \in Backup, DeleteRead(b)
    PROVE  TypeOK'
<1>1. deletion \in Deletions /\ b \in 0..MaxBackups
  BY BackupsAssumption DEF TypeOK, Deletions, Backup
<1>2. deletion' \in Deletions
  BY <1>1 DEF DeleteRead, Deletions
<1>3. asked' \in 0..MaxAsked
  <2>1. asked < MaxAsked /\ asked' = asked + 1
    BY DEF DeleteRead
  <2>2. asked \in 0..MaxAsked /\ MaxAsked \in Nat
    BY BackupsAssumption DEF TypeOK
  <2> QED BY <2>1, <2>2
<1> QED BY <1>2, <1>3 DEF DeleteRead, Deletions, TypeOK, store, others, conf, env, history

LEMMA DeletionTyped == IInv /\ (DeleteStep \/ Revoke) => TypeOK'
<1> SUFFICES ASSUME IInv, DeleteStep \/ Revoke PROVE TypeOK'
  OBVIOUS
<1>1. TypeOK /\ "delete" \in Actor
  BY DEF IInv, Actor
<1>2. deletion \in Deletions /\ removing \in [Actor -> Removals]
  BY <1>1 DEF TypeOK, Deletions, Removals
<1>3. deletion.pc # "idle" => deletion.id \in Backup
  BY <1>2, BackupsAssumption DEF IInv, DeletionFits, Deletions, Backup
<1>4. CASE DeleteLock
  <2>1. deletion' \in Deletions
    BY <1>2, <1>4 DEF DeleteLock, Deletions
  <2>2. removing' \in [Actor -> Removals]
    BY <1>1, <1>2, <1>3, <1>4 DEF DeleteLock, Removals
  <2> QED BY <1>1, <1>4, <2>1, <2>2, LocksTyped
          DEF DeleteLock, Deletions, Removals, TypeOK, store, others, conf, env, history
<1>5. CASE DeleteEnd
  <2>1. deletion' \in Deletions /\ removing' \in [Actor -> Removals]
    BY <1>2, <1>5, NothingIs DEF DeleteEnd
  <2> QED BY <1>1, <1>5, <2>1, LocksTyped
          DEF DeleteEnd, Deletions, Removals, TypeOK, store, others, conf, env, history
<1>6. CASE Revoke
  <2>1. deletion' \in Deletions
    BY <1>2, <1>6 DEF Revoke, Deletions
  <2> QED BY <1>1, <1>6, <2>1 DEF Revoke, Deletions, TypeOK, store, others, conf, env, history
<1> QED BY <1>4, <1>5, <1>6 DEF DeleteStep

LEMMA TickTyped == IInv /\ TickStep => TypeOK'
<1> SUFFICES ASSUME IInv, TickStep PROVE TypeOK'
  OBVIOUS
<1>1. TypeOK /\ "tick" \in Actor
  BY DEF IInv, Actor
<1>2. \A from : Listed(from) \in SUBSET Backup
  BY DEF Listed
<1>3. ASSUME NEW from PROVE NextCursor(Listed(from)) \in 0..MaxBackups
  <2>1. CASE Listed(from) = {}
    BY <2>1, FS_EmptySet, BackupsAssumption DEF NextCursor
  <2>2. CASE Listed(from) # {}
    BY <1>2, <2>2, MaxIs, BackupsAssumption DEF NextCursor, Backup
  <2> QED BY <2>1, <2>2
<1> USE <1>1 DEF TypeOK, store, others, conf, env, history
<1>4. CASE TickList
  BY <1>2, <1>3, <1>4 DEF TickList
<1>5. CASE TickTake
  <2> DEFINE b == Min(tick.pending)
  <2>1. b \in Backup
    BY <1>5, MinIs DEF TickTake
  <2>0. removing \in [Actor -> Removals]
    BY DEF Removals
  <2>2. removing' \in [Actor -> Removals]
    <3>1. [ids |-> <<b>>, pc |-> "mark"] \in Removals
      BY <2>1 DEF Removals
    <3>2. removing' = removing \/ removing' = [removing EXCEPT !["tick"] = [ids |-> <<b>>, pc |-> "mark"]]
      BY <1>5 DEF TickTake
    <3> HIDE DEF b, TypeOK
    <3> QED BY <1>1, <2>0, <3>1, <3>2
  <2>3. tick' \in [pending : SUBSET Backup, cursor : 0..MaxBackups]
    BY <1>5 DEF TickTake
  <2>4. held' \in [Server \cup {"storage"} -> Actor \cup {"none"}]
    <3> DEFINE after == Taken("tick", Keys(of[b]))
    <3>1. held' = held \/ held' = after
      BY <1>5 DEF TickTake
    <3>2. after \in [Server \cup {"storage"} -> Actor \cup {"none"}]
      BY <1>1, LocksTyped
    <3> HIDE DEF after
    <3> QED BY <3>1, <3>2
  <2> QED BY <1>5, <2>2, <2>3, <2>4 DEF TickTake, Removals
<1>6. CASE TickRelease
  BY <1>6, LocksTyped DEF TickRelease
<1> QED BY <1>4, <1>5, <1>6 DEF TickStep

\* The typed parts of TypeOK that a job changes.
LEMMA JobTyped ==
    ASSUME TypeOK, NEW s \in Server
    PROVE  /\ job \in [Server -> JobRecords] /\ s \in Actor
           /\ job[s].pc \in Pcs /\ job[s].id \in Nat /\ job[s].keep \in Nat /\ job[s].available \in Nat
           /\ job[s].id # 0 => job[s].id \in Backup
           /\ job[s].keep # 0 => job[s].keep \in Backup
<1>1. job \in [Server -> JobRecords] /\ s \in Actor
  BY DEF TypeOK, JobRecords, Actor
<1>2. job[s] \in JobRecords
  BY <1>1
<1>3. job[s].id \in 0..MaxBackups /\ job[s].keep \in 0..MaxBackups /\ job[s].available \in 0..MaxBytes
  BY <1>2 DEF JobRecords
<1> QED BY <1>1, <1>2, <1>3, BackupsAssumption DEF JobRecords, Backup

LEMMA BeginTyped ==
    ASSUME TypeOK, NEW s \in Server, JobBegin(s)
    PROVE  TypeOK'
<1>1. PICK b \in {0} \cup {c \in Backup : row[c] = "complete" /\ of[c] = s} :
          job' = [job EXCEPT ![s] = Waiting(b)]
  BY DEF JobBegin
<1>2. b \in 0..MaxBackups
  BY <1>1, BackupsAssumption DEF Backup
<1>3. Waiting(b) \in JobRecords
  BY <1>2, NoJobIs DEF Waiting, JobRecords, Pcs
<1>4. job' \in [Server -> JobRecords]
  BY <1>1, <1>3, JobTyped
<1>5. asked' \in 0..MaxAsked
  BY BackupsAssumption DEF JobBegin, TypeOK
<1> QED BY <1>4, <1>5 DEF JobBegin, JobRecords, TypeOK, store, others, conf, env, history

LEMMA PlanTyped ==
    ASSUME TypeOK, NEW s \in Server, JobPlan(s)
    PROVE  TypeOK'
<1>1. made \in 0..MaxBackups /\ made < MaxBackups /\ MaxBackups \in Nat
  BY BackupsAssumption DEF TypeOK, JobPlan
<1>2. made + 1 \in Backup /\ made + 1 \in 0..MaxBackups
  BY <1>1 DEF Backup
<1>3. MaxBytes - ArchiveBytes \in 0..MaxBytes
  BY BytesNow, BackupsAssumption DEF JobPlan
<1>4. job' \in [Server -> JobRecords]
  BY <1>2, <1>3, JobTyped DEF JobPlan, JobRecords, Pcs
<1> QED BY <1>2, <1>4 DEF JobPlan, JobRecords, TypeOK, store, others, conf, env, history

LEMMA PruneIs ==
    ASSUME TypeOK, NEW s \in Server
    PROVE  /\ Prunable(s) \in Seq(Backup)
           /\ \A i \in DOMAIN Prunable(s) :
                 /\ of[Prunable(s)[i]] = s
                 /\ row[Prunable(s)[i]] = "deleting" \/ Prunable(s)[i] # job[s].keep
<1> DEFINE D == {b \in Backup : of[b] = s /\ row[b] = "deleting"}
           B == Beyond(s) \ {job[s].keep}
<1>1. D \in SUBSET Backup /\ B \in SUBSET Backup
  BY DEF Beyond
<1>2. \A b \in D : of[b] = s /\ row[b] = "deleting"
  OBVIOUS
<1>3. \A b \in B : of[b] = s /\ b # job[s].keep
  BY DEF Beyond
<1>4. Prunable(s) = Newest(D) \o Newest(B)
  BY DEF Prunable
<1> HIDE DEF D, B
<1> DEFINE d == Newest(D)
           e == Newest(B)
<1>5. d \in Seq(D) /\ e \in Seq(B) /\ (\A i \in DOMAIN d : d[i] \in D) /\ (\A i \in DOMAIN e : e[i] \in B)
  BY <1>1, NewestIs
<1>6. Prunable(s) = d \o e
  BY <1>4
<1> HIDE DEF d, e
<1>7. d \in Seq(Backup) /\ e \in Seq(Backup)
  BY <1>1, <1>5
<1>8. Prunable(s) \in Seq(Backup)
  BY <1>6, <1>7
<1>9. ASSUME NEW i \in DOMAIN Prunable(s) PROVE Prunable(s)[i] \in D \/ Prunable(s)[i] \in B
  BY <1>5, <1>6, <1>7
<1> QED BY <1>2, <1>3, <1>8, <1>9

LEMMA StepTyped ==
    ASSUME IInv, NEW s \in Server, JobStep(s)
    PROVE  TypeOK'
<1>1. /\ TypeOK /\ job \in [Server -> JobRecords] /\ s \in Actor /\ job[s].available \in Nat
      /\ job[s].pc \in Unrecorded => job[s].id \in Backup
  BY JobTyped DEF IInv, JobFits
<1>2. \A pc \in Pcs : Goto(s, pc) => job' \in [Server -> JobRecords]
  BY <1>1, GotoIs
<1>3. [job EXCEPT ![s] = NoJob] \in [Server -> JobRecords]
  BY <1>1, NoJobIs
<1>4. \A keys : /\ Taken(s, keys) \in [Server \cup {"storage"} -> Actor \cup {"none"}]
                /\ Released(s) \in [Server \cup {"storage"} -> Actor \cup {"none"}]
  BY <1>1, LocksTyped
<1> USE <1>1 DEF TypeOK, store, others, conf, env, history
<1>5. CASE JobLock(s)
  BY <1>2, <1>4, <1>5 DEF JobLock, Pcs, JobRecords
<1>6. CASE JobRefused(s)
  BY <1>3, <1>6 DEF JobRefused, JobRecords
<1>7. CASE JobPlan(s)
  BY <1>7, PlanTyped
<1>8. CASE JobHelper(s)
  BY <1>2, <1>8 DEF JobHelper, Pcs, JobRecords
<1>9. CASE JobOpen(s)
  BY <1>2, <1>9 DEF JobOpen, At, Unrecorded, Pcs, JobRecords
<1>10. CASE JobPublish(s)
  <2>1. PICK n \in 1..job[s].available : size' = [size EXCEPT ![job[s].id] = n]
    BY <1>10 DEF JobPublish
  <2>2. n \in 0..MaxBytes
    <3>1. job[s] \in JobRecords
      OBVIOUS
    <3>2. job[s].available \in 0..MaxBytes
      BY <3>1 DEF JobRecords
    <3> QED BY <2>1, <3>2, BackupsAssumption
  <2> QED BY <1>2, <1>10, <2>1, <2>2 DEF JobPublish, At, Unrecorded, Pcs, JobRecords
<1>11. CASE JobRecord(s)
  BY <1>2, <1>11 DEF JobRecord, At, Unrecorded, Pcs, JobRecords
<1>12. CASE JobPrune(s)
  <2>1. removing' \in [Actor -> Removals]
    BY <1>12, PruneIs DEF JobPrune, Removals
  <2> QED BY <1>2, <1>12, <2>1 DEF JobPrune, Pcs, JobRecords, Removals
<1>13. CASE JobPruned(s)
  BY <1>2, <1>13 DEF JobPruned, Pcs, JobRecords
<1>14. CASE JobStage(s)
  BY <1>2, <1>14 DEF JobStage, Pcs, JobRecords
<1>15. CASE JobFails(s)
  BY <1>2, <1>15 DEF JobFails, Pcs, JobRecords
<1>16. CASE JobCleanup(s)
  BY <1>2, <1>16 DEF JobCleanup, At, Unrecorded, Pcs, JobRecords
<1>17. CASE JobCleanupFails(s)
  <2>1. faults' \in 0..MaxFaults
    BY <1>17, FaultTyped DEF JobCleanupFails
  <2>2. row' \in [Backup -> {"none", "complete", "deleting"}] /\ unseen' \subseteq Backup
    BY <1>17 DEF JobCleanupFails, RecordDeleting, At, Unrecorded
  <2> QED BY <1>2, <1>17, <2>1, <2>2 DEF JobCleanupFails, Pcs, JobRecords
<1>18. CASE JobEnd(s)
  BY <1>3, <1>4, <1>18 DEF JobEnd, JobRecords
<1>19. CASE Recover(s)
  BY <1>3, <1>19 DEF Recover, JobRecords
<1>20. CASE RecoverFails(s)
  <2>1. faults' \in 0..MaxFaults /\ job[s].id \in Backup
    BY <1>20, FaultTyped, JobTyped DEF RecoverFails, Unpublished
  <2> QED BY <1>3, <1>20, <2>1 DEF RecoverFails, JobRecords
<1> QED BY <1>5, <1>6, <1>7, <1>8, <1>9, <1>10, <1>11, <1>12, <1>13, <1>14, <1>15, <1>16,
           <1>17, <1>18, <1>19, <1>20 DEF JobStep

\* What is left of the typing where the store and the settings stay as they are.
LEMMA MoreTyped ==
    ASSUME TypeOK, UNCHANGED <<row, disk, size, of, settings, stuck, helpers, unseen, wanted, made, asked, faults>>,
           job' \in [Server -> JobRecords], removing' \in [Actor -> Removals], deletion' \in Deletions,
           held' \in [Server \cup {"storage"} -> Actor \cup {"none"}],
           tick' \in [pending : SUBSET Backup, cursor : 0..MaxBackups], crashes' \in 0..MaxCrashes,
           initing' \in BOOLEAN, up' \in BOOLEAN
    PROVE  TypeOK'
<1>1. /\ job' \in [Server -> [pc : Pcs, id : 0..MaxBackups, keep : 0..MaxBackups, available : 0..MaxBytes]]
      /\ removing' \in [Actor -> [ids : Seq(Backup), pc : {"mark", "unlink", "row"}]]
      /\ deletion' \in [pc : {"idle", "wait", "held"}, id : 0..MaxBackups, access : BOOLEAN]
  BY DEF JobRecords, Removals, Deletions
<1>2. /\ row' \in [Backup -> {"none", "complete", "deleting"}]
      /\ disk' \in [Backup -> {"none", "partial", "published"}]
      /\ size' \in [Backup -> 0..MaxBytes] /\ of' \in [Backup -> Server]
      /\ settings' \in {"none", "auto", "admin"}
      /\ stuck' \subseteq Backup /\ helpers' \subseteq Server /\ unseen' \subseteq Backup /\ wanted' \subseteq Backup
      /\ made' \in 0..MaxBackups /\ asked' \in 0..MaxAsked /\ faults' \in 0..MaxFaults
  BY DEF TypeOK
<1> QED BY <1>1, <1>2 DEF TypeOK

LEMMA NextTyped == IInv /\ [Next]_vars => TypeOK'
<1> SUFFICES ASSUME IInv, [Next]_vars PROVE TypeOK'
  OBVIOUS
<1> USE DEF IInv
<1>1. CASE InitializeBegin \/ InitializeInsert \/ SaveSettings
  BY <1>1 DEF InitializeBegin, InitializeInsert, InsertedDefault, SaveSettings, TypeOK, store, others, conf, env, history
<1>2. CASE \E b \in Backup : DeleteRead(b)
  BY <1>2, ReadTyped
<1>3. ASSUME NEW s \in Server, JobBegin(s) \/ JobStep(s) PROVE TypeOK'
  BY <1>3, BeginTyped, StepTyped
<1>4. CASE Crash
  <2>1. job \in [Server -> JobRecords]
    BY DEF TypeOK, JobRecords
  <2>2. job' \in [Server -> JobRecords]
    BY <1>4, <2>1, NoJobIs DEF Crash, JobRecords, Pcs
  <2>3. removing' \in [Actor -> Removals] /\ deletion' \in Deletions
    BY <1>4, NothingIs DEF Crash
  <2>4. held' \in [Server \cup {"storage"} -> Actor \cup {"none"}]
    BY <1>4 DEF Crash, TypeOK
  <2>5. tick' \in [pending : SUBSET Backup, cursor : 0..MaxBackups] /\ crashes' \in 0..MaxCrashes
    <3>1. crashes < MaxCrashes /\ crashes' = crashes + 1 /\ tick' = [pending |-> {}, cursor |-> 0]
      BY <1>4 DEF Crash
    <3>2. crashes \in 0..MaxCrashes
      BY DEF TypeOK
    <3>3. 0 \in 0..MaxBackups /\ crashes' \in 0..MaxCrashes
      BY <3>1, <3>2, BackupsAssumption
    <3> QED BY <3>1, <3>3
  <2>6. settings' = settings /\ stuck' = stuck /\ helpers' = helpers /\ made' = made /\ asked' = asked
        /\ faults' = faults /\ UNCHANGED <<row, disk, size, of, unseen, wanted>>
        /\ initing' = FALSE /\ up' = FALSE
    BY <1>4 DEF Crash, store, history
  <2>7. UNCHANGED <<row, disk, size, of, settings, stuck, helpers, unseen, wanted, made, asked, faults>>
    BY <2>6
  <2> QED BY <2>2, <2>3, <2>4, <2>5, <2>6, <2>7, MoreTyped
<1>5. CASE Restart
  BY <1>5 DEF Restart, TypeOK, store, others, conf, env, history
<1>6. CASE UNCHANGED vars
  BY <1>6 DEF vars, TypeOK, store, others, conf, env, history
<1> QED BY <1>1, <1>2, <1>3, <1>4, <1>5, <1>6, RemoveTyped, DeletionTyped, TickTyped DEF Next

----------------------------------------------------------------------------
(* Who may write the store *)

LEMMA BytesKept ==
    ASSUME \A b \in Backup : row'[b] = "complete" => row[b] = "complete" /\ size'[b] = size[b]
    PROVE  ArchiveBytes' <= ArchiveBytes /\ ArchiveBytes \in Nat /\ ArchiveBytes' \in Nat
<1>1. ArchiveBytes' = Cardinality(Bytes(row', size'))
  BY DEF ArchiveBytes, Bytes
<1>2. Cardinality(Bytes(row', size')) <= Cardinality(Bytes(row, size))
  BY BytesShrink
<1> QED BY <1>1, <1>2, BytesNow, BytesAre

\* While somebody holds the storage, nobody else works on it.
LEMMA Alone ==
    ASSUME IInv, NEW a, held["storage"] = a
    PROVE  /\ \A t \in Server : t # a => job[t].pc \notin Working
           /\ \A c \in Actor : c # a => removing[c].ids = <<>>
           /\ a # "delete" => deletion.pc # "held"
BY DEF IInv, JobFits, RemovalFits, DeletionFits

\* Nobody's knowledge is touched by a step that makes no complete backup
\* incomplete but for wanted ones, if he does not work on the store.
LEMMA BystandersFit ==
    ASSUME IInv, NEW t \in Server, job[t].pc \notin Working,
           job'[t] = job[t], made' = made \/ made' = made + 1,
           \A b \in Backup : b <= made => of'[b] = of[b],
           wanted \subseteq wanted',
           job[t].keep # 0 /\ row[job[t].keep] = "complete"
              => row'[job[t].keep] = "complete" \/ job[t].keep \in wanted'
    PROVE  JobFits(t)'
<1>1. JobFits(t) /\ TypeOK /\ job[t].pc \in Pcs
  BY JobTyped DEF IInv
<1>2. made \in Nat /\ job[t].id \in Nat /\ job[t].keep \in Nat /\ (job[t].keep # 0 => job[t].keep \in Backup)
  <2>1. made \in Nat
    BY <1>1, BackupsAssumption DEF TypeOK
  <2> QED BY <1>1, <2>1, JobTyped
<1>3. job[t].id <= made' /\ job[t].keep <= made'
  BY <1>1, <1>2 DEF JobFits
<1>4. job[t].pc \notin Unrecorded \cup {"begin", "helper", "writing", "published", "restoring", "staging"}
  BY <1>1 DEF Working, Unrecorded, Pcs
<1>5. job[t].keep # 0 => of'[job[t].keep] = t /\ (row'[job[t].keep] = "complete" \/ job[t].keep \in wanted')
  BY <1>1, <1>2 DEF JobFits
<1> QED BY <1>3, <1>4, <1>5 DEF JobFits

\* A job that keeps its lock fits as before where the store is not touched.
LEMMA SameJobFits ==
    ASSUME NEW t \in Server, JobFits(t), job' = job,
           UNCHANGED <<row, disk, size, of, made, wanted>>,
           held["storage"] = t => held'["storage"] = t
    PROVE  JobFits(t)'
<1>1. ArchiveBytes' = ArchiveBytes
  BY DEF ArchiveBytes
<1> QED BY <1>1 DEF JobFits

\* Where nobody removes anything, no removal can be out of order.
LEMMA NoRemovals ==
    ASSUME \A a \in Actor : removing'[a].ids = <<>>
    PROVE  \A a \in Actor : RemovalFits(a)'
BY DEF RemovalFits

----------------------------------------------------------------------------
(* The steps of a job *)

IFits ==
    /\ DeletionFits /\ StoreFits
    /\ \A s \in Server : JobFits(s)
    /\ \A a \in Actor : RemovalFits(a)

\* What a job under its locks is given, and what it leaves to the others.
LEMMA WorkerIs ==
    ASSUME IInv, NEW s \in Server, job[s].pc \in Working
    PROVE  /\ TypeOK /\ s \in Actor /\ held["storage"] = s /\ s \notin {"delete", "tick", "none"}
           /\ \A t \in Server \ {s} : job[t].pc \notin Working
           /\ \A c \in Actor \ {s} : removing[c].ids = <<>>
           /\ job[s].pc # "prune" => removing[s].ids = <<>>
           /\ deletion.pc # "held"
<1>1. TypeOK /\ s \in Actor /\ held["storage"] = s /\ s \notin {"delete", "tick", "none"}
  BY JobTyped, BackupsAssumption DEF IInv, JobFits
<1>2. job[s].pc # "prune" => removing[s].ids = <<>>
  BY <1>1 DEF IInv, RemovalFits
<1> QED BY <1>1, <1>2, Alone

\* A step between steps of the same kind leaves everything in order.
LEMMA MovesFit ==
    ASSUME IInv, NEW s \in Server, NEW pc \in Working, job[s].pc \in Working,
           Goto(s, pc), removing[s].ids = <<>>,
           UNCHANGED <<held, row, disk, size, of, made, unseen, wanted, removing, deletion>>,
           pc \in Unrecorded <=> job[s].pc \in Unrecorded,
           pc \in {"begin", "helper", "writing"} => job[s].pc \in {"begin", "helper", "writing"},
           pc # "published",
           pc \in {"restoring", "staging"} => job[s].keep # 0
    PROVE  IFits'
<1>1. /\ TypeOK /\ held["storage"] = s
      /\ \A t \in Server \ {s} : job[t].pc \notin Working
      /\ \A c \in Actor : removing[c].ids = <<>>
  BY WorkerIs
<1>2. /\ job'[s].pc = pc
      /\ \A t \in Server : /\ job'[t].id = job[t].id
                           /\ job'[t].keep = job[t].keep
                           /\ job'[t].available = job[t].available
                           /\ t # s => job'[t].pc = job[t].pc /\ job'[t] = job[t]
  <2>1. job \in [Server -> JobRecords] /\ pc \in Pcs
    BY <1>1 DEF TypeOK, JobRecords, Working
  <2> QED BY <2>1, GotoIs DEF Goto
<1>3. ArchiveBytes' = ArchiveBytes
  BY DEF ArchiveBytes
<1>4. ASSUME NEW t \in Server \ {s} PROVE JobFits(t)'
  BY <1>1, <1>2, BystandersFit
<1>5. JobFits(s)'
  <2>1. JobFits(s)
    BY DEF IInv
  <2>2. job'[s].pc = pc /\ job'[s].id = job[s].id /\ job'[s].keep = job[s].keep /\ job'[s].available = job[s].available
    BY <1>2
  <2> QED BY <1>1, <1>3, <2>1, <2>2 DEF JobFits
<1>6. \A a \in Actor : RemovalFits(a)'
  BY <1>1, NoRemovals
<1>7. StoreFits'
  <2>1. StoreFits
    BY DEF IInv
  <2>2. "crashed" \notin Working
    BY DEF Working
  <2>3. \A t \in Server :
            /\ job'[t].id = job[t].id
            /\ job[t].pc \in Unrecorded \cup {"crashed"} => job'[t].pc \in Unrecorded \cup {"crashed"}
    BY <1>2, <2>2
  <2> QED BY <1>3, <2>1, <2>3 DEF StoreFits
<1>8. DeletionFits'
  BY DEF IInv, DeletionFits
<1> QED BY <1>4, <1>5, <1>6, <1>7, <1>8 DEF IFits

LEMMA MovingFits ==
    ASSUME IInv, NEW s \in Server, JobHelper(s) \/ JobPruned(s) \/ JobStage(s) \/ JobFails(s)
    PROVE  IFits'
<1> USE DEF store, others, conf, env, history, At, Pcs, Working, Unrecorded
<1>1. CASE JobHelper(s)
  <2>1. PICK pc \in {"helper", "staging"} :
            Goto(s, pc) /\ job[s].pc = IF pc = "helper" THEN "begin" ELSE "restoring"
    BY <1>1 DEF JobHelper
  <2>2. removing[s].ids = <<>> /\ (pc = "staging" => job[s].keep # 0)
    BY <2>1, WorkerIs DEF IInv, JobFits
  <2> QED BY <1>1, <2>1, <2>2, MovesFit DEF JobHelper
<1>2. CASE JobPruned(s)
  <2>1. PICK pc \in {"restoring", "end"} : Goto(s, pc) /\ (pc = "restoring" => job[s].keep # 0)
    BY <1>2 DEF JobPruned
  <2> QED BY <1>2, <2>1, MovesFit DEF JobPruned
<1>3. CASE JobStage(s)
  <2>1. removing[s].ids = <<>>
    BY <1>3, WorkerIs DEF JobStage
  <2> QED BY <1>3, <2>1, MovesFit DEF JobStage
<1>4. CASE JobFails(s)
  <2>1. PICK pc \in {"end", "cleanup"} : Goto(s, pc) /\ (pc = "end" <=> job[s].pc = "ready")
    BY <1>4 DEF JobFails
  <2>2. removing[s].ids = <<>>
    BY <1>4, WorkerIs DEF JobFails
  <2> QED BY <1>4, <2>1, <2>2, MovesFit DEF JobFails
<1> QED BY <1>1, <1>2, <1>3, <1>4

\* A step that writes at most the row and the archive of its new backup.
LEMMA WritesFit ==
    ASSUME IInv, NEW s \in Server, NEW pc \in Working, job[s].pc \in Unrecorded, Goto(s, pc),
           UNCHANGED <<held, of, made, wanted, removing, deletion>>, unseen \subseteq unseen',
           \A b \in Backup \ {job[s].id} : row'[b] = row[b] /\ disk'[b] = disk[b],
           row'[job[s].id] = "complete" => disk'[job[s].id] = "published",
           disk'[job[s].id] # "none" /\ row'[job[s].id] = "none" /\ job[s].id \notin unseen'
              => pc \in Unrecorded,
           ArchiveBytes' =< MaxBytes,
           JobFits(s)'
    PROVE  IFits'
<1>1. /\ TypeOK /\ s \in Actor /\ job[s].pc \in Working /\ job[s].pc # "prune"
      /\ JobFits(s) /\ StoreFits /\ job[s].id \in Backup /\ row[job[s].id] = "none"
  BY JobTyped DEF IInv, JobFits, Working, Unrecorded, Pcs
<1>2. /\ \A t \in Server \ {s} : job[t].pc \notin Working
      /\ \A c \in Actor : removing[c].ids = <<>>
  BY <1>1, WorkerIs
<1>3. /\ job'[s].pc = pc /\ job'[s].id = job[s].id
      /\ \A t \in Server \ {s} : job'[t] = job[t]
  <2>1. job \in [Server -> JobRecords] /\ pc \in Pcs
    BY <1>1 DEF TypeOK, JobRecords, Working
  <2> QED BY <2>1, GotoIs DEF Goto
<1>4. ASSUME NEW t \in Server \ {s} PROVE JobFits(t)'
  <2>1. job[t].keep # 0 /\ row[job[t].keep] = "complete" => row'[job[t].keep] = "complete"
    BY <1>1, JobTyped
  <2> QED BY <1>2, <1>3, <2>1, BystandersFit
<1>5. \A a \in Actor : RemovalFits(a)'
  BY <1>2, NoRemovals
<1>6. StoreFits'
  <2>1. ASSUME NEW b \in Backup, disk'[b] # "none", row'[b] = "none", b \notin unseen'
        PROVE  \E t \in Server : job'[t].id = b /\ job'[t].pc \in Unrecorded \cup {"crashed"}
    <3>1. CASE b = job[s].id
      BY <1>3, <2>1, <3>1
    <3>2. CASE b # job[s].id
      <4>1. PICK t \in Server : job[t].id = b /\ job[t].pc \in Unrecorded \cup {"crashed"}
        BY <1>1, <2>1, <3>2 DEF StoreFits
      <4> QED BY <1>3, <3>2, <4>1
    <3> QED BY <3>1, <3>2
  <2>2. ASSUME NEW b \in Backup
        PROVE  /\ row'[b] = "complete" => disk'[b] = "published"
               /\ b > made' => row'[b] = "none"
    <3>1. job[s].id <= made /\ made' = made /\ made \in Nat /\ job[s].id \in Nat
      BY <1>1, JobTyped, BackupsAssumption DEF JobFits, TypeOK
    <3>2. b = job[s].id => ~(b > made)
      BY <3>1
    <3> QED BY <1>1, <3>1, <3>2 DEF StoreFits
  <2> QED BY <2>1, <2>2 DEF StoreFits
<1>7. DeletionFits'
  BY DEF IInv, DeletionFits
<1> QED BY <1>4, <1>5, <1>6, <1>7 DEF IFits

LEMMA WritingFits ==
    ASSUME IInv, NEW s \in Server,
           JobOpen(s) \/ JobPublish(s) \/ JobRecord(s) \/ JobCleanup(s) \/ JobCleanupFails(s)
    PROVE  IFits'
<1>1. /\ TypeOK /\ JobFits(s) /\ StoreFits /\ job \in [Server -> JobRecords]
      /\ row \in [Backup -> {"none", "complete", "deleting"}]
      /\ disk \in [Backup -> {"none", "partial", "published"}] /\ size \in [Backup -> 0..MaxBytes]
  BY JobTyped DEF IInv, TypeOK
<1>2. job[s].pc \in Unrecorded
  BY DEF JobOpen, JobPublish, JobRecord, JobCleanup, JobCleanupFails, At, Unrecorded
<1>3. /\ job[s].id \in Backup /\ row[job[s].id] = "none" /\ held["storage"] = s
      /\ job[s].keep # 0 => job[s].keep \in Backup /\ (job[s].keep # job[s].id \/ job[s].keep \in wanted)
  BY <1>1, <1>2, JobTyped DEF JobFits, Working, Unrecorded, Pcs
<1>4. ASSUME NEW pc \in Pcs, Goto(s, pc)
      PROVE  job'[s].pc = pc /\ job'[s].id = job[s].id /\ job'[s].keep = job[s].keep /\ job'[s].available = job[s].available
  BY <1>1, <1>4, GotoIs
<1> USE DEF store, others, conf, env, history, At
<1>5. CASE JobOpen(s)
  <2>1. Goto(s, "writing") /\ job[s].pc = "helper"
    BY <1>5 DEF JobOpen
  <2>2. ArchiveBytes' = ArchiveBytes
    BY <1>5 DEF JobOpen, ArchiveBytes
  <2>3. JobFits(s)'
    BY <1>1, <1>3, <1>4, <1>5, <2>1, <2>2 DEF JobOpen, JobFits, Working, Unrecorded, Pcs
  <2> QED BY <1>1, <1>2, <1>3, <1>5, <2>1, <2>2, <2>3, WritesFit
          DEF JobOpen, StoreFits, Working, Unrecorded, Pcs
<1>6. CASE JobPublish(s)
  <2>1. PICK n \in 1..job[s].available : size' = [size EXCEPT ![job[s].id] = n]
    BY <1>6 DEF JobPublish
  <2>2. Goto(s, "published") /\ job[s].pc = "writing"
    BY <1>6 DEF JobPublish
  <2>3. ArchiveBytes' <= ArchiveBytes /\ ArchiveBytes \in Nat /\ ArchiveBytes' \in Nat
    <3>1. \A b \in Backup : row'[b] = "complete" => row[b] = "complete" /\ size'[b] = size[b]
      BY <1>1, <1>3, <1>6, <2>1 DEF JobPublish
    <3> QED BY <3>1, BytesKept
  <2>4. size'[job[s].id] = n /\ n <= job[s].available /\ n \in Nat /\ job[s].available \in Nat /\ MaxBytes \in Nat
    BY <1>1, <1>3, <2>1, JobTyped, BackupsAssumption
  <2>5. ArchiveBytes' + size'[job[s].id] <= MaxBytes
    <3>1. ArchiveBytes + job[s].available <= MaxBytes
      BY <1>1, <2>2 DEF JobFits
    <3> DEFINE before == ArchiveBytes + job[s].available
               after == ArchiveBytes' + n
    <3>2. after <= before /\ after \in Int /\ before \in Int
      BY <2>3, <2>4
    <3>3. before <= MaxBytes /\ MaxBytes \in Int
      BY <2>4, <3>1
    <3> HIDE DEF before, after
    <3>4. after <= MaxBytes
      BY <3>2, <3>3
    <3> QED BY <2>4, <3>4 DEF after
  <2>6. JobFits(s)'
    BY <1>1, <1>3, <1>4, <1>6, <2>2, <2>5 DEF JobPublish, JobFits, Working, Unrecorded, Pcs
  <2>7. ArchiveBytes' <= MaxBytes
    BY <2>3, <2>4, <2>5
  <2> QED BY <1>1, <1>2, <1>3, <1>6, <2>2, <2>6, <2>7, WritesFit
          DEF JobPublish, Working, Unrecorded, Pcs
<1>7. CASE JobRecord(s)
  <2>1. Goto(s, "recorded") /\ job[s].pc = "published"
    BY <1>7 DEF JobRecord
  <2>2. row' = [row EXCEPT ![job[s].id] = "complete"] /\ size' = size /\ disk' = disk
    BY <1>7 DEF JobRecord
  <2>3. ArchiveBytes' <= MaxBytes
    <3>1. ArchiveBytes' = Cardinality(Bytes(row', size'))
      BY DEF ArchiveBytes, Bytes
    <3>2. Cardinality(Bytes(row', size)) <= Cardinality(Bytes(row, size)) + size[job[s].id]
      <4>1. \A b \in Backup \ {job[s].id} : row'[b] = "complete" => row[b] = "complete"
        BY <1>1, <2>2
      <4> QED BY <1>1, <1>3, <4>1, BytesGrow
    <3>3. Cardinality(Bytes(row, size)) + size[job[s].id] <= MaxBytes
      BY <1>1, <2>1, BytesNow DEF JobFits
    <3>4. /\ Cardinality(Bytes(row', size)) \in Nat /\ Cardinality(Bytes(row, size)) \in Nat
          /\ size[job[s].id] \in Nat /\ MaxBytes \in Nat
      BY <1>1, <1>3, BytesAre, BackupsAssumption
    <3>5. Cardinality(Bytes(row', size)) <= MaxBytes
      BY <3>2, <3>3, <3>4
    <3> QED BY <2>2, <3>1, <3>5
  <2>4. disk[job[s].id] = "published"
    BY <1>1, <2>1 DEF JobFits
  <2>5. JobFits(s)'
    BY <1>1, <1>3, <1>4, <1>7, <2>1, <2>2 DEF JobRecord, JobFits, Working, Unrecorded, Pcs
  <2> QED BY <1>1, <1>2, <1>3, <1>7, <2>1, <2>2, <2>3, <2>4, <2>5, WritesFit
          DEF JobRecord, Working, Unrecorded, Pcs
<1>8. CASE JobCleanup(s)
  <2>1. Goto(s, "end") /\ disk' = [disk EXCEPT ![job[s].id] = "none"] /\ row' = row
    BY <1>8 DEF JobCleanup
  <2>2. ArchiveBytes' = ArchiveBytes
    BY <1>8 DEF JobCleanup, ArchiveBytes
  <2>3. JobFits(s)'
    BY <1>1, <1>3, <1>4, <1>8, <2>1, <2>2 DEF JobCleanup, JobFits, Working, Unrecorded, Pcs
  <2> QED BY <1>1, <1>2, <1>3, <1>8, <2>1, <2>2, <2>3, WritesFit
          DEF JobCleanup, StoreFits, Working, Unrecorded, Pcs
<1>9. CASE JobCleanupFails(s)
  <2>1. Goto(s, "end") /\ RecordDeleting(s) /\ disk' = disk /\ size' = size
    BY <1>9 DEF JobCleanupFails
  <2>2. /\ (row' = row /\ job[s].id \in unseen') \/ row' = [row EXCEPT ![job[s].id] = "deleting"]
        /\ unseen \subseteq unseen'
    BY <2>1 DEF RecordDeleting
  <2>3. /\ \A b \in Backup \ {job[s].id} : row'[b] = row[b]
        /\ row'[job[s].id] # "complete"
        /\ row'[job[s].id] = "none" => job[s].id \in unseen'
    BY <1>1, <1>3, <2>2
  <2>4. ArchiveBytes' <= MaxBytes
    <3>1. \A b \in Backup : row'[b] = "complete" => row[b] = "complete" /\ size'[b] = size[b]
      BY <2>1, <2>3
    <3>2. ArchiveBytes' <= ArchiveBytes /\ ArchiveBytes \in Nat /\ ArchiveBytes' \in Nat
      BY <3>1, BytesKept
    <3> QED BY <1>1, <3>2, BackupsAssumption DEF StoreFits
  <2>5. JobFits(s)'
    BY <1>1, <1>3, <1>4, <1>9, <2>1, <2>3 DEF JobCleanupFails, JobFits, Working, Unrecorded, Pcs
  <2> QED BY <1>1, <1>2, <1>3, <1>9, <2>1, <2>2, <2>3, <2>4, <2>5, WritesFit
          DEF JobCleanupFails, Working, Unrecorded, Pcs
<1> QED BY <1>5, <1>6, <1>7, <1>8, <1>9

\* Steps of a job that write neither rows nor archives.
LEMMA StoreStays ==
    ASSUME IInv, NEW s \in Server, job[s].pc \notin Unrecorded \cup {"crashed"},
           \A t \in Server \ {s} : job'[t] = job[t],
           UNCHANGED <<row, disk, size, unseen>>, made' = made \/ made' = made + 1
    PROVE  StoreFits' /\ ArchiveBytes' = ArchiveBytes
<1>1. ArchiveBytes' = ArchiveBytes
  BY DEF ArchiveBytes
<1>2. ASSUME NEW b \in Backup, disk[b] # "none", row[b] = "none", b \notin unseen
      PROVE  \E t \in Server : job'[t].id = b /\ job'[t].pc \in Unrecorded \cup {"crashed"}
  <2>1. PICK t \in Server : job[t].id = b /\ job[t].pc \in Unrecorded \cup {"crashed"}
    BY <1>2 DEF IInv, StoreFits
  <2> QED BY <2>1
<1>3. ASSUME NEW b \in Backup, b > made' PROVE row[b] = "none"
  <2>1. b \in Nat /\ made \in Nat
    BY BackupsAssumption DEF Backup, IInv, TypeOK
  <2>2. b > made
    BY <1>3, <2>1
  <2> QED BY <2>2 DEF IInv, StoreFits
<1> QED BY <1>1, <1>2, <1>3 DEF IInv, StoreFits

LEMMA LockingFits ==
    ASSUME IInv, NEW s \in Server, JobLock(s)
    PROVE  IFits'
<1>1. /\ TypeOK /\ JobFits(s) /\ s \in Actor /\ s \notin {"delete", "tick", "none"} /\ job \in [Server -> JobRecords]
      /\ held["storage"] = "none" /\ job[s].pc = "wait" /\ held'["storage"] = s
      /\ UNCHANGED <<row, disk, size, of, made, unseen, wanted, removing, deletion>>
  BY JobTyped, BackupsAssumption
     DEF IInv, TypeOK, JobLock, At, Free, Keys, Taken, store, others, history, env
<1>2. /\ \A t \in Server : job[t].pc \notin Working
      /\ \A a \in Actor : removing[a].ids = <<>>
      /\ deletion.pc # "held"
  BY <1>1, Alone, BackupsAssumption DEF Actor
<1>3. PICK pc \in {"ready", "end"} : Goto(s, pc)
  BY DEF JobLock
<1>4. /\ job'[s].pc = pc /\ job'[s].id = job[s].id /\ job'[s].keep = job[s].keep
      /\ \A t \in Server \ {s} : job'[t] = job[t]
  BY <1>1, <1>3, GotoIs DEF Goto, Pcs
<1>5. ASSUME NEW t \in Server \ {s} PROVE JobFits(t)'
  BY <1>1, <1>2, <1>4, BystandersFit
<1>6. StoreFits' /\ ArchiveBytes' = ArchiveBytes
  BY <1>1, <1>4, StoreStays DEF Unrecorded
<1>7. JobFits(s)'
  BY <1>1, <1>3, <1>4 DEF JobFits, Unrecorded
<1>8. \A a \in Actor : RemovalFits(a)'
  BY <1>1, <1>2, NoRemovals
<1>9. DeletionFits'
  BY <1>1, <1>2 DEF IInv, DeletionFits
<1> QED BY <1>5, <1>6, <1>7, <1>8, <1>9 DEF IFits

LEMMA PlanningFits ==
    ASSUME IInv, NEW s \in Server, JobPlan(s)
    PROVE  IFits'
<1>1. /\ TypeOK /\ JobFits(s) /\ StoreFits /\ job \in [Server -> JobRecords]
      /\ job[s].pc = "ready" /\ job[s].pc \in Working
      /\ UNCHANGED <<row, disk, size, held, unseen, wanted, removing, deletion>>
      /\ made' = made + 1
  BY JobTyped DEF IInv, JobPlan, At, Working, Pcs, others, history
<1>2. /\ held["storage"] = s
      /\ \A t \in Server \ {s} : job[t].pc \notin Working
      /\ \A a \in Actor : removing[a].ids = <<>>
  BY <1>1, WorkerIs
<1>3. made \in Nat /\ made + 1 \in Backup /\ 0 \notin Backup
  <2>1. made < MaxBackups
    BY DEF JobPlan
  <2> QED BY <1>1, <2>1, BackupsAssumption DEF TypeOK, Backup
<1>4. /\ job'[s].pc = "begin" /\ job'[s].id = made + 1 /\ job'[s].keep = job[s].keep
      /\ job'[s].available = MaxBytes - ArchiveBytes
      /\ \A t \in Server \ {s} : job'[t] = job[t]
  BY <1>1 DEF JobPlan, JobRecords
<1>5. \A b \in Backup : b <= made => of'[b] = of[b]
  BY <1>1, <1>3 DEF JobPlan, TypeOK, Backup
<1>6. ASSUME NEW t \in Server \ {s} PROVE JobFits(t)'
  BY <1>1, <1>2, <1>4, <1>5, BystandersFit
<1>7. StoreFits' /\ ArchiveBytes' = ArchiveBytes
  BY <1>1, <1>4, StoreStays DEF Unrecorded
<1>8. JobFits(s)'
  <2>1. job[s].keep <= made /\ job[s].keep \in Nat /\ (job[s].keep # 0 => job[s].keep \in Backup)
    BY <1>1, JobTyped DEF JobFits
  <2>2. job[s].keep <= made' /\ made + 1 <= made'
    BY <1>1, <1>3, <2>1
  <2>3. row[made + 1] = "none" /\ made + 1 # 0
    BY <1>1, <1>3 DEF StoreFits
  <2>4. ArchiveBytes' + job'[s].available <= MaxBytes
    BY <1>4, <1>7, BytesNow, BackupsAssumption
  <2>5. job[s].keep # 0 => of'[job[s].keep] = s /\ (row[job[s].keep] = "complete" \/ job[s].keep \in wanted)
    BY <1>1, <1>5, <2>1 DEF JobFits
  <2> QED BY <1>1, <1>2, <1>4, <2>2, <2>3, <2>4, <2>5 DEF JobFits
<1>9. \A a \in Actor : RemovalFits(a)'
  BY <1>1, <1>2, NoRemovals
<1>10. DeletionFits'
  BY <1>1 DEF IInv, DeletionFits
<1> QED BY <1>6, <1>7, <1>8, <1>9, <1>10 DEF IFits

LEMMA PruningFits ==
    ASSUME IInv, NEW s \in Server, JobPrune(s)
    PROVE  IFits'
<1>1. /\ TypeOK /\ JobFits(s) /\ s \in Actor /\ job \in [Server -> JobRecords] /\ removing \in [Actor -> Removals]
      /\ job[s].pc = "recorded" /\ job[s].pc \in Working /\ Goto(s, "prune")
      /\ UNCHANGED <<row, disk, size, of, made, held, unseen, wanted, deletion>>
      /\ removing' = [removing EXCEPT ![s] = [ids |-> Prunable(s), pc |-> "mark"]]
  BY JobTyped DEF IInv, TypeOK, Removals, JobPrune, At, Working, Pcs, store, env, history
<1>2. /\ held["storage"] = s /\ s \notin {"delete", "tick"}
      /\ \A t \in Server \ {s} : job[t].pc \notin Working
      /\ \A a \in Actor : removing[a].ids = <<>>
  BY <1>1, WorkerIs
<1>3. /\ job'[s].pc = "prune" /\ job'[s].id = job[s].id /\ job'[s].keep = job[s].keep
      /\ \A t \in Server \ {s} : job'[t] = job[t]
  BY <1>1, GotoIs DEF Goto, Pcs
<1>4. ASSUME NEW t \in Server \ {s} PROVE JobFits(t)'
  BY <1>1, <1>2, <1>3, BystandersFit
<1>5. StoreFits' /\ ArchiveBytes' = ArchiveBytes
  BY <1>1, <1>3, StoreStays DEF Unrecorded
<1>6. JobFits(s)'
  BY <1>1, <1>2, <1>3 DEF JobFits, Unrecorded
<1>7. ASSUME NEW i \in DOMAIN Prunable(s)
      PROVE  /\ of[Prunable(s)[i]] = s
             /\ Prunable(s)[i] # job[s].keep \/ Prunable(s)[i] \in wanted
  <2>1. /\ of[Prunable(s)[i]] = s /\ Prunable(s)[i] \in Backup
        /\ row[Prunable(s)[i]] = "deleting" \/ Prunable(s)[i] # job[s].keep
    BY <1>1, PruneIs
  <2>2. 0 \notin Backup
    BY DEF Backup
  <2> QED BY <1>1, <2>1, <2>2 DEF JobFits
<1>8. ASSUME NEW a \in Actor PROVE RemovalFits(a)'
  <2>1. CASE a = s
    <3>1. removing'[s].ids = Prunable(s) /\ removing'[s].pc = "mark"
      BY <1>1
    <3> QED BY <1>1, <1>2, <1>3, <1>7, <2>1, <3>1 DEF RemovalFits
  <2>2. CASE a # s
    <3>1. removing'[a].ids = <<>>
      BY <1>1, <1>2, <2>2
    <3> QED BY <3>1 DEF RemovalFits
  <2> QED BY <2>1, <2>2
<1>9. DeletionFits'
  BY <1>1 DEF IInv, DeletionFits
<1> QED BY <1>4, <1>5, <1>6, <1>8, <1>9 DEF IFits

LEMMA EndingFits ==
    ASSUME IInv, NEW s \in Server, JobEnd(s)
    PROVE  IFits'
<1>1. /\ TypeOK /\ s \in Actor /\ job \in [Server -> JobRecords]
      /\ job[s].pc \in {"restoring", "end"} /\ job[s].pc \in Working
      /\ UNCHANGED <<row, disk, size, of, made, unseen, wanted, removing, deletion>>
      /\ job' = [job EXCEPT ![s] = NoJob]
  BY JobTyped DEF IInv, TypeOK, JobEnd, Working, Pcs, store, others, env, history
<1>2. /\ held["storage"] = s
      /\ \A t \in Server \ {s} : job[t].pc \notin Working
      /\ \A a \in Actor : removing[a].ids = <<>>
      /\ deletion.pc # "held"
  BY <1>1, WorkerIs
<1>3. job'[s] = NoJob /\ \A t \in Server \ {s} : job'[t] = job[t]
  BY <1>1
<1>4. ASSUME NEW t \in Server \ {s} PROVE JobFits(t)'
  BY <1>1, <1>2, <1>3, BystandersFit
<1>5. StoreFits'
  BY <1>1, <1>3, StoreStays DEF Unrecorded
<1>6. JobFits(s)'
  BY <1>1, <1>3, BackupsAssumption DEF NoJob, JobFits, Unrecorded, Working, TypeOK
<1>7. \A a \in Actor : RemovalFits(a)'
  BY <1>1, <1>2, NoRemovals
<1>8. DeletionFits'
  BY <1>1, <1>2 DEF IInv, DeletionFits
<1> QED BY <1>4, <1>5, <1>6, <1>7, <1>8 DEF IFits

\* Steps of a job without locks, which may come while others work.
LEMMA OutsideFits ==
    ASSUME IInv, NEW s \in Server, job[s].pc \notin Working, job'[s].pc \in {"idle", "wait"},
           job'[s].id = 0, job'[s].keep <= made,
           job'[s].keep # 0 => /\ of[job'[s].keep] = s
                               /\ row[job'[s].keep] = "complete" \/ job'[s].keep \in wanted,
           \A t \in Server \ {s} : job'[t] = job[t],
           UNCHANGED <<held, row, size, of, made, wanted, removing, deletion>>, unseen \subseteq unseen',
           \A b \in Backup : disk'[b] = disk[b] \/ (disk'[b] = "none" /\ row[b] = "none" /\ b = job[s].id),
           job[s].pc = "crashed" /\ job[s].id # 0 /\ row[job[s].id] = "none"
              => disk'[job[s].id] = "none" \/ job[s].id \in unseen'
    PROVE  IFits'
<1>1. /\ TypeOK /\ JobFits(s) /\ StoreFits /\ s \in Actor /\ made \in Nat /\ 0 \notin Backup
      /\ job[s].pc \notin Unrecorded /\ job[s].pc # "prune"
      /\ ArchiveBytes' = ArchiveBytes
  <2>1. TypeOK /\ JobFits(s) /\ StoreFits /\ s \in Actor /\ job[s].pc \in Pcs
    BY JobTyped DEF IInv
  <2>2. made \in Nat /\ 0 \notin Backup
    BY <2>1, BackupsAssumption DEF TypeOK, Backup
  <2>3. job[s].pc \notin Unrecorded /\ job[s].pc # "prune"
    BY <2>1 DEF Working, Unrecorded, Pcs
  <2>4. ArchiveBytes' = ArchiveBytes
    BY DEF ArchiveBytes
  <2> QED BY <2>1, <2>2, <2>3, <2>4
<1>2. ASSUME NEW t \in Server \ {s} PROVE JobFits(t)'
  <2>1. JobFits(t) /\ (job[t].id # 0 => job[t].id \in Backup /\ job[t].id # job[s].id)
    BY <1>1, JobTyped DEF IInv, IdsDiffer
  <2>2. job[t].pc = "published" => disk'[job[t].id] = disk[job[t].id]
    BY <2>1 DEF JobFits, Unrecorded
  <2>3. job'[t] = job[t]
    OBVIOUS
  <2> QED BY <1>1, <2>1, <2>2, <2>3 DEF JobFits
<1>3. JobFits(s)'
  BY <1>1 DEF JobFits, Working, Unrecorded
<1>4. ASSUME NEW a \in Actor PROVE RemovalFits(a)'
  <2>1. RemovalFits(a)
    BY DEF IInv
  <2>2. removing[a].ids # <<>> => Current(a) \in Backup
    BY <1>1, CurrentIs
  <2>3. Current(a)' = Current(a)
    BY DEF Current
  <2>4. removing[a].ids # <<>> /\ disk[Current(a)] = "none" => disk'[Current(a)] = "none"
    BY <2>2
  <2>5. removing[a].ids # <<>> /\ a \in Server => job'[a] = job[a]
    BY <1>1, <2>1 DEF RemovalFits
  <2> QED BY <2>1, <2>3, <2>4, <2>5 DEF RemovalFits
<1>5. StoreFits'
  <2>1. ASSUME NEW b \in Backup, disk'[b] # "none", row[b] = "none", b \notin unseen'
        PROVE  \E t \in Server : job'[t].id = b /\ job'[t].pc \in Unrecorded \cup {"crashed"}
    <3>1. disk[b] # "none" /\ b \notin unseen /\ b # 0
      BY <1>1, <2>1
    <3>2. PICK t \in Server : job[t].id = b /\ job[t].pc \in Unrecorded \cup {"crashed"}
      BY <1>1, <2>1, <3>1 DEF StoreFits
    <3>3. t # s
      BY <1>1, <2>1, <3>1, <3>2
    <3> QED BY <3>2, <3>3
  <2>2. ASSUME NEW b \in Backup, row[b] = "complete" PROVE disk'[b] = "published"
    BY <1>1, <2>2 DEF StoreFits
  <2> QED BY <1>1, <2>1, <2>2 DEF StoreFits
<1>6. DeletionFits'
  BY DEF IInv, DeletionFits
<1> QED BY <1>2, <1>3, <1>4, <1>5, <1>6 DEF IFits

LEMMA BeginningFits ==
    ASSUME IInv, NEW s \in Server, JobBegin(s)
    PROVE  IFits'
<1>1. /\ TypeOK /\ StoreFits /\ job \in [Server -> JobRecords]
      /\ job[s].pc = "idle" /\ made \in Nat
      /\ UNCHANGED <<held, row, disk, size, of, made, wanted, unseen, removing, deletion>>
  <2>1. TypeOK /\ StoreFits /\ job \in [Server -> JobRecords]
    BY JobTyped DEF IInv
  <2>2. made \in Nat
    BY <2>1, BackupsAssumption DEF TypeOK
  <2>3. job[s].pc = "idle" /\ UNCHANGED <<held, row, disk, size, of, made, wanted, unseen, removing, deletion>>
    BY DEF JobBegin, At, store, others, history
  <2> QED BY <2>1, <2>2, <2>3
<1>2. PICK b \in {0} \cup {c \in Backup : row[c] = "complete" /\ of[c] = s} :
          job' = [job EXCEPT ![s] = Waiting(b)]
  BY DEF JobBegin
<1>3. job'[s] = Waiting(b) /\ \A t \in Server \ {s} : job'[t] = job[t]
  BY <1>1, <1>2
<1>4. Waiting(b).pc = "wait" /\ Waiting(b).id = 0 /\ Waiting(b).keep = b
  BY DEF Waiting, NoJob
<1>5. b <= made
  <2>1. \A c \in Backup : row[c] = "complete" => c <= made
    <3> TAKE c \in Backup
    <3>1. c \in Nat /\ (c > made => row[c] = "none")
      BY <1>1, BackupsAssumption DEF StoreFits, Backup
    <3> QED BY <1>1, <3>1
  <2> QED BY <1>1, <1>2, <2>1
<1> QED BY <1>1, <1>2, <1>3, <1>4, <1>5, OutsideFits DEF Working

LEMMA LeavingFits ==
    ASSUME IInv, NEW s \in Server, JobRefused(s) \/ Recover(s) \/ RecoverFails(s)
    PROVE  IFits'
<1>1. /\ TypeOK /\ job \in [Server -> JobRecords] /\ made \in Nat
      /\ job[s].id # 0 => job[s].id \in Backup
      /\ job' = [job EXCEPT ![s] = NoJob]
      /\ job[s].pc \in {"wait", "crashed"}
      /\ UNCHANGED <<held, row, size, of, made, wanted, removing, deletion>>
  <2>1. TypeOK /\ job \in [Server -> JobRecords] /\ (job[s].id # 0 => job[s].id \in Backup)
    BY JobTyped DEF IInv
  <2>2. made \in Nat
    BY <2>1, BackupsAssumption DEF TypeOK
  <2>3. job' = [job EXCEPT ![s] = NoJob] /\ job[s].pc \in {"wait", "crashed"}
    BY DEF JobRefused, Recover, RecoverFails, At
  <2>4. UNCHANGED <<held, row, size, of, made, wanted, removing, deletion>>
    BY DEF JobRefused, Recover, RecoverFails, store, others, history, env
  <2> QED BY <2>1, <2>2, <2>3, <2>4
<1>2. /\ job'[s].pc = "idle" /\ job'[s].id = 0 /\ job'[s].keep = 0
      /\ \A t \in Server \ {s} : job'[t] = job[t]
  BY <1>1 DEF NoJob
<1>3. /\ unseen \subseteq unseen'
      /\ \A b \in Backup : disk'[b] = disk[b] \/ (disk'[b] = "none" /\ row[b] = "none" /\ b = job[s].id)
      /\ job[s].pc = "crashed" /\ job[s].id # 0 /\ row[job[s].id] = "none"
            => disk'[job[s].id] = "none" \/ job[s].id \in unseen'
  <2>1. CASE JobRefused(s)
    BY <2>1 DEF JobRefused, At, store, history
  <2>2. CASE Recover(s)
    BY <1>1, <2>2 DEF Recover, Unpublished, TypeOK, history
  <2>3. CASE RecoverFails(s)
    BY <2>3 DEF RecoverFails, store
  <2> QED BY <2>1, <2>2, <2>3
<1> QED BY <1>1, <1>2, <1>3, OutsideFits DEF Working

LEMMA JobStepFits ==
    ASSUME IInv, NEW s \in Server, JobBegin(s) \/ JobStep(s)
    PROVE  IFits'
BY BeginningFits, LockingFits, LeavingFits, PlanningFits, MovingFits, WritingFits, PruningFits, EndingFits
   DEF JobStep

----------------------------------------------------------------------------
(* Removals, deletions and crashes *)

\* What the one who removes a backup knows, and what nobody else does.
LEMMA RemoverIs ==
    ASSUME IInv, NEW a \in Actor, removing[a].ids # <<>>
    PROVE  /\ TypeOK /\ RemovalFits(a) /\ held["storage"] = a /\ Current(a) \in Backup
           /\ Current(a) = removing[a].ids[1] /\ 1 \in DOMAIN removing[a].ids
           /\ removing \in [Actor -> Removals]
           /\ \A c \in Actor \ {a} : removing[c].ids = <<>>
           /\ \A t \in Server : job[t].pc \in Working => t = a /\ job[t].pc = "prune"
<1>1. TypeOK /\ RemovalFits(a) /\ held["storage"] = a
  BY DEF IInv, RemovalFits
<1>2. removing \in [Actor -> Removals]
  BY <1>1 DEF TypeOK, Removals
<1>3. \A c \in Actor \ {a} : removing[c].ids = <<>>
  BY <1>1, Alone
<1>4. ASSUME NEW t \in Server, job[t].pc \in Working PROVE t = a /\ job[t].pc = "prune"
  <2>1. t = a
    BY <1>1, <1>4, Alone
  <2> QED BY <1>1, <2>1 DEF RemovalFits
<1> QED BY <1>1, <1>2, <1>3, <1>4, CurrentIs

\* A step of a removal changes one row to "deleting" or "none", or removes an
\* archive, of a backup that nobody relies on.
LEMMA RemovalKeeps ==
    ASSUME IInv, NEW a \in Actor, removing[a].ids # <<>>,
           UNCHANGED <<held, job, size, of, made, unseen, deletion>>,
           wanted \subseteq wanted',
           \A b \in Backup \ {Current(a)} : row'[b] = row[b] /\ disk'[b] = disk[b],
           row'[Current(a)] # "complete" \/ row'[Current(a)] = row[Current(a)],
           row[Current(a)] = "none" => row'[Current(a)] = "none",
           row'[Current(a)] = "complete" => disk'[Current(a)] = disk[Current(a)],
           disk'[Current(a)] \in {"none", disk[Current(a)]},
           row'[Current(a)] = "none" => row[Current(a)] = "none" \/ disk'[Current(a)] = "none",
           row[Current(a)] = "complete" /\ row'[Current(a)] # "complete"
              => \A t \in Server : job[t].keep = Current(a) => Current(a) \in wanted',
           RemovalFits(a)', \A c \in Actor \ {a} : removing'[c] = removing[c]
    PROVE  IFits'
<1>1. /\ TypeOK /\ StoreFits /\ Current(a) \in Backup
      /\ \A c \in Actor \ {a} : removing[c].ids = <<>>
      /\ \A t \in Server : job[t].pc \in Working => job[t].pc = "prune"
  BY RemoverIs DEF IInv
<1>2. ASSUME NEW t \in Server PROVE JobFits(t)'
  <2>1. JobFits(t) /\ job[t].pc \in Pcs /\ (job[t].keep # 0 => job[t].keep \in Backup)
    BY <1>1, JobTyped DEF IInv
  <2>2. job[t].pc \in {"idle", "wait", "crashed", "prune"}
    BY <1>1, <2>1 DEF Working
  <2>3. job[t].keep # 0 /\ row[job[t].keep] = "complete"
           => row'[job[t].keep] = "complete" \/ job[t].keep \in wanted'
    BY <1>1, <2>1
  <2> QED BY <2>1, <2>2, <2>3 DEF JobFits, Unrecorded
<1>3. \A c \in Actor : RemovalFits(c)'
  BY <1>1 DEF RemovalFits
<1>4. StoreFits'
  <2>1. ArchiveBytes' <= MaxBytes
    <3>1. \A b \in Backup : row'[b] = "complete" => row[b] = "complete" /\ size'[b] = size[b]
      BY <1>1
    <3>2. ArchiveBytes' <= ArchiveBytes /\ ArchiveBytes \in Nat /\ ArchiveBytes' \in Nat
      BY <3>1, BytesKept
    <3>3. ArchiveBytes <= MaxBytes /\ MaxBytes \in Nat
      BY <1>1, BackupsAssumption DEF StoreFits
    <3> QED BY <3>2, <3>3
  <2>2. ASSUME NEW b \in Backup
        PROVE  /\ row'[b] = "complete" => disk'[b] = "published"
               /\ disk'[b] # "none" /\ row'[b] = "none" /\ b \notin unseen =>
                     \E t \in Server : job[t].id = b /\ job[t].pc \in Unrecorded \cup {"crashed"}
               /\ b > made => row'[b] = "none"
    <3>1. CASE b = Current(a)
      BY <1>1, <3>1 DEF StoreFits
    <3>2. CASE b # Current(a)
      BY <1>1, <3>2 DEF StoreFits
    <3> QED BY <3>1, <3>2
  <2> QED BY <2>1, <2>2 DEF StoreFits
<1>5. DeletionFits'
  BY DEF IInv, DeletionFits
<1> QED BY <1>2, <1>3, <1>4, <1>5 DEF IFits

LEMMA RemovingFits ==
    ASSUME IInv, NEW a \in Actor, RemoveStep(a)
    PROVE  IFits'
<1> DEFINE id == Current(a)
<1>1. removing[a].ids # <<>>
  BY DEF RemoveStep, RemoveMark, Mark, RemoveUnlink, RemoveRow, RemoveFails
<1>2. /\ TypeOK /\ RemovalFits(a) /\ StoreFits /\ id \in Backup /\ removing \in [Actor -> Removals]
      /\ id = removing[a].ids[1] /\ 1 \in DOMAIN removing[a].ids
      /\ row \in [Backup -> {"none", "complete", "deleting"}]
      /\ disk \in [Backup -> {"none", "partial", "published"}]
  BY <1>1, RemoverIs DEF IInv, TypeOK
<1>3. removing[a].ids \in Seq(Backup)
  BY <1>2 DEF Removals
<1> HIDE DEF id
<1> USE DEF store, others, conf, env, history
<1>4. CASE RemoveMark(a)
  <2>1. /\ row' = [row EXCEPT ![id] = IF @ = "none" THEN "none" ELSE "deleting"]
        /\ UNCHANGED <<disk, size, of, held, job, made, unseen, deletion>>
        /\ wanted' = wanted \/ wanted' = wanted \cup {id}
    BY <1>4 DEF RemoveMark, Mark, id
  <2>2. /\ removing'[a].ids = removing[a].ids /\ removing'[a].pc = "unlink"
        /\ \A c \in Actor \ {a} : removing'[c] = removing[c]
    BY <1>2, <1>4 DEF RemoveMark, Mark, Removals
  <2>3. ASSUME row[id] = "complete", NEW t \in Server, job[t].keep = id PROVE id \in wanted'
    <3>1. CASE a = "delete"
      BY <1>4, <2>3, <3>1 DEF RemoveMark, id
    <3>2. CASE a = "tick"
      BY <1>1, <1>2, <2>3, <3>2 DEF RemovalFits, id
    <3>3. CASE a \in Server
      <4>1. of[id] = a /\ (id # job[a].keep \/ id \in wanted)
        BY <1>1, <1>2, <3>3 DEF RemovalFits
      <4>2. of[job[t].keep] = t
        <5>1. job[t].keep # 0
          BY <1>2, <2>3, BackupsAssumption DEF Backup
        <5> QED BY <5>1 DEF IInv, JobFits
      <4> QED BY <2>1, <2>3, <4>1, <4>2
    <3> QED BY <3>1, <3>2, <3>3 DEF Actor
  <2>4. Current(a)' = id
    BY <2>2 DEF Current, id
  <2>5. RemovalFits(a)'
    BY <1>1, <1>2, <2>1, <2>2, <2>4 DEF RemovalFits
  <2> QED BY <1>1, <1>2, <2>1, <2>2, <2>3, <2>5, RemovalKeeps DEF id
<1>5. CASE RemoveUnlink(a)
  <2>1. /\ disk' = [disk EXCEPT ![id] = "none"] /\ removing[a].pc = "unlink"
        /\ UNCHANGED <<row, size, of, held, job, made, unseen, wanted, deletion>>
    BY <1>5 DEF RemoveUnlink, id
  <2>2. /\ removing'[a].ids = removing[a].ids /\ removing'[a].pc = "row"
        /\ \A c \in Actor \ {a} : removing'[c] = removing[c]
    BY <1>2, <1>5 DEF RemoveUnlink, Removals
  <2>3. Current(a)' = id
    BY <2>2 DEF Current, id
  <2>4. row[id] # "complete"
    BY <1>1, <1>2, <2>1 DEF RemovalFits, id
  <2>5. RemovalFits(a)'
    BY <1>1, <1>2, <2>1, <2>2, <2>3, <2>4 DEF RemovalFits
  <2> QED BY <1>1, <1>2, <2>1, <2>2, <2>4, <2>5, RemovalKeeps DEF id
<1>6. CASE RemoveRow(a)
  <2>1. /\ row' = [row EXCEPT ![id] = "none"] /\ removing[a].pc = "row"
        /\ UNCHANGED <<disk, size, of, held, job, made, unseen, wanted, deletion>>
    BY <1>6 DEF RemoveRow, id
  <2>2. /\ removing'[a].ids = Tail(removing[a].ids) /\ removing'[a].pc = "mark"
        /\ \A c \in Actor \ {a} : removing'[c] = removing[c]
    BY <1>2, <1>6 DEF RemoveRow, Removals
  <2>3. row[id] # "complete" /\ disk[id] = "none"
    BY <1>1, <1>2, <2>1 DEF RemovalFits, id
  <2>4. ASSUME NEW i \in DOMAIN Tail(removing[a].ids)
        PROVE  /\ i + 1 \in DOMAIN removing[a].ids
               /\ Tail(removing[a].ids)[i] = removing[a].ids[i + 1]
               /\ Tail(removing[a].ids)[i] \in Backup
    BY <1>1, <1>3
  <2>5. ASSUME NEW b \in Backup, row[b] # "complete" PROVE row'[b] # "complete"
    BY <1>2, <2>1, <2>5
  <2>6. RemovalFits(a)'
    BY <1>1, <1>2, <2>1, <2>2, <2>4, <2>5 DEF RemovalFits
  <2> QED BY <1>1, <1>2, <2>1, <2>2, <2>3, <2>6, RemovalKeeps DEF id
<1>7. CASE RemoveFails(a)
  <2>1. UNCHANGED <<row, disk, size, of, held, job, made, unseen, wanted, deletion>>
    BY <1>7 DEF RemoveFails
  <2>2. removing'[a].ids = <<>> /\ \A c \in Actor \ {a} : removing'[c] = removing[c]
    BY <1>2, <1>7 DEF RemoveFails, NoRemoval
  <2>3. RemovalFits(a)'
    BY <2>2 DEF RemovalFits
  <2> QED BY <1>1, <1>2, <2>1, <2>2, <2>3, RemovalKeeps DEF id
<1> QED BY <1>4, <1>5, <1>6, <1>7 DEF RemoveStep

\* Whom a deletion does not concern while it holds no lock.
LEMMA AskingFits ==
    ASSUME IInv, UNCHANGED <<row, disk, size, of, job, made, unseen, wanted, held, removing>>,
           deletion'.pc # "idle" => deletion'.id # 0, deletion'.pc = "held" <=> deletion.pc = "held"
    PROVE  IFits'
<1>1. StoreFits' /\ \A s \in Server : JobFits(s)'
  <2>1. StoreFits'
    BY DEF IInv, StoreFits, ArchiveBytes
  <2>2. ASSUME NEW s \in Server PROVE JobFits(s)'
    BY SameJobFits DEF IInv
  <2> QED BY <2>1, <2>2
<1>2. \A a \in Actor : RemovalFits(a)'
  BY DEF IInv, RemovalFits, Current
<1>3. DeletionFits'
  BY DEF IInv, DeletionFits
<1> QED BY <1>1, <1>2, <1>3 DEF IFits

LEMMA ReadingFits ==
    ASSUME IInv, NEW b \in Backup, DeleteRead(b)
    PROVE  IFits'
<1>1. deletion \in Deletions /\ b # 0
  BY DEF IInv, TypeOK, Deletions, Backup
<1>2. deletion.pc = "idle" /\ deletion'.pc = "wait" /\ deletion'.id = b
  BY <1>1 DEF DeleteRead, Deletions
<1>3. UNCHANGED <<row, disk, size, of, job, made, unseen, wanted, held, removing>>
  BY DEF DeleteRead, store, history
<1> QED BY <1>1, <1>2, <1>3, AskingFits

\* A deletion takes its locks, ends, or loses its permission.
LEMMA DeletingFits ==
    ASSUME IInv, DeleteStep \/ Revoke
    PROVE  IFits'
<1>1. /\ TypeOK /\ DeletionFits /\ "delete" \in Actor /\ "delete" \notin Server
      /\ deletion \in Deletions /\ removing \in [Actor -> Removals]
  BY BackupsAssumption DEF IInv, TypeOK, Deletions, Removals, Actor
<1>2. UNCHANGED <<row, disk, size, of, job, made, unseen, wanted>>
  BY DEF DeleteStep, DeleteLock, DeleteEnd, Revoke, store, others, conf, env, history
<1>3. StoreFits'
  BY <1>2 DEF IInv, StoreFits, ArchiveBytes
<1>4. CASE Revoke
  <2>1. deletion'.pc = deletion.pc /\ deletion'.id = deletion.id /\ UNCHANGED <<held, removing>>
    BY <1>1, <1>4 DEF Revoke, Deletions
  <2> QED BY <1>1, <1>2, <2>1, AskingFits DEF DeletionFits
<1>5. CASE DeleteLock
  <2>1. /\ held["storage"] = "none" /\ held'["storage"] = "delete"
        /\ deletion'.pc = "held" /\ deletion'.id = deletion.id /\ deletion.pc = "wait"
    BY <1>1, <1>5 DEF DeleteLock, Free, Keys, Taken, TypeOK, Deletions
  <2>2. /\ removing'["delete"].pc = "mark"
        /\ \A a \in Actor \ {"delete"} : removing'[a] = removing[a]
    BY <1>1, <1>5 DEF DeleteLock
  <2>3. /\ \A t \in Server : job[t].pc \notin Working
        /\ \A a \in Actor : removing[a].ids = <<>>
    BY <2>1, Alone, BackupsAssumption DEF Actor
  <2>4. ASSUME NEW t \in Server PROVE JobFits(t)'
    BY <1>2, <2>3, BystandersFit
  <2>5. ASSUME NEW a \in Actor PROVE RemovalFits(a)'
    <3>1. CASE a = "delete"
      BY <1>1, <2>1, <2>2, <3>1 DEF RemovalFits
    <3>2. CASE a # "delete"
      BY <2>2, <2>3, <3>2 DEF RemovalFits
    <3> QED BY <3>1, <3>2
  <2>6. DeletionFits'
    BY <1>1, <2>1 DEF DeletionFits
  <2> QED BY <1>3, <2>4, <2>5, <2>6 DEF IFits
<1>6. CASE DeleteEnd
  <2>1. /\ deletion'.pc = "idle" /\ removing'["delete"].ids = <<>>
        /\ \A a \in Actor \ {"delete"} : removing'[a] = removing[a]
        /\ \A k \in Server \cup {"storage"} : held[k] # "delete" => held'[k] = held[k]
    BY <1>1, <1>6 DEF DeleteEnd, NoDeletion, NoRemoval, Released, TypeOK
  <2>2. ASSUME NEW t \in Server PROVE JobFits(t)'
    <3>1. t # "delete" /\ JobFits(t)
      BY <1>1 DEF IInv
    <3>2. held["storage"] = t => held'["storage"] = t
      BY <2>1, <3>1
    <3> QED BY <1>2, <3>1, <3>2, SameJobFits
  <2>3. ASSUME NEW a \in Actor PROVE RemovalFits(a)'
    <3>1. CASE a = "delete"
      BY <2>1, <3>1 DEF RemovalFits
    <3>2. CASE a # "delete"
      <4>1. RemovalFits(a) /\ removing'[a] = removing[a] /\ deletion.pc = deletion.pc
        BY <2>1, <3>2 DEF IInv
      <4>2. held["storage"] = a => held'["storage"] = a
        BY <2>1, <3>2
      <4> QED BY <1>2, <3>2, <4>1, <4>2 DEF RemovalFits, Current
    <3> QED BY <3>1, <3>2
  <2>4. DeletionFits'
    BY <2>1 DEF DeletionFits
  <2> QED BY <1>3, <2>2, <2>3, <2>4 DEF IFits
<1> QED BY <1>4, <1>5, <1>6 DEF DeleteStep

\* FinishDeletions lists rows, takes one under its locks, or lets them go.
LEMMA TickingFits ==
    ASSUME IInv, TickStep
    PROVE  IFits'
<1>1. /\ TypeOK /\ "tick" \in Actor /\ "tick" \notin Server /\ "tick" \notin {"none", "delete"}
      /\ removing \in [Actor -> Removals]
  BY BackupsAssumption DEF IInv, TypeOK, Removals, Actor
<1>2. UNCHANGED <<row, disk, size, of, job, made, unseen, wanted, deletion>>
  BY DEF TickStep, TickList, TickTake, TickRelease, store, others, conf, env, history
<1>3. StoreFits'
  BY <1>2 DEF IInv, StoreFits, ArchiveBytes
<1>4. CASE UNCHANGED <<held, removing>>
  <2>1. ASSUME NEW t \in Server PROVE JobFits(t)'
    BY <1>2, <1>4, <2>1, SameJobFits DEF IInv
  <2>2. ASSUME NEW a \in Actor PROVE RemovalFits(a)'
    BY <1>2, <1>4 DEF IInv, RemovalFits, Current
  <2>3. DeletionFits'
    BY <1>2, <1>4 DEF IInv, DeletionFits
  <2> QED BY <1>3, <2>1, <2>2, <2>3 DEF IFits
<1>5. CASE TickRelease
  <2>1. /\ held'["storage"] = "none" /\ held["storage"] = "tick" /\ removing' = removing
        /\ removing["tick"].ids = <<>>
    BY <1>1, <1>5 DEF TickRelease, Released, TypeOK, others
  <2>2. /\ \A t \in Server : job[t].pc \notin Working
        /\ \A a \in Actor : removing[a].ids = <<>>
        /\ deletion.pc # "held"
    BY <1>1, <2>1, Alone
  <2>3. ASSUME NEW t \in Server PROVE JobFits(t)'
    BY <1>2, <2>2, BystandersFit
  <2>4. \A a \in Actor : RemovalFits(a)'
    BY <2>1, <2>2, NoRemovals
  <2>5. DeletionFits'
    BY <1>2, <2>2 DEF IInv, DeletionFits
  <2> QED BY <1>3, <2>3, <2>4, <2>5 DEF IFits
<1>6. CASE TickTake /\ ~UNCHANGED <<held, removing>>
  <2> DEFINE b == Min(tick.pending)
  <2>1. /\ Free(Keys(of[b])) /\ row[b] = "deleting"
        /\ held' = Taken("tick", Keys(of[b]))
        /\ removing' = [removing EXCEPT !["tick"] = [ids |-> <<b>>, pc |-> "mark"]]
    BY <1>6 DEF TickTake
  <2> HIDE DEF b
  <2>2. held["storage"] = "none" /\ held'["storage"] = "tick"
    BY <1>1, <2>1 DEF Free, Keys, Taken, TypeOK
  <2>3. /\ removing'["tick"].ids = <<b>> /\ removing'["tick"].pc = "mark"
        /\ \A a \in Actor \ {"tick"} : removing'[a] = removing[a]
    BY <1>1, <2>1
  <2>4. /\ \A t \in Server : job[t].pc \notin Working
        /\ \A a \in Actor : removing[a].ids = <<>>
        /\ deletion.pc # "held"
    BY <2>2, Alone, BackupsAssumption DEF Actor
  <2>5. ASSUME NEW t \in Server PROVE JobFits(t)'
    BY <1>2, <2>4, BystandersFit
  <2>6. ASSUME NEW a \in Actor PROVE RemovalFits(a)'
    <3>1. CASE a = "tick"
      <4>1. \A i \in DOMAIN <<b>> : <<b>>[i] = b
        OBVIOUS
      <4> QED BY <1>1, <1>2, <2>1, <2>2, <2>3, <3>1, <4>1 DEF RemovalFits
    <3>2. CASE a # "tick"
      BY <2>3, <2>4, <3>2 DEF RemovalFits
    <3> QED BY <3>1, <3>2
  <2>7. DeletionFits'
    BY <1>2, <2>4 DEF IInv, DeletionFits
  <2> QED BY <1>3, <2>5, <2>6, <2>7 DEF IFits
<1>7. TickList => UNCHANGED <<held, removing>>
  BY DEF TickList
<1> QED BY <1>4, <1>5, <1>6, <1>7 DEF TickStep

\* A crash releases every lock, and nobody works on the store after it.
LEMMA CrashingFits ==
    ASSUME IInv, Crash
    PROVE  IFits'
<1>1. /\ TypeOK /\ StoreFits /\ job \in [Server -> JobRecords] /\ made \in Nat
  <2>1. TypeOK /\ StoreFits
    BY DEF IInv
  <2>2. made \in 0..MaxBackups
    BY <2>1 DEF TypeOK
  <2>3. made \in Nat
    BY <2>2, BackupsAssumption
  <2>4. job \in [Server -> JobRecords]
    BY <2>1 DEF TypeOK, JobRecords
  <2> QED BY <2>1, <2>3, <2>4
<1>2. /\ UNCHANGED <<row, disk, size, of, made, unseen, wanted>>
      /\ deletion'.pc = "idle" /\ \A a \in Actor : removing'[a].ids = <<>>
  <2>1. UNCHANGED <<row, disk, size, of, made, unseen, wanted>>
    BY DEF Crash, store, history
  <2>2. deletion' = NoDeletion /\ removing' = [a \in Actor |-> NoRemoval]
    BY DEF Crash
  <2>3. NoDeletion.pc = "idle" /\ NoRemoval.ids = <<>>
    BY DEF NoDeletion, NoRemoval
  <2> QED BY <2>1, <2>2, <2>3
<1>3. ASSUME NEW s \in Server
      PROVE  \/ job'[s].pc = "idle" /\ job'[s].id = 0 /\ job'[s].keep = 0 /\ job[s].pc \in {"idle", "wait"}
             \/ job'[s].pc = "crashed" /\ job'[s].id = job[s].id /\ job'[s].keep = job[s].keep
  <2>1. job' = [t \in Server |-> IF job[t].pc \in {"idle", "wait"} THEN NoJob ELSE [job[t] EXCEPT !.pc = "crashed"]]
    BY DEF Crash
  <2>2. CASE job[s].pc \in {"idle", "wait"}
    BY <2>1, <2>2 DEF NoJob
  <2>3. CASE job[s].pc \notin {"idle", "wait"}
    BY <1>1, <2>1, <2>3 DEF JobRecords
  <2> QED BY <2>2, <2>3
<1>4. ASSUME NEW s \in Server PROVE JobFits(s)'
  <2>1. JobFits(s)
    BY DEF IInv
  <2> QED BY <1>1, <1>2, <1>3, <2>1 DEF JobFits, Working, Unrecorded
<1>5. StoreFits'
  <2>1. ASSUME NEW b \in Backup, NEW s \in Server, job[s].id = b, job[s].pc \in Unrecorded \cup {"crashed"}
        PROVE  job'[s].id = b /\ job'[s].pc = "crashed"
    BY <1>3, <2>1 DEF Unrecorded
  <2> QED BY <1>1, <1>2, <2>1 DEF StoreFits, ArchiveBytes
<1>6. \A a \in Actor : RemovalFits(a)'
  BY <1>2, NoRemovals
<1>7. DeletionFits'
  BY <1>2 DEF DeletionFits
<1> QED BY <1>4, <1>5, <1>6, <1>7 DEF IFits

LEMMA QuietFits ==
    ASSUME IInv, InitializeBegin \/ InitializeInsert \/ SaveSettings \/ Restart \/ UNCHANGED vars
    PROVE  IFits'
<1>1. UNCHANGED <<held, row, disk, size, of, job, made, unseen, wanted, deletion, removing>>
  BY DEF InitializeBegin, InitializeInsert, SaveSettings, Restart, vars, store, others, conf, env, history
<1>2. ASSUME NEW t \in Server PROVE JobFits(t)'
  BY <1>1, SameJobFits DEF IInv
<1>3. ASSUME NEW a \in Actor PROVE RemovalFits(a)'
  BY <1>1 DEF IInv, RemovalFits, Current
<1>4. DeletionFits' /\ StoreFits'
  BY <1>1 DEF IInv, DeletionFits, StoreFits, ArchiveBytes
<1> QED BY <1>2, <1>3, <1>4 DEF IFits

LEMMA NextFits == IInv /\ [Next]_vars => IFits'
BY JobStepFits, RemovingFits, ReadingFits, DeletingFits, TickingFits, CrashingFits, QuietFits DEF Next

----------------------------------------------------------------------------
(* Whose a helper and a new backup are *)

\* A step of a job leaves the others as they are.  It keeps its identifier,
\* drops it or takes a new one, and it is helped only where it should be.
LEMMA StepIs ==
    ASSUME IInv, NEW s \in Server, JobBegin(s) \/ JobStep(s)
    PROVE  /\ \A t \in Server \ {s} : job'[t] = job[t]
           /\ job'[s].id \in {0, job[s].id, made + 1}
           /\ helpers' \subseteq helpers \cup {s}
           /\ s \in helpers' => job'[s].pc \in Helped
<1>1. TypeOK /\ job \in [Server -> JobRecords] /\ (s \in helpers => job[s].pc \in Helped)
  BY JobTyped DEF IInv, HelpersFit
<1> USE DEF store, others, conf, env, history
<1> DEFINE Moves == \E pc \in Pcs :
               Goto(s, pc) /\ helpers' \subseteq helpers \cup {s} /\ (s \in helpers' => pc \in Helped)
<1>2. CASE Moves
  <2>1. PICK pc \in Pcs : Goto(s, pc) /\ helpers' \subseteq helpers \cup {s} /\ (s \in helpers' => pc \in Helped)
    BY <1>2
  <2>2. job'[s].pc = pc /\ job'[s].id = job[s].id
    BY <1>1, <2>1, GotoIs
  <2>3. \A t \in Server \ {s} : job'[t] = job[t]
    BY <1>1, <2>1 DEF Goto
  <2> QED BY <2>1, <2>2, <2>3
<1>3. CASE job' = [job EXCEPT ![s] = NoJob] /\ helpers' \subseteq helpers /\ s \notin helpers'
  BY <1>1, <1>3 DEF NoJob
<1>4. CASE JobPlan(s)
  <2>1. job'[s].id = made + 1 /\ \A t \in Server \ {s} : job'[t] = job[t]
    BY <1>1, <1>4 DEF JobPlan, JobRecords
  <2>2. helpers' = helpers /\ job[s].pc = "ready"
    BY <1>4 DEF JobPlan, At
  <2> QED BY <1>1, <2>1, <2>2 DEF Helped
<1>5. CASE JobBegin(s)
  <2>1. PICK b \in {0} \cup {c \in Backup : row[c] = "complete" /\ of[c] = s} :
            job' = [job EXCEPT ![s] = Waiting(b)]
    BY <1>5 DEF JobBegin
  <2>2. Waiting(b).id = 0
    BY DEF Waiting, NoJob
  <2>3. helpers' = helpers /\ job[s].pc = "idle"
    BY <1>5 DEF JobBegin, At
  <2> QED BY <1>1, <2>1, <2>2, <2>3 DEF Helped
<1>6. JobRefused(s) \/ JobEnd(s) \/ Recover(s) \/ RecoverFails(s)
         => job' = [job EXCEPT ![s] = NoJob] /\ helpers' \subseteq helpers /\ s \notin helpers'
  BY <1>1 DEF JobRefused, JobEnd, Recover, RecoverFails, At, Helped
<1>7. JobLock(s) => Moves
  BY <1>1 DEF JobLock, At, Helped, Pcs
<1>8. JobHelper(s) \/ JobOpen(s) => Moves
  BY <1>1 DEF JobHelper, JobOpen, Helped, Pcs
<1>9. JobPublish(s) \/ JobRecord(s) \/ JobPrune(s) => Moves
  BY <1>1 DEF JobPublish, JobRecord, JobPrune, Helped, Pcs
<1>10. JobPruned(s) \/ JobStage(s) \/ JobCleanup(s) \/ JobCleanupFails(s) => Moves
  BY <1>1 DEF JobPruned, JobStage, JobCleanup, JobCleanupFails, Pcs
<1>11. JobFails(s) => Moves
  BY <1>1 DEF JobFails, At, Helped, Pcs
<1> HIDE DEF Moves
<1> QED BY <1>2, <1>3, <1>4, <1>5, <1>6, <1>7, <1>8, <1>9, <1>10, <1>11 DEF JobStep

\* Only a job takes an identifier, a new one.
LEMMA NextIds == IInv /\ [Next]_vars => HelpersFit' /\ IdsDiffer'
<1> SUFFICES ASSUME IInv, [Next]_vars PROVE HelpersFit' /\ IdsDiffer'
  OBVIOUS
<1>1. TypeOK /\ HelpersFit /\ IdsDiffer /\ job \in [Server -> JobRecords]
  BY DEF IInv, TypeOK, JobRecords
<1>2. ASSUME NEW s \in Server, JobBegin(s) \/ JobStep(s) PROVE HelpersFit' /\ IdsDiffer'
  <2>1. /\ \A t \in Server \ {s} : job'[t] = job[t]
        /\ job'[s].id \in {0, job[s].id, made + 1}
        /\ helpers' \subseteq helpers \cup {s} /\ (s \in helpers' => job'[s].pc \in Helped)
    BY <1>2, StepIs
  <2>2. ASSUME NEW t \in Server PROVE job[t].id # made + 1
    <3>1. job[t].id <= made /\ job[t].id \in Nat /\ made \in Nat
      BY <1>1, JobTyped, BackupsAssumption DEF IInv, JobFits, TypeOK
    <3> QED BY <3>1
  <2>3. HelpersFit'
    BY <1>1, <2>1 DEF HelpersFit, TypeOK
  <2>4. IdsDiffer'
    BY <1>1, <2>1, <2>2 DEF IdsDiffer
  <2> QED BY <2>3, <2>4
<1>3. CASE Crash
  <2>1. ASSUME NEW s \in Server
        PROVE  \/ job[s].pc \in {"idle", "wait"} /\ job'[s].id = 0
               \/ job'[s].pc = "crashed" /\ job'[s].id = job[s].id
    <3>1. job' = [t \in Server |-> IF job[t].pc \in {"idle", "wait"} THEN NoJob ELSE [job[t] EXCEPT !.pc = "crashed"]]
      BY <1>3 DEF Crash
    <3>2. CASE job[s].pc \in {"idle", "wait"}
      BY <3>1, <3>2 DEF NoJob
    <3>3. CASE job[s].pc \notin {"idle", "wait"}
      BY <1>1, <3>1, <3>3 DEF JobRecords
    <3> QED BY <3>2, <3>3
  <2>2. helpers' = helpers
    BY <1>3 DEF Crash
  <2>3. HelpersFit'
    BY <1>1, <2>1, <2>2 DEF HelpersFit, Helped, TypeOK
  <2>4. IdsDiffer'
    BY <1>1, <2>1 DEF IdsDiffer
  <2> QED BY <2>3, <2>4
<1>4. CASE UNCHANGED <<job, helpers>>
  BY <1>1, <1>4 DEF HelpersFit, IdsDiffer
<1>5. (\E a \in Actor : RemoveStep(a)) => UNCHANGED <<job, helpers>>
  BY DEF RemoveStep, RemoveMark, RemoveUnlink, RemoveRow, RemoveFails
<1>7. ASSUME NEW b \in Backup, DeleteRead(b) PROVE UNCHANGED <<job, helpers>>
  BY <1>7 DEF DeleteRead
<1>6. DeleteStep \/ Revoke \/ TickStep \/ InitializeBegin \/ InitializeInsert \/ SaveSettings \/ Restart \/ UNCHANGED vars
         => UNCHANGED <<job, helpers>>
  BY DEF DeleteStep, DeleteLock, DeleteEnd, Revoke, TickStep, TickList, TickTake, TickRelease,
         InitializeBegin, InitializeInsert, SaveSettings, Restart, vars
<1> QED BY <1>2, <1>3, <1>4, <1>5, <1>6, <1>7 DEF Next

LEMMA NextIInv == IInv /\ [Next]_vars => IInv'
BY NextTyped, NextFits, NextIds DEF IInv, IFits

LEMMA InitIInv == Init => IInv
<1> SUFFICES ASSUME Init PROVE IInv
  OBVIOUS
<1>1. TypeOK
  BY TypeInit
<1>2. DeletionFits
  BY DEF Init, DeletionFits, NoDeletion
<1>3. HelpersFit /\ IdsDiffer
  BY DEF Init, HelpersFit, IdsDiffer, NoJob
<1>4. \A s \in Server : JobFits(s)
  BY BackupsAssumption DEF Init, JobFits, NoJob, Working, Unrecorded
<1>5. \A a \in Actor : RemovalFits(a)
  BY DEF Init, RemovalFits, NoRemoval
<1>0. Old \in Nat /\ MaxBackups \in Nat /\ \A b \in Backup : b \in Nat /\ (b > Old <=> ~(b =< Old))
  BY BackupsAssumption DEF Backup
<1>6. ASSUME NEW b \in Backup
      PROVE  /\ b > Old => row[b] = "none" /\ disk[b] = "none"
             /\ ~(b > Old) => row[b] # "none" /\ disk[b] = "published"
  <2>1. IF b > Old THEN row[b] = "none" ELSE row[b] = "complete" \/ row[b] = "deleting"
    BY DEF Init
  <2>2. disk[b] = IF b =< Old THEN "published" ELSE "none"
    BY DEF Init
  <2> QED BY <1>0, <2>1, <2>2
<1>7. ArchiveBytes =< MaxBytes
  <2>1. IsFiniteSet(1..Old) /\ Cardinality(1..Old) = Old
    <3>1. IsFiniteSet(1..Old) /\ Cardinality(1..Old) = IF 1 > Old THEN 0 ELSE Old - 1 + 1
      <4>1. 1 \in Int /\ Old \in Int
        BY <1>0
      <4> QED BY <4>1, FS_Interval, Zenon
    <3> QED BY <1>0, <3>1
  <2>2. Bytes(row, size) \in SUBSET ((1..Old) \X {1})
    BY <1>6, BackupsAssumption DEF Init, Bytes, Backup
  <2>3. IsFiniteSet((1..Old) \X {1}) /\ Cardinality((1..Old) \X {1}) = Old
    <3>1. IsFiniteSet({1}) /\ Cardinality({1}) = 1
      BY FS_Singleton
    <3>2. /\ IsFiniteSet((1..Old) \X {1})
          /\ Cardinality((1..Old) \X {1}) = Cardinality(1..Old) * Cardinality({1})
      BY <2>1, <3>1, FS_Product, Zenon
    <3> QED BY <1>0, <2>1, <3>1, <3>2
  <2> QED BY <2>2, <2>3, FS_Subset, BytesNow, BackupsAssumption
<1>8. StoreFits
  BY <1>6, <1>7 DEF Init, StoreFits
<1> QED BY <1>1, <1>2, <1>3, <1>4, <1>5, <1>8 DEF IInv

LEMMA Invariance == Spec => []IInv
<1>1. IInv /\ [Next]_vars => IInv'
  BY NextIInv
<1> QED BY InitIInv, <1>1, PTL DEF Spec

\* Whatever is interrupted, in whatever order, no archive is lost or left
\* unseen, the limit is kept, and no helper outlives its operation.
THEOREM BackupsAreKeptHolds == Spec => []BackupsAreKept
<1>1. IInv => BackupsAreKept
  <2> SUFFICES ASSUME IInv PROVE BackupsAreKept
    OBVIOUS
  <2>1. ASSUME NEW s \in Server, job[s].pc \in {"restoring", "staging"}
        PROVE  disk[job[s].keep] = "published" \/ job[s].keep \in wanted
    <3>1. job[s].keep \in Backup
      BY <2>1, JobTyped DEF IInv, JobFits
    <3> QED BY <2>1, <3>1 DEF IInv, JobFits, StoreFits
  <2>2. \A s \in helpers : job[s].pc # "idle"
    BY DEF IInv, HelpersFit, Helped
  <2> QED BY <2>1, <2>2 DEF IInv, StoreFits, BackupsAreKept
<1> QED BY Invariance, <1>1, PTL

=============================================================================
