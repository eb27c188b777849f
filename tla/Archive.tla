------------------------------- MODULE Archive -------------------------------
(***************************************************************************)
(* A backup's archive from end to end: the file helper streams a data root *)
(* as tar (helper/file.go), the backup copies it entry by entry under new  *)
(* names into the stored archive (backups/helpers.go), and a restore walks *)
(* that archive again and stages what it holds (backups/archive.go).  Both *)
(* readings are tarstream.Walk, which sees chunks of any size.             *)
(*                                                                         *)
(* An archive is a sequence of units, two to a block, so that it can end,  *)
(* or be damaged, inside one.  Simplifications: one data root; ownership   *)
(* and times ride along; global PAX headers, which Ludock never writes,    *)
(* are left out; a header whose checksum fails is one that is not whole.   *)
(***************************************************************************)
EXTENDS Naturals, Sequences
LOCAL INSTANCE SequencesExt

CONSTANTS Trees,        \* what the root may hold: sequences of entries, the root first
          Chunks,       \* sizes of the pieces a reader is given
          MaxBytes      \* the archive's limit, in units

VARIABLES
    tree, phase,            \* the data; "copy", "saved", "stage", "restored", "refused"
    input, buf, total,      \* source: units not read, read and not taken, read in all
    pc, local, header, left,    \* Walk
    names, archive, staged, \* entries seen; what was written; what was extracted
    exited, harm            \* the helper's exit code is zero; what happened to the units: "none", "cut", "damaged"

walk == <<pc, local, header, left>>
vars == <<tree, phase, input, buf, total, walk, names, archive, staged, exited, harm>>

Zero == [k |-> "zero"]
Rest == [k |-> "rest"]
NoHeader == [type |-> "none", name |-> <<>>, size |-> 0]
NoPath == <<"none">>    \* a PAX header without a path record
Block(type, name, size) == [k |-> "head", type |-> type, name |-> name, size |-> size]

TypeOK ==
    /\ tree \in Trees /\ phase \in {"copy", "saved", "stage", "restored", "refused"} /\ total \in Nat
    /\ pc \in {"head", "pax", "body", "pad", "second", "trailing"} /\ left \in Nat
    /\ exited \in BOOLEAN /\ harm \in {"none", "cut", "damaged"}

-----------------------------------------------------------------------------
(* Writing.                                                                *)

Padding(size) == IF size % 2 = 1 THEN <<Zero>> ELSE <<>>
End == <<Zero, Zero, Zero, Zero>>

(* EncodeHeader: a PAX header first when the name is long, or when there   *)
(* are records to keep.                                                    *)
EncodeHeader(e, records) ==
    (IF e.long \/ records THEN <<Block("pax", <<"PaxHeader">>, 1), Rest, [k |-> "pax", path |-> IF e.long THEN e.name ELSE NoPath], Zero>> ELSE <<>>)
    \o <<Block(e.type, IF e.long THEN <<"entry">> ELSE e.name, e.size), Rest>>

Data(e) == [j \in 1..e.size |-> [k |-> "data", of |-> e.name, at |-> j]]
ArchiveEntry(e) == EncodeHeader(e, FALSE) \o Data(e) \o Padding(e.size)

(* The helper ends with an error at what it cannot archive.                *)
Archivable(e) == e.type \in {"file", "directory"}
Stream(entries) ==
    LET good == {i \in 0..Len(entries) : \A j \in 1..i : Archivable(entries[j])}
        last == CHOOSE i \in good : \A j \in good : j <= i
    IN  FlattenSeq([i \in 1..last |-> ArchiveEntry(entries[i])]) \o (IF last = Len(entries) THEN End ELSE <<>>)

Snapshot == [name |-> <<"snapshot">>, type |-> "directory", size |-> 0, long |-> FALSE]

Init ==
    /\ tree \in Trees /\ phase = "copy" /\ input = Stream(tree) /\ buf = <<>> /\ total = 0
    /\ pc = "head" /\ local = NoPath /\ header = NoHeader /\ left = 0
    /\ names = {} /\ archive = EncodeHeader(Snapshot, FALSE) /\ staged = <<>>
    /\ exited = (\A i \in DOMAIN tree : Archivable(tree[i])) /\ harm = "none"

-----------------------------------------------------------------------------
(* Reading.                                                                *)

Walking == phase \in {"copy", "stage"}
Refuse == phase' = "refused" /\ UNCHANGED <<tree, input, buf, total, walk, names, archive, staged, exited, harm>>

(* What exact waits for before it returns; bodies and what trails the end  *)
(* are taken as they come.                                                 *)
Need == CASE pc \in {"head", "second"} -> 2 [] pc = "pax" -> 2 [] OTHER -> 1

(* source.take: the next chunk, counted against the limit.                 *)
Read(n) ==
    /\ Walking /\ Len(buf) < Need /\ input # <<>> /\ (n <= Len(input) \/ n = 1)
    /\ IF phase = "stage" /\ total + n > MaxBytes THEN Refuse
       ELSE /\ buf' = buf \o SubSeq(input, 1, n) /\ input' = SubSeq(input, n + 1, Len(input)) /\ total' = total + n
            /\ UNCHANGED <<tree, phase, walk, names, archive, staged, exited, harm>>

(* The input ends where something is expected.                             *)
EndsEarly == Walking /\ input = <<>> /\ Len(buf) < Need /\ pc # "trailing" /\ Refuse

Ready(at) == Walking /\ pc = at /\ Len(buf) >= Need
Taken(n) == buf' = SubSeq(buf, n + 1, Len(buf)) /\ UNCHANGED <<input, total>>
Still == UNCHANGED <<tree, phase, exited, harm>>

(* ValidateEntry: inside the recorded root, a file or a directory, the     *)
(* root itself a directory, nothing a restore left behind.                 *)
ValidateEntry(name, type) ==
    /\ name # <<"snapshot">> => Len(name) >= 2 /\ name[1] = "snapshot" /\ name[2] = "root"
    /\ Archivable([type |-> type]) /\ "staging" \notin {name[i] : i \in DOMAIN name}
    /\ Len(name) <= 2 => type = "directory"

(* The copy renames an entry of the helper's stream into the snapshot and  *)
(* writes it with records of its own.                                      *)
Mapped(name) == <<"snapshot", "root">> \o Tail(name)
Long(name) == \E e \in {tree[i] : i \in DOMAIN tree} : e.long /\ Mapped(e.name) = name
CopyEntry(name, h) ==
    LET mapped == [name |-> Mapped(name), type |-> h.type, size |-> h.size, long |-> Long(Mapped(name))]
    IN  /\ archive' = archive \o EncodeHeader(mapped, TRUE) /\ UNCHANGED staged

(* The restore sends an entry's name and size to the extracting helper.    *)
StageEntry(name, h) ==
    /\ staged' = IF Len(name) > 2 THEN Append(staged, [name |-> name, type |-> h.type, data |-> <<>>]) ELSE staged
    /\ UNCHANGED archive

(* A local header is spent by the entry that follows it.                   *)
MutantKept == local
Spent == NoPath

(* A name is seen once; Validate, which reads the archive in the same way  *)
(* before a restore begins, checks it too.                                 *)
Duplicate(name) == name \in names

Visit(h) ==
    LET name == IF local # NoPath THEN local ELSE h.name
    IN  IF \/ Duplicate(name)
           \/ ~ValidateEntry(IF phase = "copy" THEN Mapped(name) ELSE name, h.type)
           \/ phase = "copy" /\ name[1] # "root"
        THEN Refuse
        ELSE /\ names' = names \cup {name} /\ local' = Spent /\ header' = [type |-> h.type, name |-> name, size |-> h.size]
             /\ left' = h.size /\ pc' = IF h.size > 0 THEN "body" ELSE "head"
             /\ IF phase = "copy" THEN CopyEntry(name, h) ELSE StageEntry(name, h)
             /\ Taken(2) /\ Still

DecodeHeader(block) == block[1].k = "head" /\ block[2] = Rest

(* Walk: the next block is the first of the end, a PAX header or an entry. *)
NextHeader ==
    /\ Ready("head")
    /\ LET h == buf[1]
       IN  IF h = Zero /\ buf[2] = Zero
           THEN pc' = "second" /\ Taken(2) /\ Still /\ UNCHANGED <<local, header, left, names, archive, staged>>
           ELSE IF ~DecodeHeader(buf) THEN Refuse
           ELSE IF h.type = "pax"
           THEN IF local # NoPath THEN Refuse
                ELSE pc' = "pax" /\ Taken(2) /\ Still /\ UNCHANGED <<local, header, left, names, archive, staged>>
           ELSE Visit(h)

Records(block) == block[1].k = "pax" /\ block[2] = Zero
ParsePAX ==
    /\ Ready("pax")
    /\ IF ~Records(buf) THEN Refuse
       ELSE pc' = "head" /\ local' = buf[1].path /\ Taken(2) /\ Still /\ UNCHANGED <<header, left, names, archive, staged>>

(* The body goes where the entry went.                                     *)
ReadBody ==
    /\ Ready("body")
    /\ archive' = IF phase = "copy" THEN Append(archive, buf[1]) \o (IF left = 1 THEN Padding(header.size) ELSE <<>>) ELSE archive
    /\ staged' = IF phase = "stage" THEN [staged EXCEPT ![Len(staged)].data = Append(@, buf[1])] ELSE staged
    /\ left' = left - 1
    /\ pc' = IF left > 1 THEN "body" ELSE IF Padding(header.size) # <<>> THEN "pad" ELSE "head"
    /\ Taken(1) /\ Still /\ UNCHANGED <<local, header, names>>

ReadPadding ==
    /\ Ready("pad")
    /\ IF buf[1] # Zero THEN Refuse
       ELSE pc' = "head" /\ Taken(1) /\ Still /\ UNCHANGED <<local, header, left, names, archive, staged>>

Second ==
    /\ Ready("second")
    /\ IF local # NoPath \/ buf[1] # Zero \/ buf[2] # Zero THEN Refuse
       ELSE pc' = "trailing" /\ left' = 0 /\ Taken(2) /\ Still /\ UNCHANGED <<local, header, names, archive, staged>>

(* What follows the end is zero, in whole blocks.                          *)
Trailing ==
    /\ Ready("trailing")
    /\ IF buf[1] # Zero THEN Refuse
       ELSE left' = left + 1 /\ Taken(1) /\ Still /\ UNCHANGED <<pc, local, header, names, archive, staged>>

Ended == Walking /\ pc = "trailing" /\ input = <<>> /\ buf = <<>>

(* The copy is kept when the helper ended well and the root was there.     *)
Published ==
    /\ Ended /\ phase = "copy"
    /\ IF left % 2 # 0 \/ ~exited \/ <<"root">> \notin names \/ Len(archive \o End) > MaxBytes THEN Refuse
       ELSE /\ phase' = "saved" /\ archive' = archive \o End
            /\ UNCHANGED <<tree, input, buf, total, walk, names, staged, exited, harm>>

(* A restore reads the archive, whole or as the disk now returns it.       *)
BeginStage(units) ==
    /\ phase = "saved" /\ phase' = "stage" /\ input' = units
    /\ harm' = IF units = archive THEN harm ELSE "damaged"
    /\ pc' = "head" /\ local' = NoPath /\ header' = NoHeader /\ left' = 0 /\ total' = 0 /\ names' = {}
    /\ UNCHANGED <<tree, buf, archive, staged, exited>>

Damaged == {SubSeq(archive, 1, n) : n \in 0..Len(archive) - 1} \cup {[archive EXCEPT ![i] = Zero] : i \in DOMAIN archive}

(* Only an archive with its checksum is taken.                             *)
Restored ==
    /\ Ended /\ phase = "stage"
    /\ IF left % 2 # 0 \/ harm = "damaged" THEN Refuse
       ELSE phase' = "restored" /\ UNCHANGED <<tree, input, buf, total, walk, names, archive, staged, exited, harm>>

(* The helper's stream is lost, or a file shrinks while it is read: fewer  *)
(* units come, and the exit code may or may not say so.                    *)
Cut(n) ==
    /\ phase = "copy" /\ harm = "none" /\ n < Len(input) /\ total = 0
    /\ input' = SubSeq(input, 1, n) /\ harm' = "cut" /\ exited' \in {exited, FALSE}
    /\ UNCHANGED <<tree, phase, buf, total, walk, names, archive, staged>>

Next ==
    \/ \E n \in Chunks : Read(n)
    \/ EndsEarly \/ NextHeader \/ ParsePAX \/ ReadBody \/ ReadPadding \/ Second \/ Trailing \/ Published \/ Restored
    \/ \E units \in {archive} \cup Damaged : BeginStage(units)
    \/ \E n \in 0..Len(input) : Cut(n)

Spec == Init /\ [][Next]_vars

-----------------------------------------------------------------------------
Sound ==
    /\ tree[1].type = "directory"
    /\ \A i \in DOMAIN tree : Archivable(tree[i]) /\ "staging" \notin {tree[i].name[j] : j \in DOMAIN tree[i].name}
Wanted == [i \in 1..Len(tree) - 1 |-> [name |-> Mapped(tree[i + 1].name), type |-> tree[i + 1].type, data |-> Data(tree[i + 1])]]

(* A restore stages exactly what the root held when it was archived: every *)
(* entry under its own name, long or not, with its own bytes, however the  *)
(* streams are cut into chunks; a stream that ended early is never         *)
(* published, a damaged archive never staged to its end, and nothing else  *)
(* is refused (tarstream.Walk, EncodeHeader; backups.Extract).             *)
RestoredIsSaved ==
    /\ TypeOK
    /\ phase = "restored" => staged = Wanted
    /\ phase \in {"saved", "stage", "restored"} => Sound /\ harm # "cut"
    /\ phase = "refused" => harm # "none" \/ ~Sound \/ Len(archive \o End) > MaxBytes
=============================================================================
