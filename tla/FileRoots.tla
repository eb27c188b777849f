----------------------------- MODULE FileRoots -------------------------------
(***************************************************************************)
(* Which paths of a game container can be browsed                          *)
(* (internal/files/roots.go, the selection of mounts in                    *)
(* internal/files/storage.go and the path checks of                        *)
(* internal/helper/file.go), as operators on paths.                        *)
(*                                                                         *)
(* A path is the sequence of its components.  A mount is safe when it is   *)
(* a writable bind or volume and neither its destination nor its source is *)
(* a system path or a socket.                                              *)
(***************************************************************************)
EXTENDS Naturals, Sequences, SequencesExt, FiniteSets

CONSTANTS Path,        \* the paths considered
          Protected,   \* protectedPaths and the configured ones
          MaxRoots,    \* eight in the code
          None

VARIABLES mounts,      \* path -> "none", "safe" or "unsafe", what is mounted there
          label        \* the paths ludock.files names, or None

vars == <<mounts, label>>

Within(p, root) == IsPrefix(root, p)

SensitiveSystemPath(p) == p \in {<<>>} \/ \E r \in Protected : Within(p, r) \/ Within(r, p)

Mounted == {p \in Path : mounts[p] # "none"}
Safe(m) == mounts[m] = "safe" /\ ~SensitiveSystemPath(m)

(* The deepest mount that contains a path, None when there is none.        *)
Owners(p, among) == {m \in among : Within(p, m)}
OwnerMount(p, among) ==
    IF Owners(p, among) = {} THEN None
    ELSE CHOOSE m \in Owners(p, among) : \A n \in Owners(p, among) : Len(n) <= Len(m)

-----------------------------------------------------------------------------
(* Roots.                                                                  *)

Candidates == IF label # None THEN label ELSE SetToSeq({m \in Mounted : Safe(m)})

MutantOwnedByAny(p) == ~SensitiveSystemPath(p) /\ \E m \in Owners(p, Mounted) : Safe(m)
Eligible(p) ==
    /\ ~SensitiveSystemPath(p)
    /\ OwnerMount(p, Mounted) # None /\ Safe(OwnerMount(p, Mounted))

Roots ==
    LET paths == SelectSeq(Candidates, Eligible)
        nested(p) == \E i \in DOMAIN paths : paths[i] # p /\ Within(p, paths[i])
        first(i) == \A j \in 1..(i - 1) : paths[j] # paths[i]
        kept == {i \in DOMAIN paths : first(i) /\ ~nested(paths[i])}
    IN  {paths[i] : i \in {j \in kept : Cardinality({k \in kept : k < j}) < MaxRoots}}

-----------------------------------------------------------------------------
(* Acquire: the helper gets the root's own mount and the safe mounts below *)
(* it; what lies under an unsafe one is blocked.                           *)

Children(root) == {m \in Mounted : m # OwnerMount(root, Mounted) /\ Within(m, root)}
Blocked(root) == {m \in Children(root) : ~Safe(m)}
Selected(root) ==
    {OwnerMount(root, Mounted)}
      \cup {m \in Children(root) : Safe(m) /\ ~\E b \in Blocked(root) : Within(m, b)}

(* The helper refuses a blocked path, and for a download, a deletion and a *)
(* rename also one that contains a blocked path.                           *)
Allows(root, p, recursive) ==
    \A b \in Blocked(root) : ~Within(p, b) /\ (recursive => ~Within(b, p))

-----------------------------------------------------------------------------
(* Relative paths: NormalizeRelativePath in the panel, components in the   *)
(* helper.  Absolute paths and ".." are refused; "." and empty components  *)
(* disappear.                                                              *)

NormalizeRelativePath(s) ==
    IF ".." \in Range(s) \/ (Len(s) > 1 /\ s[1] = "") THEN None
    ELSE SelectSeq(s, LAMBDA c : c \notin {"", "."})

Components(s) == IF ".." \in Range(s) THEN None ELSE SelectSeq(s, LAMBDA c : c \notin {"", "."})

Sent == SeqOf({"x", "y", ".", "..", ""}, 3)

Init ==
    /\ mounts \in [Path -> {"none", "safe", "unsafe"}]
    /\ label \in {None} \cup SeqOf(Path, 2)

-----------------------------------------------------------------------------
(* For every set of mounts and every label: a path that can be reached     *)
(* through a root is served from the very mount the game sees there, and   *)
(* that mount is safe; a recursive operation never reaches an excluded     *)
(* mount; no root lies inside another; a label that names a parent does    *)
(* not open a read-only or sensitive mount below it (Roots, Acquire,       *)
(* fileHelper.check); and a relative path that the panel accepts is the    *)
(* same path below the root to the helper.                                 *)
PathsAgree ==
    \A s \in Sent : LET p == NormalizeRelativePath(s) IN
        p # None => Components(p) = p /\ Range(p) \subseteq {"x", "y"}

OnlySafeMountsReached ==
    /\ PathsAgree
    /\ Cardinality(Roots) <= MaxRoots
    /\ \A root \in Roots : \A p \in {q \in Path : Within(q, root)} :
          /\ Allows(root, p, FALSE) =>
                /\ OwnerMount(p, Selected(root)) = OwnerMount(p, Mounted)
                /\ Safe(OwnerMount(p, Mounted))
          /\ Allows(root, p, TRUE) => \A m \in Mounted : Within(m, p) => Safe(m)
          /\ p \in Roots => p = root

=============================================================================
