------------------------------- MODULE Locks -------------------------------
(***************************************************************************)
(* The in-memory lock table of internal/locks/locks.go (type Table).       *)
(*                                                                         *)
(* A key names a server, a Compose project, a volume or a host path.  Here *)
(* it is the non-empty sequence of its parts: <<"server", s>>, or          *)
(* <<"path", "srv", "a">> for path:/srv/a.  `normalize' has already been   *)
(* applied: the parts of a path are the components path.Clean leaves.      *)
(*                                                                         *)
(* A holder is one caller of Acquire; it holds at most one set of keys at  *)
(* a time.  The channel that NextRelease returns is modelled from the side *)
(* of the caller that keeps it: signalled[h] says whether the channel h    *)
(* took last has been closed since.                                        *)
(*                                                                         *)
(* This module has the table and its operations only.  LockClients runs    *)
(* callers of AcquirePreempting against it, Runner the operation queue.    *)
(***************************************************************************)
EXTENDS Naturals, Sequences

CONSTANTS Keys,     \* the keys callers ask for
          Holders,  \* the callers
          NoHolder  \* marks a key nobody holds

ASSUME KeysAssumption == \A k \in Keys : k \in Seq(STRING) /\ Len(k) > 0

ASSUME HoldersAssumption == NoHolder \notin Holders

VARIABLES active,      \* Table.active: the holder of each key
          background,  \* the holders that passed a cancel function
          cancelled,   \* the background holders that were asked to stop
          signalled,   \* whether the channel a caller took was closed
          fences       \* Table.fences

tableVars == <<active, background, cancelled, signalled, fences>>

TableTypeOK ==
    /\ active \in [Keys -> Holders \cup {NoHolder}]
    /\ background \in SUBSET Holders
    /\ cancelled \in SUBSET Holders
    /\ signalled \in [Holders -> BOOLEAN]
    /\ fences \in Nat

TableInit ==
    /\ active = [k \in Keys |-> NoHolder]
    /\ background = {}
    /\ cancelled = {}
    /\ signalled = [h \in Holders |-> FALSE]
    /\ fences = 0

----------------------------------------------------------------------------
(* Keys *)

IsPrefixOf(left, right) ==
    /\ Len(left) <= Len(right)
    /\ \A i \in 1..Len(left) : left[i] = right[i]

IsPath(key) == key[1] = "path"

\* A path conflicts with its parents and children, any other key with itself.
Overlaps(left, right) ==
    \/ left = right
    \/ /\ IsPath(left) /\ IsPath(right)
       /\ IsPrefixOf(left, right) \/ IsPrefixOf(right, left)

----------------------------------------------------------------------------
(* Operations.  Each is one critical section of Table.mu. *)

Held(h) == {k \in Keys : active[k] = h}

\* Mutant: a held key must overlap every wanted key.
ConflictingAll(want) ==
    {active[k] : k \in {k \in Keys : /\ active[k] # NoHolder
                                     /\ \A w \in want : Overlaps(w, k)}}

\* The holders whose keys overlap the wanted ones.
Conflicting(want) ==
    {active[k] : k \in {k \in Keys : /\ active[k] # NoHolder
                                     /\ \E w \in want : Overlaps(w, k)}}

\* Mutant: background work is overridden instead of waited for.
AnswerOverBackground(want, recovering) ==
    IF fences > 0 /\ ~recovering THEN "recovering"
    ELSE IF Conflicting(want) \subseteq background THEN "ok" ELSE "conflict"

\* What Acquire answers: "recovering", "conflict" and "background" are
\* ErrRecovering, ErrConflict and BackgroundConflict.
Answer(want, recovering) ==
    IF fences > 0 /\ ~recovering THEN "recovering"
    ELSE IF Conflicting(want) = {} THEN "ok"
    ELSE IF Conflicting(want) \subseteq background THEN "background"
    ELSE "conflict"

\* A successful acquire: every key or none.
Take(h, want, isBackground) ==
    /\ active' = [k \in Keys |-> IF k \in want THEN h ELSE active[k]]
    /\ background' = IF isBackground THEN background \cup {h} ELSE background \ {h}
    /\ cancelled' = cancelled \ {h}

\* The function acquire returns: it frees the keys and closes the channel of
\* everyone who asked for the next release.
Release(h) ==
    /\ active' = [k \in Keys |-> IF active[k] = h THEN NoHolder ELSE active[k]]
    /\ background' = background \ {h}
    /\ cancelled' = cancelled \ {h}
    /\ signalled' = [c \in Holders |-> TRUE]

NextRelease(h) == signalled' = [signalled EXCEPT ![h] = FALSE]

----------------------------------------------------------------------------
(* Properties of the table *)

\* Overlapping keys never have two holders: Acquire looks at every held key,
\* and parents and children of a path count as the same resource.
Exclusion ==
    \A k, l \in Keys :
        active[k] # NoHolder /\ active[l] # NoHolder /\ Overlaps(k, l)
            => active[k] = active[l]
============================================================================
