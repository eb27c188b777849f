----------------------------- MODULE Exclusive ------------------------------
(***************************************************************************)
(* What the lock table promises the rest of Ludock, whatever its keys,     *)
(* fences, cancelled work and wakeups: a caller is given all it asked for  *)
(* in one step, only while nobody else has anything that clashes with it,  *)
(* and keeps it until it gives all of it back.                             *)
(***************************************************************************)
CONSTANTS Resource, Holder,
          Clash(_, _)    \* whether two resources may not be used by two holders

VARIABLE uses            \* what each holder has been given

TypeOK == uses \in [Holder -> SUBSET Resource]

Init == uses = [h \in Holder |-> {}]

Free(h, keys) == \A o \in Holder \ {h} : \A k \in keys, l \in uses[o] : ~Clash(k, l)

Grant(h, keys) ==
    /\ uses[h] = {} /\ Free(h, keys)
    /\ uses' = [uses EXCEPT ![h] = keys]

Return(h) == uses' = [uses EXCEPT ![h] = {}]

Next == \E h \in Holder : Return(h) \/ \E keys \in SUBSET Resource : Grant(h, keys)

Spec == Init /\ [][Next]_uses
=============================================================================
