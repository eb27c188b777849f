--------------------------- MODULE AtomicRestore ----------------------------
(***************************************************************************)
(* What a restore promises, whatever its journal, its helper and its       *)
(* recoveries do meanwhile: the data of all roots is replaced in one step  *)
(* or kept as it was, and the server is started at most once, on the data  *)
(* as it then is, which is final.                                          *)
(***************************************************************************)
CONSTANTS Root, Original, Backup  \* what a root held, and what it is to hold

VARIABLES value,    \* the data of each root
          outcome,  \* "open", "kept" or "replaced"
          served    \* the data the server was started on: at most one element

Init == value = [r \in Root |-> Original] /\ outcome = "open" /\ served = {}

Open == outcome = "open" /\ served = {}

Replace ==
    /\ Open
    /\ value' = [r \in Root |-> Backup] /\ outcome' = "replaced"
    /\ UNCHANGED served

Keep ==
    /\ Open
    /\ outcome' = "kept"
    /\ UNCHANGED <<value, served>>

Start ==
    /\ served = {}
    /\ served' = {value}
    /\ UNCHANGED <<value, outcome>>

Next == Replace \/ Keep \/ Start

Spec == Init /\ [][Next]_<<value, outcome, served>>
=============================================================================
