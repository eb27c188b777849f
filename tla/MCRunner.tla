------------------------------ MODULE MCRunner ------------------------------
(* Instances of Runner. The servers a, b and c share a Compose project.    *)
EXTENDS Runner

CONSTANTS upload, warning

a == <<"server", "a">>
b == <<"server", "b">>
c == <<"server", "c">>
project == <<"project", "p">>

MCKeys == {a, b, project}
MCThreeKeys == {a, b, c, project}
MCKeysOf == [s \in {"a", "b", "c"} |-> {<<"server", s>>, project}]
MCCapacity == [lane \in {"lifecycle", "data"} |-> IF lane = "data" THEN 1 ELSE 2]
MCOutside == {upload}
MCWarnings == {warning}
MCHolders == Jobs \cup Outside \cup Warnings
\* A repeatable request, and one for each server in the lane of one job.
MCRequests == {[server |-> "a", lane |-> "lifecycle", key |-> "k"],
               [server |-> "a", lane |-> "data", key |-> NoKey],
               [server |-> "b", lane |-> "data", key |-> NoKey]}

\* Enough for two jobs that share a resource, and a lane perhaps.
MCTwoRequests == {[server |-> "a", lane |-> "data", key |-> "k"],
                  [server |-> "b", lane |-> "data", key |-> "l"],
                  [server |-> "c", lane |-> "lifecycle", key |-> "m"]}
============================================================================
