-------------------------- MODULE ReplacementCases --------------------------
(* The requests, images and situations that the instances of Replacement   *)
(* begin from: each group of settings is varied for itself.                *)
EXTENDS Naturals, Sequences

Vars == {<<k, v>> : k \in {"a", "b"}, v \in 1..2}
Lists == {<<>>} \cup {<<x>> : x \in Vars} \cup {<<x, y>> : x \in Vars, y \in Vars}

-----------------------------------------------------------------------------
(* What owners ask for.                                                    *)
Blank ==
    [user |-> 0, entry |-> "e1", cmd |-> 0, env |-> <<>>, ports |-> {}, bindings |-> {},
     hostname |-> "none", mode |-> "bridge", aliases |-> {}, how |-> "none",
     volume |-> "none", from |-> FALSE, mac |-> "none", kind |-> "plain"]

Users == {[Blank EXCEPT !.user = u, !.kind = k] : u \in 0..2, k \in {"plain", "unsupported"}}
Commands == {[Blank EXCEPT !.entry = e, !.cmd = c] : e \in {"none", "reset", "e1", "e2"}, c \in 0..2}
Environments == {[Blank EXCEPT !.env = l] : l \in Lists}
Ports == {[Blank EXCEPT !.ports = p, !.bindings = b] : p \in SUBSET {1, 2}, b \in SUBSET {1}}
Volumes ==
    {[Blank EXCEPT !.how = h, !.from = f,
                   !.volume = IF h \in {"bind", "mount"} THEN "game" ELSE "none"] :
        h \in {"none", "bind", "bindAnon", "mount", "mountAnon", "volume"}, f \in BOOLEAN}
Networks ==
    {[Blank EXCEPT !.hostname = h, !.mode = m, !.mac = a, !.aliases = l] :
        h \in {"none", "h1"}, m \in {"bridge", "host"}, a \in {"none", "static"},
        l \in {{}, {"game"}}}

SmallRequests == Users \cup Commands \cup Environments \cup Ports \cup Volumes \cup Networks

-----------------------------------------------------------------------------
(* What images give by default.                                            *)
Plain == [user |-> 0, entry |-> "e1", cmd |-> 0, env |-> <<>>, ports |-> {}, volume |-> FALSE]

UserImages == {[Plain EXCEPT !.user = u] : u \in 0..2}
CommandImages == {[Plain EXCEPT !.entry = e, !.cmd = c] : e \in {"none", "e1", "e2"}, c \in 0..2}
EnvImages == {[Plain EXCEPT !.env = l] : l \in {x \in Lists : Len(x) = 2 => x[1][1] # x[2][1]}}
PortImages == {[Plain EXCEPT !.ports = p] : p \in SUBSET {1, 2}}
VolumeImages == {[Plain EXCEPT !.volume = v] : v \in BOOLEAN}

SmallImages == UserImages \cup CommandImages \cup EnvImages \cup PortImages \cup VolumeImages

-----------------------------------------------------------------------------
Case(own, old, new) ==
    [own |-> own, old |-> old, new |-> new, mac |-> "random", unnamed |-> FALSE,
     listed |-> TRUE, running |-> TRUE, kept |-> TRUE]
Of(requests, images) == {Case(o, i, n) : o \in requests, i \in images, n \in images}

AllCases ==
    {[c EXCEPT !.kept = k] : c \in Of(Users, UserImages), k \in BOOLEAN}
    \cup Of(Commands, CommandImages)
    \cup Of(Environments, EnvImages)
    \cup Of(Ports, PortImages)
    \cup {[c EXCEPT !.unnamed = u, !.listed = l] :
            c \in Of(Volumes, VolumeImages), u \in BOOLEAN, l \in BOOLEAN}
    \cup {[c EXCEPT !.mac = a, !.running = r] :
            c \in Of(Networks, {Plain}), a \in {"derived", "random"}, r \in BOOLEAN}
=============================================================================
