----------------------------- MODULE Replacement -----------------------------
(***************************************************************************)
(* The update plan (internal/update): from what Docker reports about a     *)
(* container, which mixes what its owner asked for with the defaults of    *)
(* its image, the request for a copy that runs a newer image.  The plan is *)
(* made while the server may run, and again once it is stopped; a pull has *)
(* moved the tag by then and may have dropped the old image.               *)
(*                                                                         *)
(* One setting of each kind stands for all that are treated alike: User    *)
(* for the other defaulted fields, labels and healthcheck fields; one      *)
(* mount destination; one network.  Value 0 is an unset one.  What Docker  *)
(* makes of a request is external.                                         *)
(***************************************************************************)
EXTENDS Naturals, Sequences, FiniteSets

CONSTANTS Requests, Images,     \* what owners ask for, and the defaults images give
          Cases                 \* [own, old, new, mac, unnamed, listed, running, kept] to begin from

VARIABLES
    own, old, new,      \* the owner's request, the image it was created from, the one the tag moves to
    running, mac,       \* the container: does it run, the address Docker gave it when none was asked for
    unnamed, listed,    \* Docker leaves out the volume's name; its list of volumes has it
    kept,               \* the old image is still there
    tag,                \* the image the reference names: "old", "new", "newer"
    joined,             \* another container shares this one's namespaces
    plan, stage, body   \* Plan; how far the update is; the request it makes

world == <<own, old, new, mac, unnamed, listed>>
vars == <<world, running, kept, tag, joined, plan, stage, body>>

NoPlan == [spec |-> "none", mac |-> "none", previous |-> "none", running |-> FALSE]

TypeOK ==
    /\ own \in Requests /\ old \in Images /\ new \in Images
    /\ running \in BOOLEAN /\ kept \in BOOLEAN /\ tag \in {"old", "new", "newer"}
    /\ stage \in {"idle", "planned", "pulled", "stopped", "checked", "created", "refused"}

-----------------------------------------------------------------------------
(* Docker (external): how a request and an image become a container.       *)

Key(entry) == entry[1]

(* mergeEnv: an empty request takes the image's variables as they are.     *)
MergeEnv(mine, image) ==
    LET Listed(list, e) == \E i \in DOMAIN list : Key(list[i]) = Key(e)
        Add[n \in 0..Len(image)] ==
            IF n = 0 THEN mine ELSE IF Listed(Add[n - 1], image[n]) THEN Add[n - 1] ELSE Append(Add[n - 1], image[n])
    IN  IF mine = <<>> THEN image ELSE Add[Len(image)]

(* An entrypoint that is given clears the image's command; "reset" clears  *)
(* the image's entrypoint.                                                 *)
Merge(r, image) ==
    [user |-> IF r.user = 0 THEN image.user ELSE r.user,
     cmd |-> IF r.entry = "none" /\ r.cmd = 0 THEN image.cmd ELSE r.cmd,
     entry |-> IF r.entry = "none" THEN image.entry ELSE IF r.entry = "reset" THEN "none" ELSE r.entry,
     env |-> MergeEnv(r.env, image.env),
     ports |-> r.ports \cup r.bindings \cup image.ports,
     hostname |-> IF r.mode = "host" THEN "host" ELSE IF r.hostname = "none" THEN "id" ELSE r.hostname,
     aliases |-> r.aliases]
Creatable(r, image) == LET c == Merge(r, image) IN c.entry # "none" \/ c.cmd # 0

(* The volume at the destination: a bind or mount before what VolumesFrom  *)
(* brings, and that before what the request or the image declares.         *)
Volume(r, image, fresh) ==
    CASE r.how \in {"bind", "mount"} -> r.volume
      [] r.how \in {"bindAnon", "mountAnon"} -> fresh
      [] OTHER -> IF r.from THEN "shared" ELSE IF r.how = "volume" \/ image.volume THEN fresh ELSE "none"

Address == IF own.mac # "none" THEN own.mac ELSE mac

Init ==
    /\ \E c \in Cases :
          /\ Creatable(c.own, c.old)
          /\ own = c.own /\ old = c.old /\ new = c.new /\ mac = c.mac
          /\ unnamed = c.unnamed /\ listed = c.listed /\ running = c.running /\ kept = c.kept
    /\ tag = "old" /\ joined = FALSE
    /\ plan = NoPlan /\ stage = "idle" /\ body = "none"

(* Other managers: a container joins or leaves, the old image goes once    *)
(* the tag has moved, the tag moves again.                                 *)
Others ==
    /\ stage \in {"planned", "pulled", "stopped"}
    /\ \/ joined' = ~joined /\ UNCHANGED <<kept, tag>>
       \/ tag # "old" /\ kept /\ kept' = FALSE /\ UNCHANGED <<joined, tag>>
       \/ tag = "new" /\ tag' = "newer" /\ UNCHANGED <<joined, kept>>
    /\ UNCHANGED <<world, running, plan, stage, body>>

-----------------------------------------------------------------------------
(* check: what cannot be replaced is refused.                              *)
Supported == own.kind = "plain"
Replaceable == Supported /\ ~joined

(* nameVolumes: a volume Docker does not name is looked up by its place.   *)
VolumeNamed == unnamed /\ Volume(own, old, "anon") # "none" => listed

(* A stop clears the addresses; the image's defaults are read once.        *)
Reported == [config |-> Merge(own, old), mac |-> IF running THEN Address ELSE "none", volume |-> Volume(own, old, "anon")]

Check ==
    /\ stage = "idle"
    /\ IF Replaceable /\ VolumeNamed /\ kept
       THEN stage' = "planned" /\ plan' = [spec |-> Reported, mac |-> Reported.mac, previous |-> old, running |-> running]
       ELSE stage' = "refused" /\ UNCHANGED plan
    /\ UNCHANGED <<world, running, kept, tag, joined, body>>

Pull == stage = "planned" /\ stage' = "pulled" /\ tag' = "new" /\ UNCHANGED <<world, running, kept, joined, plan, body>>
Stop == stage = "pulled" /\ stage' = "stopped" /\ running' = FALSE /\ UNCHANGED <<world, kept, tag, joined, plan, body>>

(* Recheck keeps what Docker may have dropped since: the old defaults, and *)
(* the address of a network the stop cleared.                              *)
KeptMAC == IF Reported.mac = "none" THEN plan.mac ELSE Reported.mac
Recheck ==
    /\ stage = "stopped"
    /\ IF Replaceable /\ VolumeNamed /\ tag = "new"
       THEN stage' = "checked" /\ plan' = [plan EXCEPT !.spec = Reported, !.mac = KeptMAC]
       ELSE stage' = "refused" /\ UNCHANGED plan
    /\ UNCHANGED <<world, running, kept, tag, joined, body>>

-----------------------------------------------------------------------------
(* Replacement: values still equal to the old image's defaults are left    *)
(* out, so that the new image supplies its own.                            *)
Defaulted(value, default) == IF value = default THEN 0 ELSE value

(* An entrypoint without a command must stay explicit, or the new image's  *)
(* command would come back; a cleared one needs Docker's reset.            *)
MutantEntrypoint(c, d) ==
    IF c.entry = "none" /\ d.entry # "none" THEN [entry |-> "reset", cmd |-> c.cmd]
    ELSE [entry |-> IF c.entry = d.entry THEN "none" ELSE c.entry, cmd |-> IF c.cmd = d.cmd THEN 0 ELSE c.cmd]
Entrypoint(c, d) ==
    IF c.entry = "none" /\ d.entry # "none" THEN [entry |-> "reset", cmd |-> c.cmd]
    ELSE IF c.entry # d.entry THEN [entry |-> c.entry, cmd |-> c.cmd]
    ELSE IF c.cmd = d.cmd THEN [entry |-> "none", cmd |-> 0]
    ELSE IF c.cmd = 0 THEN [entry |-> c.entry, cmd |-> 0]
    ELSE [entry |-> "none", cmd |-> c.cmd]

(* ownEnv: the shortest prefix that merges into what Docker reports.       *)
OwnEnv(env, image) ==
    LET splits == {n \in 0..Len(env) - 1 : MergeEnv(SubSeq(env, 1, n), image) = env}
        Changed(e) == \E i \in DOMAIN env : Key(env[i]) = Key(e) /\ ~\E j \in DOMAIN image : image[j] = env[i]
    IN  IF splits # {} THEN SubSeq(env, 1, CHOOSE n \in splits : \A s \in splits : n <= s)
        ELSE SelectSeq(env, Changed)

(* mounts: every anonymous volume is mounted by its name, where it was, in *)
(* the list that mentions its destination; an inherited one stays so.      *)
Mounts(volume) ==
    IF volume = "none" \/ own.how \in {"bind", "mount"} THEN [how |-> own.how, volume |-> own.volume]
    ELSE IF own.how = "bindAnon" THEN [how |-> "bind", volume |-> volume]
    ELSE IF own.how = "mountAnon" THEN [how |-> "mount", volume |-> volume]
    ELSE IF own.from THEN [how |-> own.how, volume |-> own.volume]
    ELSE [how |-> "mount", volume |-> volume]

(* endpoints: an address derived from the old one is dropped.              *)
Endpoint(address) == IF address = "derived" THEN "none" ELSE address
Hostname(c) == IF c.hostname = "id" \/ own.mode = "host" THEN "none" ELSE c.hostname
ExposedPorts(c, d) == c.ports \ d.ports

Create ==
    /\ stage = "checked" /\ stage' = "created"
    /\ LET c == plan.spec.config
           d == plan.previous
           command == Entrypoint(c, d)
           m == Mounts(plan.spec.volume)
       IN  body' = [own EXCEPT !.user = Defaulted(c.user, d.user), !.entry = command.entry, !.cmd = command.cmd,
                               !.env = OwnEnv(c.env, d.env), !.ports = ExposedPorts(c, d), !.hostname = Hostname(c),
                               !.how = m.how, !.volume = m.volume, !.mac = Endpoint(plan.mac)]
    /\ UNCHANGED <<world, running, kept, tag, joined, plan>>

Next == Others \/ Check \/ Pull \/ Stop \/ Recheck \/ Create

Spec == Init /\ [][Next]_vars

-----------------------------------------------------------------------------
(* Requests that would have made the container Docker reports.             *)
Explains == {r \in Requests : r.mode = own.mode /\ Creatable(r, old) /\ Merge(r, old) = Merge(own, old)}
Apart(c) == [c EXCEPT !.env = <<>>]

(* Docker uses a variable's last entry.                                    *)
Value(env, key) == LET at == {i \in DOMAIN env : Key(env[i]) = key} IN env[CHOOSE i \in at : \A j \in at : j <= i]
Replaced == Merge(body, new)

(* The image added variables to the owner's, or supplied them all.         *)
ImageAdded == Len(Merge(own, old).env) > Len(own.env)

(* A replacement is what Docker would make of a request that explains the  *)
(* old container: what its owner set stays set, what the old image gave is *)
(* given by the new one, and where the report cannot tell, the result is   *)
(* one of the two; of the variables this holds when the image added some   *)
(* to the owner's, and those the owner changed stay in any case.  It can   *)
(* be created, keeps the volume at every destination that had one and a    *)
(* fixed network address, and is made only of containers that can be       *)
(* replaced (replacement.go, update.go).                                   *)
OwnersChoicesStay ==
    /\ TypeOK
    /\ stage = "created" =>
         /\ \E r \in Explains : Apart(Replaced) = Apart(Merge(r, new)) /\ (ImageAdded => Replaced.env = Merge(r, new).env)
         /\ \A i \in DOMAIN own.env : own.env[i] \notin {old.env[j] : j \in DOMAIN old.env} =>
               LET k == Key(own.env[i]) IN Value(Replaced.env, k) = Value(own.env, k)
         /\ Volume(own, old, "anon") # "none" => Volume(body, new, "fresh") = Volume(own, old, "anon")
         /\ own.mac # "none" /\ plan.running => body.mac = own.mac
         /\ body.mac # "derived" /\ own.kind = "plain"

(* ownEnv's comment: a variable the owner set to the old image's default   *)
(* is kept even if the new image changes the default, whenever the order   *)
(* of what Docker reports gives it away (replacement.go, ownEnv).          *)
DefaultsSetByOwnerStay == stage = "created" => \E r \in Explains : Replaced.env = Merge(r, new).env
=============================================================================
