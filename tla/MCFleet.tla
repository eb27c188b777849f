------------------------------ MODULE MCFleet -------------------------------
(***************************************************************************)
(* Instances of Fleet - two containers of one server, the second of        *)
(* another configuration - and of six parts that keep their state in the   *)
(* first of the variables v1 to v18.  They are independent of each other:  *)
(* every behaviour is one of one part, named by component, and leaves the  *)
(* state of the others as it is.  x1 and x2 stand for the requests and the *)
(* servers that a part does not tell apart.                                *)
(***************************************************************************)
EXTENDS Fleet, Sequences, SequencesExt, TLC

CONSTANTS c1, c2, host, fpA, fpB, x1, x2,
          MaxInAll    \* bound: changes and discoveries of Fleet; rows, times and changes of History

VARIABLES component, v1, v2, v3, v4, v5, v6, v7, v8, v9, v10, v11, v12, v13, v14, v15, v16,
          v17, v18

MCIdentOf == [c \in Cont |-> host]
MCFpOf == [c \in Cont |-> IF c = c2 THEN fpB ELSE fpA]

Given == INSTANCE ReplacementCases

RootPaths == {<<"a">>, <<"b">>, <<"a", "a">>, <<"a", "b">>, <<"a", "a", "a">>}

\* What the root of an archive may hold.
Root == [name |-> <<"root">>, type |-> "directory", size |-> 0, long |-> FALSE]
File(n, s, l) == [name |-> <<"root", n>>, type |-> "file", size |-> s, long |-> l]
Folder(n, l) == [Root EXCEPT !.name = <<"root", n>>, !.long = l]
SmallTrees ==
    {<<Root>>, <<[Root EXCEPT !.type = "file", !.size = 1]>>,
     <<Root, [File("a", 0, FALSE) EXCEPT !.type = "symlink"]>>,
     <<Root, File("staging", 1, FALSE)>>}
    \cup {<<Root, File("a", s, l), File("b", 3 - s, ~l)>> : s \in 0..2, l \in BOOLEAN}
    \cup {<<Root, Folder("a", l), File("b", 1, FALSE), File("c", 2, FALSE)>> : l \in BOOLEAN}

\* Output as bytes: 97 and 98 are letters, 195 and 169 one character.
Frame(on, text) == [on |-> on, text |-> text]
Short == {<<97>>, <<97, 98>>, <<98, 97>>, <<98>>}
SmallSources ==
    {[raw |-> TRUE, frames |-> <<Frame("stdout", t)>>] :
        t \in (SeqOf({97, 98}, 4) \ {<<>>}) \cup {<<1, 97, 98>>}}
    \cup {[raw |-> FALSE, frames |-> <<Frame("stdout", s), Frame(o, t), Frame("stdout", <<97>>)>>] :
            s \in Short, t \in Short, o \in {"stdout", "stderr"}}
    \cup {[raw |-> FALSE, frames |-> <<Frame("stderr", <<97, 195>>), Frame("stdout", <<98>>),
                                     Frame("stderr", <<169, 98>>)>>]}
SmallSecrets ==
    {<< <<97, 98>> >>, << <<97, 98, 97>>, <<98, 97, 98>> >>, << <<97, 98>>, <<97>> >>,
     << <<97, 195, 169>> >>, << <<98, 97>>, <<97, 98>>, <<98>> >>}

-----------------------------------------------------------------------------
\* Mounts up to three levels deep.
Roo == INSTANCE FileRoots WITH
    mounts <- v1, label <- v2,
    Path <- RootPaths, Protected <- {<<"a", "b", "c">>}, MaxRoots <- 2

\* Reads that end inside a header and across two.
Arc == INSTANCE Archive WITH
    tree <- v1, phase <- v2, input <- v3, buf <- v4, total <- v5, pc <- v6, local <- v7,
    header <- v8, left <- v9, names <- v10, archive <- v11, staged <- v12, exited <- v13,
    harm <- v14,
    Trees <- SmallTrees, Chunks <- {1, 3}, MaxBytes <- 33

\* Every setting varied for itself.
Rep == INSTANCE Replacement WITH
    own <- v1, old <- v2, new <- v3, running <- v4, mac <- v5, unnamed <- v6, listed <- v7,
    kept <- v8, tag <- v9, joined <- v10, plan <- v11, stage <- v12, body <- v13,
    Requests <- Given!SmallRequests, Images <- Given!SmallImages, Cases <- Given!AllCases

\* Packets and control sequences cut by a read at every place.
Net == INSTANCE NetConsole WITH
    kind <- v1, allowed <- v2, pipe <- v3, closed <- v4, buf <- v5, chunk <- v6,
    state <- v7, raw <- v8, authenticated <- v9, sent <- v10, reply <- v11, timer <- v12,
    pc <- v13, result <- v14, heard <- v15, meant <- v16, items <- v17, trusted <- v18,
    Chunks <- {1, 3}, MaxItems <- 4, MaxUnits <- 8

\* Three rows in one millisecond or two.
His == INSTANCE History WITH
    rows <- v1, time <- v2, access <- v3, page <- v4, list <- v5, changes <- v6,
    Server <- {x1, x2}, Limit <- 1, Recent <- 1,
    MaxRows <- 3, MaxTime <- 1, MaxChanges <- 1, MaxPages <- 3

\* Credentials that overlap, repeat and are cut by frames and characters.
Str == INSTANCE Streams WITH
    source <- v1, secrets <- v2, fed <- v3, dec <- v4, carry <- v5, pending <- v6,
    shown <- v7, over <- v8,
    Sources <- SmallSources, SecretLists <- SmallSecrets

-----------------------------------------------------------------------------
(* The variables a part does not use.                                      *)
Unused15 == v15 = 0 /\ v16 = 0 /\ v17 = 0 /\ v18 = 0
Unused14 == v14 = 0 /\ Unused15
Unused13 == v13 = 0 /\ Unused14
Unused9 == v9 = 0 /\ v10 = 0 /\ v11 = 0 /\ v12 = 0 /\ Unused13
Unused7 == v7 = 0 /\ v8 = 0 /\ Unused9
Unused3 == v3 = 0 /\ v4 = 0 /\ v5 = 0 /\ v6 = 0 /\ Unused7
Unused == v1 = 0 /\ v2 = 0 /\ Unused3
rest15 == <<v15, v16, v17, v18>>
rest14 == <<v14, rest15>>
rest13 == <<v13, rest14>>
rest9 == <<v9, v10, v11, v12, rest13>>
rest7 == <<v7, v8, rest9>>
rest3 == <<v3, v4, v5, v6, rest7>>
rest == <<v1, v2, rest3>>

(* Fleet while another part runs.                                          *)
NoFleet == Init /\ bindings = {} /\ docker[c1] = "live"

OtherInit ==
    \/ component = "roots" /\ Roo!Init /\ Unused3
    \/ component = "archive" /\ Arc!Init /\ Unused15
    \/ component = "replacement" /\ Rep!Init /\ Unused14
    \/ component = "netconsole" /\ Net!Init
    \/ component = "history" /\ His!Init /\ Unused7
    \/ component = "streams" /\ Str!Init /\ Unused9

\* FileRoots has no steps: its operators are checked over its initial states.
OtherNext ==
    \/ component = "archive" /\ Arc!Next /\ UNCHANGED rest15
    \/ component = "replacement" /\ Rep!Next /\ UNCHANGED rest14
    \/ component = "netconsole" /\ Net!Next
    \/ component = "history" /\ His!Next /\ UNCHANGED rest7 /\ Cardinality(v1') + v2' + v6' <= MaxInAll
    \/ component = "streams" /\ Str!Next /\ UNCHANGED rest9

FleetInit ==
    \/ component = "fleet" /\ Init /\ Unused
    \/ NoFleet /\ OtherInit

FleetNext ==
    /\ UNCHANGED component
    /\ \/ component = "fleet" /\ Next /\ UNCHANGED rest /\ changes' + discoveries' <= MaxInAll
       \/ OtherNext /\ UNCHANGED vars

FleetSpec == FleetInit /\ [][FleetNext]_<<component, vars, rest>>

Alike == Permutations({x1, x2})

-----------------------------------------------------------------------------
(* Properties: each is stated, with what it takes, in its part's module;   *)
(* RequestsAreSound and AcceptedOnlyByReview are those of Fleet.           *)

(* What a root gives access to is served from the mount the game sees      *)
(* there, and that mount is safe.                                          *)
OnlySafeMountsReached == component = "roots" => Roo!OnlySafeMountsReached

(* A restore stages exactly what was archived, however the streams are     *)
(* cut, and nothing cut short or damaged.                                  *)
RestoredIsSaved == component = "archive" => Arc!RestoredIsSaved

(* A replacement container has what its owner set and, for the rest, what  *)
(* the new image gives.                                                    *)
OwnersChoicesStay == component = "replacement" => Rep!OwnersChoicesStay

(* A command is sent once, for a user who may, and its answer is what the  *)
(* server said.                                                            *)
ConsoleAnswers == component = "netconsole" => Net!ConsoleAnswers

(* A listing read page by page misses nothing and repeats nothing, though  *)
(* rows are written meanwhile.                                             *)
ListingsAreWhole == component = "history" => His!ListingsAreWhole

(* No piece of a credential is shown, however the output is cut into       *)
(* chunks, frames and channels.                                            *)
OutputIsRedacted == component = "streams" => Str!OutputIsRedacted
=============================================================================
