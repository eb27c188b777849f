--------------------------- MODULE SchedulesProofs ---------------------------
(***************************************************************************)
(* Proofs about the schedules of a server, for any schedules, settings,    *)
(* time zones and bounds.  The inductive invariant IInv says what the list *)
(* a tick read may still be trusted for, what a run that is due has been   *)
(* checked for, how often access changed, and why no warning that went out *)
(* can be claimed again.                                                   *)
(***************************************************************************)
EXTENDS Schedules, WellFoundedInduction, TLAPS

\* A schedule that the tick has yet to look at was saved when it was listed.
\* Its revision tells its settings, and until Announce only the tick itself
\* uses up its slots.
ReadIsOld ==
    tick.at # "idle" => \A id \in tick.todo :
        LET s == tick.saved[id]
            r == rows[id]
        IN  /\ Saved(s) /\ r.state # "unused"
            /\ s.rev <= r.rev
            /\ s.rev = r.rev => s.input = r.input
            /\ tick.at # "announce" => r.last = s.last

\* A run whose owner is looked up is due in the settings that were listed, and
\* its slot is not used up there.
DueIsOpen ==
    /\ tick.at \in {"authority", "commit", "skip"} => tick.todo # {}
    /\ tick.at \in {"authority", "commit"} =>
          /\ Read.input.enabled
          /\ tick.slot = Slot(zone, Read.input, tick.now)
          /\ tick.slot \notin {NoSlot, Read.last}

\* The owner has access after an even number of changes, and did at some time
\* since the tick read it, if the run is to be committed.
AccessIsCounted ==
    /\ access = "granted" <=> changes % 2 = 0
    /\ tick.at \in {"authority", "commit"} =>
          /\ tick.since <= changes
          /\ tick.access = "granted" <=> tick.since % 2 = 0
    /\ tick.at = "commit" => tick.access = "granted" \/ tick.since < changes

\* The revision of an operation tells the settings that queued it.
OpsAreOld ==
    \A o \in ops :
        LET r == rows[o.id]
        IN  /\ r.state # "unused" /\ o.rev <= r.rev
            /\ o.rev = r.rev => o.input = r.input

\* A warning cannot be claimed any more: it is claimed, or its schedule is
\* deleted, or its slot is too long ago for the clock that the tick goes by.
Clock == IF tick.at = "idle" THEN now ELSE tick.now

Gone(w) ==
    \/ w \in announced
    \/ rows[w[1]].state = "deleted"
    \/ w[2][1] < (Clock - 2 * Day) \div Day

OnItsWay == <<warning.id, warning.slot, warning.lead>>

\* So it is with those that went out, each once, and the one on its way is not
\* one of them.
WarningsGone ==
    /\ tick.at # "idle" => tick.now <= now
    /\ \A w \in DOMAIN sent :
          sent[w] = 1 /\ w[2] # NoSlot /\ rows[w[1]].state # "unused" /\ Gone(w)
    /\ warning.at # "none" =>
          /\ warning.id \in Ids /\ warning.slot # NoSlot
          /\ rows[warning.id].state # "unused"
          /\ OnItsWay \notin DOMAIN sent /\ Gone(OnItsWay)

IInv ==
    /\ SchedulesTypeOK /\ ReadIsOld /\ DueIsOpen /\ AccessIsCounted /\ OpsAreOld /\ WarningsGone
    /\ OncePerSlot

----------------------------------------------------------------------------
(* First, and when a schedule runs *)

LEMMA LeastNumber ==
    ASSUME NEW T, T \subseteq Nat, T # {}
    PROVE  \E x \in T : \A y \in T : x <= y
<1> DEFINE R == {p \in Nat \X Nat : p[1] < p[2]}
<1>1. IsWellFoundedOn(R, Nat)
  BY NatLessThanWellFounded DEF OpToRel
<1>2. \A x, y \in Nat : <<y, x>> \in R <=> y < x
  OBVIOUS
<1> HIDE DEF R
<1>3. PICK x \in T : \A y \in T : ~(<<y, x>> \in R)
  BY <1>1, WFMin
<1>4. \A y \in T : x <= y
  <2> TAKE y \in T
  <2>1. x \in Nat /\ y \in Nat /\ ~(y < x)
    BY <1>2, <1>3
  <2> QED BY <2>1
<1> QED BY <1>4

\* A set of integers that has a lower bound has a first.
LEMMA FirstOf ==
    ASSUME NEW S, NEW a \in Int, S \subseteq Int, S # {}, \A s \in S : a <= s
    PROVE  First(S) \in S
<1> DEFINE T == {n \in Nat : a + n \in S}
<1>1. T \subseteq Nat
  OBVIOUS
<1>2. \A s \in S : s - a \in T
  <2> TAKE s \in S
  <2>1. s \in Int /\ s - a \in Nat /\ a + (s - a) = s
    OBVIOUS
  <2> QED BY <2>1
<1>3. T # {}
  BY <1>2
<1>4. PICK x \in T : \A y \in T : x <= y
  BY <1>1, <1>3, LeastNumber
<1>5. x \in Nat /\ a + x \in S
  BY <1>4
<1>6. \A s \in S : a + x <= s
  <2> TAKE s \in S
  <2>1. s \in Int /\ x <= s - a
    BY <1>2, <1>4
  <2> QED BY <1>5, <2>1
<1>7. \E n \in S : \A m \in S : n <= m
  BY <1>5, <1>6
<1> QED BY <1>7 DEF First

LEMMA FirstNumber ==
    ASSUME NEW S, S \subseteq Nat, S # {}
    PROVE  First(S) \in S
<1>1. 0 \in Int /\ S \subseteq Int /\ \A s \in S : 0 <= s
  OBVIOUS
<1> QED BY <1>1, FirstOf, Zenon

LEMMA DivGrows ==
    ASSUME NEW a \in Int, NEW b \in Int, a <= b
    PROVE  a \div Day \in Int /\ a \div Day <= b \div Day
<1>1. Day \in Nat \ {0}
  BY SchedTimeAssumption
<1> DEFINE p == a \div Day
           q == b \div Day
<1>2. /\ p \in Int /\ Day * p <= a /\ a < Day * p + Day
      /\ q \in Int /\ Day * q <= b /\ b < Day * q + Day
  BY <1>1
<1> HIDE DEF p, q
<1>3. ASSUME q < p PROVE FALSE
  <2>1. q + 1 <= p
    BY <1>2, <1>3
  <2>2. Day * (q + 1) <= Day * p
    BY <1>1, <1>2, <2>1
  <2>3. Day * (q + 1) = Day * q + Day
    BY <1>1, <1>2
  <2> QED BY <1>1, <1>2, <2>2, <2>3
<1>4. p <= q
  BY <1>2, <1>3
<1> QED BY <1>2, <1>4 DEF p, q

LEMMA DaysAgoGrows ==
    ASSUME NEW a \in Nat, NEW b \in Nat, a <= b
    PROVE  /\ (a - 2 * Day) \div Day \in Int /\ (b - 2 * Day) \div Day \in Int
           /\ (a - 2 * Day) \div Day <= (b - 2 * Day) \div Day
<1>1. Day \in Nat
  BY SchedTimeAssumption
<1>2. a - 2 * Day \in Int /\ b - 2 * Day \in Int /\ a - 2 * Day <= b - 2 * Day
  BY <1>1
<1>3. b - 2 * Day <= b - 2 * Day
  BY <1>2
<1> QED BY <1>2, <1>3, DivGrows

LEMMA OffsetIs ==
    ASSUME NEW z \in Zones, NEW n
    PROVE  Offset(z, n) \in -Day..Day
BY ZonesAssumption DEF Offset

LEMMA CandidatesAre ==
    ASSUME NEW z \in Zones, NEW d \in Int, NEW t \in Int
    PROVE  /\ candidates(z, d, t) \subseteq Nat
           /\ \A c \in candidates(z, d, t) : LocalDate(z, c) = d
<1>1. \A o \in dayOffsets(z, d) : o \in Int
  BY OffsetIs, SchedTimeAssumption DEF dayOffsets
<1>2. \A o \in dayOffsets(z, d) : d * Day + t - o \in Int
  BY <1>1, SchedTimeAssumption
<1> QED BY <1>2 DEF candidates

\* A run of a one-time schedule is on its date, and that of a recurring one not
\* before the time that it is asked for.
LEMMA NextRunIs ==
    ASSUME NEW z \in Zones, NEW i \in Inputs, NEW n \in Nat, NEW last,
           NextRun(z, i, n, last) # Never
    PROVE  /\ NextRun(z, i, n, last) \in Nat
           /\ IF i.kind = "once" THEN LocalDate(z, NextRun(z, i, n, last)) = i.date
              ELSE n <= NextRun(z, i, n, last)
<1>1. i.date \in Int /\ i.time \in Int /\ Day \in Nat \ {0} /\ Week \in Nat
  BY InputsAssumption, SchedTimeAssumption
<1>2. CASE i.kind = "once"
  <2> DEFINE S == candidates(z, i.date, i.time)
  <2>1. NextRun(z, i, n, last) = First(S)
    BY <1>2 DEF NextRun, pendingOneTime, OneTimeRun
  <2>2. S # {}
    BY <2>1 DEF First
  <2>3. S \subseteq Nat /\ \A c \in S : LocalDate(z, c) = i.date
    BY <1>1, CandidatesAre
  <2> HIDE DEF S
  <2>4. First(S) \in S
    BY <2>2, <2>3, FirstNumber
  <2> QED BY <1>2, <2>1, <2>3, <2>4
<1>3. CASE i.kind # "once"
  <2> DEFINE a == LocalDate(z, n) - 1
             dates == {d \in a .. LocalDate(z, n) + 2 * Week : d % Week \in i.days}
             runs(d) == {c \in candidates(z, d, i.time) : c >= n /\ clockSlot(z, i, c) # last}
             D == {d \in dates : runs(d) # {}}
  <2>1. NextRun(z, i, n, last) = IF \A d \in dates : runs(d) = {} THEN Never ELSE First(runs(First(D)))
    BY <1>3 DEF NextRun
  <2>2. LocalDate(z, n) \in Int
    <3>1. n + Offset(z, n) \in Int
      BY <1>1, OffsetIs
    <3> QED BY <1>1, <3>1 DEF LocalDate
  <2>3. a \in Int /\ dates \subseteq Int /\ \A d \in dates : a <= d
    BY <1>1, <2>2
  <2> HIDE DEF a, dates
  <2>4. \A d \in dates : runs(d) \subseteq Nat /\ \A c \in runs(d) : n <= c
    BY <1>1, <2>3, CandidatesAre
  <2> HIDE DEF runs
  <2>5. D # {} /\ NextRun(z, i, n, last) = First(runs(First(D)))
    BY <2>1
  <2>6. First(D) \in D
    BY <2>3, <2>5, FirstOf
  <2>7. First(D) \in dates /\ runs(First(D)) # {}
    BY <2>6
  <2>8. First(runs(First(D))) \in runs(First(D))
    BY <2>4, <2>7, FirstNumber
  <2> QED BY <1>3, <2>4, <2>5, <2>7, <2>8
<1> QED BY <1>2, <1>3

LEMMA SlotIs ==
    ASSUME NEW z \in Zones, NEW i \in Inputs, NEW n \in Nat
    PROVE  /\ Slot(z, i, n) \in Slots /\ OneTimeSlot(i) \in Slots
           /\ Slot(z, i, n) # NoSlot =>
                Slot(z, i, n)[1] = IF i.kind = "once" THEN i.date ELSE LocalDate(z, n)
<1>1. i.date \in Int /\ i.time \in 0..Day - 1 /\ Day \in Nat \ {0}
  BY InputsAssumption, SchedTimeAssumption
<1>2. LocalDate(z, n) \in Int
  <2>1. n + Offset(z, n) \in Int
    BY <1>1, OffsetIs
  <2> QED BY <1>1, <2>1 DEF LocalDate
<1> QED BY <1>1, <1>2 DEF Slot, Slots, NoSlot, OneTimeSlot, clockSlot

\* What Announce counts down to is not over, so its claim is not spent yet.
LEMMA AnnouncedAhead ==
    ASSUME NEW z \in Zones, NEW i \in Inputs, NEW n \in Nat, NEW last, NEW m,
           m = NextRun(z, i, n, last), m # Never, n <= m, Slot(z, i, m) # NoSlot
    PROVE  ~(Slot(z, i, m)[1] < (n - 2 * Day) \div Day)
<1>1. m \in Nat /\ (i.kind = "once" => LocalDate(z, m) = i.date)
  BY NextRunIs
<1>2. Slot(z, i, m)[1] = LocalDate(z, m)
  BY <1>1, SlotIs
<1>3. Offset(z, m) \in -Day..Day /\ Day \in Nat \ {0}
  BY OffsetIs, SchedTimeAssumption
<1> DEFINE a == n - 2 * Day
           b == m + Offset(z, m)
<1>4. a \in Int /\ b \in Int /\ a <= b
  BY <1>1, <1>3
<1>5. LocalDate(z, m) = b \div Day
  BY DEF LocalDate
<1> HIDE DEF a, b
<1>6. a \div Day \in Int /\ a \div Day <= b \div Day
  BY <1>4, DivGrows
<1>7. b \div Day \in Int
  BY <1>3, <1>4
<1>8. ~(b \div Day < a \div Day)
  BY <1>6, <1>7
<1> QED BY <1>2, <1>5, <1>8 DEF a

----------------------------------------------------------------------------
(* The types *)

LEMMA ConstantsFit ==
    /\ NoInput \in Inputs /\ NoRow \in Rows /\ NoSlot \in Slots
    /\ NoWarning \in [at : {"none", "check", "send"}, id : Ids \cup {0}, rev : Nat, slot : Slots,
                      lead : Nat, runAt : Nat]
    /\ NoEdit \in [at : {"none", "commit"}, what : {"create", "update", "pause", "delete"},
                   id : Ids \cup {0}, rev : Nat, input : Inputs, access : {"granted", "revoked"}]
<1>1. NoInput \in Inputs
  BY InputsAssumption DEF NoInput
<1> QED BY <1>1 DEF NoRow, Rows, NoSlot, Slots, NoWarning, NoEdit

\* The record of a tick.
Ticks == [at : {"idle", "run", "authority", "commit", "skip", "announce"}, now : 0..End,
          saved : [Ids -> Rows], todo : SUBSET Ids, slot : Slots,
          access : {"granted", "revoked"}, since : 0..MaxChanges]

LEMMA NoTickFits == NoTick \in Ticks
<1>1. NoSlot \in Slots /\ [id \in Ids |-> NoRow] \in [Ids -> Rows]
  BY ConstantsFit
<1>2. 0 \in 0..End /\ 0 \in 0..MaxChanges
  BY SchedulesAssumption
<1> QED BY <1>1, <1>2 DEF NoTick, Ticks

LEMMA CurIs ==
    ASSUME SchedulesTypeOK, tick.todo # {}
    PROVE  /\ Cur \in tick.todo /\ Cur \in Ids
           /\ Read = tick.saved[Cur] /\ Read \in Rows /\ Read.input \in Inputs
<1>1. tick.todo \subseteq Ids /\ tick.saved \in [Ids -> Rows]
  BY DEF SchedulesTypeOK
<1>2. tick.todo \subseteq Nat
  BY <1>1, SchedulesAssumption
<1>3. Cur \in tick.todo
  BY <1>2, FirstNumber DEF Cur
<1> QED BY <1>1, <1>3 DEF Read, Rows

\* What the step to the next schedule of the list changes.
LEMMA NextOneIs ==
    ASSUME SchedulesTypeOK, tick.todo # {}, NextOne
    PROVE  /\ tick' \in Ticks
           /\ tick'.at = "run" /\ tick'.now = tick.now /\ tick'.todo = tick.todo \ {Cur}
           /\ \A id \in tick'.todo : tick'.saved[id] = tick.saved[id]
<1>1. tick \in Ticks /\ Cur \in Ids
  BY CurIs DEF SchedulesTypeOK, Ticks
<1>2. NoRow \in Rows /\ NoSlot \in Slots /\ 0 \in 0..MaxChanges
  BY ConstantsFit, SchedulesAssumption
<1>3. tick' = [at |-> "run", now |-> tick.now, saved |-> [tick.saved EXCEPT ![Cur] = NoRow],
               todo |-> tick.todo \ {Cur}, slot |-> NoSlot, access |-> "revoked", since |-> 0]
  BY <1>1, Zenon DEF NextOne, Ticks
<1> QED BY <1>1, <1>2, <1>3 DEF Ticks

LEMMA NextAnnouncedIs ==
    ASSUME SchedulesTypeOK, tick.todo # {}, NextAnnounced
    PROVE  /\ tick' \in Ticks
           /\ tick'.at = tick.at /\ tick'.now = tick.now /\ tick'.todo = tick.todo \ {Cur}
           /\ \A id \in tick'.todo : tick'.saved[id] = tick.saved[id]
<1>1. tick \in Ticks /\ Cur \in Ids
  BY CurIs DEF SchedulesTypeOK, Ticks
<1>2. NoRow \in Rows
  BY ConstantsFit
<1>3. tick' = [at |-> tick.at, now |-> tick.now, saved |-> [tick.saved EXCEPT ![Cur] = NoRow],
               todo |-> tick.todo \ {Cur}, slot |-> tick.slot, access |-> tick.access,
               since |-> tick.since]
  BY <1>1, Zenon DEF NextAnnounced, Ticks
<1> QED BY <1>1, <1>2, <1>3 DEF Ticks

\* The tick as a step of Run or Announce leaves it, in the cases that move it
\* other than to the next schedule.
LEMMA TickMoves ==
    ASSUME SchedulesTypeOK
    PROVE  /\ StartTick => tick' = [at |-> "run", now |-> now, saved |-> rows,
                                    todo |-> {id \in Ids : Saved(rows[id])}, slot |-> NoSlot,
                                    access |-> "revoked", since |-> 0]
           /\ StartAnnounce => tick' = [at |-> "announce", now |-> tick.now, saved |-> rows,
                                        todo |-> {id \in Ids : Saved(rows[id])},
                                        slot |-> tick.slot, access |-> tick.access,
                                        since |-> tick.since]
           /\ RunOne => \/ NextOne
                        \/ \E at \in {"authority", "skip"}, slot \in Slots,
                              a \in {"granted", "revoked"}, n \in 0..MaxChanges :
                              tick' = [at |-> at, now |-> tick.now, saved |-> tick.saved,
                                       todo |-> tick.todo, slot |-> slot, access |-> a, since |-> n]
           /\ CheckAuthority => \E at \in {"commit", "skip"} :
                              tick' = [at |-> at, now |-> tick.now, saved |-> tick.saved,
                                       todo |-> tick.todo, slot |-> tick.slot,
                                       access |-> tick.access, since |-> tick.since]
           /\ RunCommit => \/ NextOne
                           \/ /\ tick' = [at |-> "skip", now |-> tick.now, saved |-> tick.saved,
                                          todo |-> tick.todo, slot |-> tick.slot,
                                          access |-> tick.access, since |-> tick.since]
                              /\ UNCHANGED <<rows, ops>>
<1>1. tick \in Ticks /\ access \in {"granted", "revoked"} /\ changes \in 0..MaxChanges
  BY DEF SchedulesTypeOK, Ticks
<1>2. StartTick => tick' = [at |-> "run", now |-> now, saved |-> rows,
                            todo |-> {id \in Ids : Saved(rows[id])}, slot |-> NoSlot,
                            access |-> "revoked", since |-> 0]
  BY Zenon DEF StartTick, NoTick
<1>3. StartAnnounce => tick' = [at |-> "announce", now |-> tick.now, saved |-> rows,
                                todo |-> {id \in Ids : Saved(rows[id])},
                                slot |-> tick.slot, access |-> tick.access, since |-> tick.since]
  BY <1>1 DEF StartAnnounce, Ticks
<1>4. CheckAuthority => \E at \in {"commit", "skip"} :
          tick' = [at |-> at, now |-> tick.now, saved |-> tick.saved, todo |-> tick.todo,
                   slot |-> tick.slot, access |-> tick.access, since |-> tick.since]
  BY <1>1 DEF CheckAuthority, Ticks
<1>5. RunCommit => \/ NextOne
                   \/ /\ tick' = [at |-> "skip", now |-> tick.now, saved |-> tick.saved,
                                  todo |-> tick.todo, slot |-> tick.slot,
                                  access |-> tick.access, since |-> tick.since]
                      /\ UNCHANGED <<rows, ops>>
  <2>1. [tick EXCEPT !.at = "skip"]
           = [at |-> "skip", now |-> tick.now, saved |-> tick.saved, todo |-> tick.todo,
              slot |-> tick.slot, access |-> tick.access, since |-> tick.since]
    BY <1>1 DEF Ticks
  <2> QED BY <2>1, Zenon DEF RunCommit
<1>6. ASSUME RunOne, ~NextOne
      PROVE  \E at \in {"authority", "skip"}, slot \in Slots, a \in {"granted", "revoked"},
                n \in 0..MaxChanges :
                tick' = [at |-> at, now |-> tick.now, saved |-> tick.saved, todo |-> tick.todo,
                         slot |-> slot, access |-> a, since |-> n]
  <2>1. Read.input \in Inputs /\ zone \in Zones /\ tick.now \in Nat
    BY <1>6, CurIs, SchedulesAssumption DEF RunOne, SchedulesTypeOK
  <2>2. Slot(zone, Read.input, tick.now) \in Slots /\ OneTimeSlot(Read.input) \in Slots
    BY <2>1, SlotIs
  <2> DEFINE slot == Slot(zone, Read.input, tick.now)
             one == OneTimeSlot(Read.input)
  <2>3. \/ tick' = [tick EXCEPT !.at = "skip", !.slot = one]
        \/ tick' = [tick EXCEPT !.at = "authority", !.slot = slot, !.access = access, !.since = changes]
    BY <1>6, Zenon DEF RunOne
  <2> HIDE DEF slot, one
  <2>4. slot \in Slots /\ one \in Slots
    BY <2>2 DEF slot, one
  <2>5. \/ tick' = [at |-> "skip", now |-> tick.now, saved |-> tick.saved, todo |-> tick.todo,
                    slot |-> one, access |-> tick.access, since |-> tick.since]
        \/ tick' = [at |-> "authority", now |-> tick.now, saved |-> tick.saved, todo |-> tick.todo,
                    slot |-> slot, access |-> access, since |-> changes]
    BY <1>1, <2>3 DEF Ticks
  <2>6. tick.access \in {"granted", "revoked"} /\ tick.since \in 0..MaxChanges
    BY <1>1 DEF Ticks
  <2> QED BY <1>1, <2>4, <2>5, <2>6, Zenon
<1> QED BY <1>2, <1>3, <1>4, <1>5, <1>6

LEMMA TickTypeOK ==
    ASSUME SchedulesTypeOK, DueIsOpen, Ticker
    PROVE  tick' \in Ticks
<1>1. /\ tick \in Ticks /\ rows \in [Ids -> Rows] /\ now \in 0..End
      /\ NoSlot \in Slots /\ 0 \in 0..MaxChanges /\ NoTick \in Ticks
  BY ConstantsFit, NoTickFits, SchedulesAssumption DEF SchedulesTypeOK, Ticks
<1>2. CASE StartTick
  BY <1>1, <1>2, TickMoves DEF Ticks
<1>3. CASE RunOne
  BY <1>1, <1>3, TickMoves, NextOneIs DEF Ticks, RunOne
<1>4. CASE CheckAuthority
  BY <1>1, <1>4, TickMoves DEF Ticks
<1>5. CASE RunCommit
  BY <1>1, <1>5, TickMoves, NextOneIs DEF Ticks, RunCommit, DueIsOpen
<1>6. CASE RecordSkip \/ RunFails
  BY <1>6, NextOneIs DEF RecordSkip, RunFails, DueIsOpen
<1>7. CASE StartAnnounce
  BY <1>1, <1>7, TickMoves DEF Ticks
<1>8. CASE AnnounceNothing
  BY <1>8, NextAnnouncedIs DEF AnnounceNothing
<1>9. CASE ClaimAnnouncement
  BY <1>9, NextAnnouncedIs DEF ClaimAnnouncement
<1>10. CASE EndTick
  BY <1>1, <1>10 DEF EndTick
<1> QED BY <1>2, <1>3, <1>4, <1>5, <1>6, <1>7, <1>8, <1>9, <1>10 DEF Ticker

LEMMA RowsTypeOK ==
    ASSUME SchedulesTypeOK, DueIsOpen, [SchedulesNext]_scheduleVars
    PROVE  rows' \in [Ids -> Rows]
<1>1. /\ rows \in [Ids -> Rows] /\ tick.slot \in Slots
      /\ edit.id \in Ids \cup {0} /\ edit.input \in Inputs
  BY DEF SchedulesTypeOK
<1>2. CASE EditCommit
  <2>1. CASE edit.id \in Ids
    BY <1>1, <1>2, <2>1 DEF EditCommit, Rows
  <2>2. CASE edit.id \notin Ids
    BY <1>1, <1>2, <2>2 DEF EditCommit
  <2> QED BY <2>1, <2>2
<1>3. CASE RunCommit
  BY <1>1, <1>3 DEF RunCommit, Rows
<1>4. CASE RecordSkip
  BY <1>1, <1>4 DEF RecordSkip, Rows
<1>5. CASE UNCHANGED rows
  BY <1>1, <1>5
<1>6. EditCommit \/ RunCommit \/ RecordSkip \/ UNCHANGED rows
  BY Zenon DEF SchedulesNext, Ticker, scheduleVars, dbVars, EditRead, SetAccess, StartTick, RunOne, CheckAuthority,
     RunFails, StartAnnounce, AnnounceNothing, ClaimAnnouncement, EndTick, WarningEnds,
     WarningChecked, WarningSent, RunOperation, TimePasses, ScheduleCrash
<1> QED BY <1>2, <1>3, <1>4, <1>5, <1>6

LEMMA OpsTypeOK ==
    ASSUME SchedulesTypeOK, DueIsOpen, [SchedulesNext]_scheduleVars
    PROVE  ops' \subseteq Operations
<1>1. ops \subseteq Operations /\ tick.slot \in Slots
  BY DEF SchedulesTypeOK
<1>2. CASE RunCommit
  <2>1. Cur \in Ids /\ Read \in Rows
    BY <1>2, CurIs DEF RunCommit, DueIsOpen
  <2>2. NewOperation \in Operations
    BY <1>1, <2>1 DEF NewOperation, Operations, Rows
  <2> QED BY <1>1, <1>2, <2>2, Zenon DEF RunCommit
<1>3. ASSUME NEW o \in ops, RunOperation(o) PROVE ops' \subseteq Operations
  BY <1>1, <1>3 DEF RunOperation, Operations
<1>4. CASE UNCHANGED ops
  BY <1>1, <1>4
<1>5. RunCommit \/ (\E o \in ops : RunOperation(o)) \/ UNCHANGED ops
  BY Zenon DEF SchedulesNext, Ticker, scheduleVars, dbVars, EditRead, EditCommit, SetAccess, StartTick, RunOne,
     CheckAuthority, RecordSkip, RunFails, StartAnnounce, AnnounceNothing, ClaimAnnouncement,
     EndTick, WarningEnds, WarningChecked, WarningSent, TimePasses, ScheduleCrash
<1> QED BY <1>2, <1>3, <1>4, <1>5

\* What a warning is claimed for.
LEMMA AnnouncementIs ==
    ASSUME SchedulesTypeOK, tick.todo # {}, Announces
    PROVE  /\ Announcement = <<Cur, Slot(zone, Read.input, RunAt), LeadDue>>
           /\ Cur \in Ids /\ RunAt \in Nat /\ LeadDue \in Nat /\ tick.now <= RunAt
           /\ Announcement[2] = Slot(zone, Read.input, RunAt)
           /\ Slot(zone, Read.input, RunAt) \in Slots \ {NoSlot}
           /\ Announcement \in Ids \X Slots \X Nat
<1>1. Cur \in Ids /\ Read.input \in Inputs /\ zone \in Zones /\ tick.now \in Nat
  BY CurIs, SchedulesAssumption DEF SchedulesTypeOK
<1>2. RunAt # Never /\ LeadDue \in Nat \ {0}
  BY <1>1, InputsAssumption DEF Announces
<1>3. RunAt \in Nat
  BY <1>1, <1>2, NextRunIs DEF RunAt
<1>4. tick.now <= RunAt
  BY <1>1, <1>2, <1>3 DEF LeadDue
<1>5. Slot(zone, Read.input, RunAt) \in Slots /\ Slot(zone, Read.input, RunAt) # NoSlot
  BY <1>1, <1>3, SlotIs DEF Announces, Announcement
<1> QED BY <1>1, <1>2, <1>3, <1>4, <1>5 DEF Announcement

LEMMA WarningTypeOK ==
    ASSUME SchedulesTypeOK, WarningsGone, [SchedulesNext]_scheduleVars
    PROVE  /\ warning' \in [at : {"none", "check", "send"}, id : Ids \cup {0}, rev : Nat, slot : Slots,
                            lead : Nat, runAt : Nat]
           /\ announced' \subseteq Ids \X Slots \X Nat
           /\ DOMAIN sent' \subseteq Ids \X Slots \X Nat
<1> DEFINE W == [at : {"none", "check", "send"}, id : Ids \cup {0}, rev : Nat, slot : Slots,
                 lead : Nat, runAt : Nat]
<1>1. /\ warning \in W /\ NoWarning \in W /\ announced \subseteq Ids \X Slots \X Nat
      /\ DOMAIN sent \subseteq Ids \X Slots \X Nat
  BY ConstantsFit DEF SchedulesTypeOK
<1>2. CASE ClaimAnnouncement
  <2>1. /\ tick.todo # {} /\ Announces /\ sent' = sent
        /\ \/ /\ announced' = {c \in announced \cup {Announcement} : ~Spent(c)}
              /\ warning' = NewWarning
           \/ UNCHANGED <<warning, announced>>
    BY <1>2, Zenon DEF ClaimAnnouncement
  <2>2. /\ Announcement \in Ids \X Slots \X Nat /\ Cur \in Ids /\ RunAt \in Nat /\ LeadDue \in Nat
        /\ Announcement[2] \in Slots
    BY <2>1, AnnouncementIs
  <2>3. Read.rev \in Nat
    BY <2>1, CurIs DEF Rows
  <2>4. NewWarning \in W
    BY <2>2, <2>3 DEF NewWarning
  <2> QED BY <1>1, <2>1, <2>2, <2>4
<1>3. CASE WarningChecked
  BY <1>1, <1>3 DEF WarningChecked, dbVars
<1>4. CASE WarningSent
  <2>1. warning.id \in Ids
    BY <1>4 DEF WarningSent, WarningsGone
  <2> DEFINE w == <<warning.id, warning.slot, warning.lead>>
  <2>2. w \in Ids \X Slots \X Nat
    BY <1>1, <2>1
  <2>3. DOMAIN sent' = DOMAIN sent \cup {w}
    BY <1>4, Zenon DEF WarningSent
  <2> QED BY <1>1, <1>4, <2>2, <2>3 DEF WarningSent, dbVars
<1>5. CASE EditCommit
  BY <1>1, <1>5 DEF EditCommit
<1>6. CASE UNCHANGED <<warning, announced, sent>> \/ (warning' = NoWarning /\ UNCHANGED <<announced, sent>>)
  BY <1>1, <1>6
<1>7. \/ ClaimAnnouncement \/ WarningChecked \/ WarningSent \/ EditCommit
      \/ UNCHANGED <<warning, announced, sent>> \/ (warning' = NoWarning /\ UNCHANGED <<announced, sent>>)
  BY Zenon DEF SchedulesNext, Ticker, scheduleVars, dbVars, RunUnchanged, EditRead, SetAccess, StartTick, RunOne,
     CheckAuthority, RunCommit, RecordSkip, RunFails, StartAnnounce, AnnounceNothing, EndTick,
     WarningEnds, RunOperation, TimePasses, ScheduleCrash
<1> QED BY <1>2, <1>3, <1>4, <1>5, <1>6, <1>7

LEMMA RestTypeOK ==
    ASSUME SchedulesTypeOK, DueIsOpen, [SchedulesNext]_scheduleVars
    PROVE  /\ zone' \in Zones /\ now' \in 0..End
           /\ access' \in {"granted", "revoked"}
           /\ edit' \in [at : {"none", "commit"}, what : {"create", "update", "pause", "delete"},
                         id : Ids \cup {0}, rev : Nat, input : Inputs,
                         access : {"granted", "revoked"}]
           /\ edits' \in 0..MaxEdits /\ changes' \in 0..MaxChanges /\ faults' \in 0..MaxFaults
<1> DEFINE E == [at : {"none", "commit"}, what : {"create", "update", "pause", "delete"},
                 id : Ids \cup {0}, rev : Nat, input : Inputs, access : {"granted", "revoked"}]
<1>1. /\ zone \in Zones /\ now \in 0..End /\ access \in {"granted", "revoked"}
      /\ edit \in E /\ NoEdit \in E
      /\ edits \in 0..MaxEdits /\ changes \in 0..MaxChanges /\ faults \in 0..MaxFaults
      /\ {End, MaxEdits, MaxChanges, MaxFaults} \subseteq Nat
  BY ConstantsFit, SchedulesAssumption DEF SchedulesTypeOK
<1>2. zone' = zone
  BY Zenon DEF SchedulesNext, Ticker, scheduleVars, RunUnchanged, EditRead, EditCommit, SetAccess, StartTick, RunOne,
     CheckAuthority, RunCommit, RecordSkip, RunFails, StartAnnounce, AnnounceNothing,
     ClaimAnnouncement, EndTick, WarningEnds, WarningChecked, WarningSent, RunOperation, TimePasses,
     ScheduleCrash
<1>3. now' = now \/ (now < End /\ now' = now + 1)
  BY Zenon DEF SchedulesNext, Ticker, scheduleVars, RunUnchanged, EditRead, EditCommit, SetAccess, StartTick, RunOne,
     CheckAuthority, RunCommit, RecordSkip, RunFails, StartAnnounce, AnnounceNothing,
     ClaimAnnouncement, EndTick, WarningEnds, WarningChecked, WarningSent, RunOperation, TimePasses,
     ScheduleCrash
<1>4. \/ UNCHANGED <<access, changes>>
      \/ /\ changes < MaxChanges /\ changes' = changes + 1
         /\ access' = (IF access = "granted" THEN "revoked" ELSE "granted")
  BY Zenon DEF SchedulesNext, Ticker, scheduleVars, boundVars, RunUnchanged, EditRead, EditCommit, SetAccess,
     StartTick, RunOne, CheckAuthority, RunCommit, RecordSkip, RunFails, StartAnnounce,
     AnnounceNothing, ClaimAnnouncement, EndTick, WarningEnds, WarningChecked, WarningSent,
     RunOperation, TimePasses, ScheduleCrash
<1>5. faults' = faults \/ (faults < MaxFaults /\ faults' = faults + 1)
  BY Zenon DEF SchedulesNext, Ticker, scheduleVars, boundVars, RunUnchanged, EditRead, EditCommit, SetAccess,
     StartTick, RunOne, CheckAuthority, RunCommit, RecordSkip, RunFails, StartAnnounce,
     AnnounceNothing, ClaimAnnouncement, EndTick, WarningEnds, WarningChecked, WarningSent,
     RunOperation, TimePasses, ScheduleCrash
<1>6. ASSUME NEW id \in Ids, NEW what \in {"create", "update", "pause", "delete"}, NEW i \in Inputs,
             EditRead(id, what, i)
      PROVE  edit' \in E /\ edits' \in 0..MaxEdits
  <2>1. rows[id].rev \in Nat
    BY DEF SchedulesTypeOK, Rows
  <2> QED BY <1>1, <1>6, <2>1 DEF EditRead
<1>7. \/ \E id \in Ids, what \in {"create", "update", "pause", "delete"}, i \in Inputs :
            EditRead(id, what, i)
      \/ edits' = edits /\ edit' \in {edit, NoEdit}
  BY Zenon DEF SchedulesNext, Ticker, scheduleVars, boundVars, RunUnchanged, EditCommit, SetAccess,
     StartTick, RunOne, CheckAuthority, RunCommit, RecordSkip, RunFails, StartAnnounce,
     AnnounceNothing, ClaimAnnouncement, EndTick, WarningEnds, WarningChecked, WarningSent,
     RunOperation, TimePasses, ScheduleCrash
<1>8. edit' \in E /\ edits' \in 0..MaxEdits
  BY <1>1, <1>6, <1>7
<1> HIDE DEF E
<1>9. now' \in 0..End /\ changes' \in 0..MaxChanges /\ faults' \in 0..MaxFaults
  BY <1>1, <1>3, <1>4, <1>5
<1>10. access' \in {"granted", "revoked"}
  BY <1>1, <1>4
<1> QED BY <1>1, <1>2, <1>8, <1>9, <1>10 DEF E

LEMMA NextTypeOK ==
    ASSUME SchedulesTypeOK, DueIsOpen, WarningsGone, [SchedulesNext]_scheduleVars
    PROVE  SchedulesTypeOK'
<1>1. tick' \in Ticks
  <2>1. tick \in Ticks /\ NoTick \in Ticks
    BY NoTickFits DEF SchedulesTypeOK, Ticks
  <2>2. Ticker \/ tick' \in {tick, NoTick}
    BY Zenon DEF SchedulesNext, scheduleVars, RunUnchanged, EditRead, EditCommit, SetAccess, WarningEnds,
       WarningChecked, WarningSent, RunOperation, TimePasses, ScheduleCrash
  <2> QED BY <2>1, <2>2, TickTypeOK
<1> QED BY <1>1, RowsTypeOK, OpsTypeOK, WarningTypeOK, RestTypeOK DEF SchedulesTypeOK, Ticks

----------------------------------------------------------------------------
(* Settings and access *)

\* A schedule gets no other settings without another revision, does not come
\* back once it was deleted, and has a slot used up by the tick that looks at it.
LEMMA RowsMove ==
    ASSUME SchedulesTypeOK, [SchedulesNext]_scheduleVars, NEW id \in Ids
    PROVE  /\ rows[id].state # "unused" => rows'[id].state # "unused"
           /\ rows[id].state = "deleted" => rows'[id].state = "deleted"
           /\ rows[id].rev <= rows'[id].rev
           /\ rows[id].rev = rows'[id].rev => rows[id].input = rows'[id].input
           /\ rows'[id].last = rows[id].last \/ (id = Cur /\ NextOne)
<1>1. rows \in [Ids -> Rows] /\ rows[id] \in Rows /\ rows[id].rev \in Nat
  BY DEF SchedulesTypeOK, Rows
<1>2. CASE EditCommit
  <2>1. CASE edit.id = id
    BY <1>1, <1>2, <2>1 DEF EditCommit, EditAccepted, Rows
  <2>2. CASE edit.id # id
    BY <1>1, <1>2, <2>2 DEF EditCommit
  <2> QED BY <2>1, <2>2
<1>3. CASE RunCommit
  <2>1. CASE rows' = [rows EXCEPT ![Cur].last = tick.slot] /\ NextOne
    BY <1>1, <2>1 DEF Rows
  <2>2. CASE rows' = rows
    BY <1>1, <2>2
  <2> QED BY <1>3, <2>1, <2>2, Zenon DEF RunCommit
<1>4. CASE RecordSkip
  BY <1>1, <1>4 DEF RecordSkip, Rows
<1>5. CASE UNCHANGED rows
  BY <1>1, <1>5
<1>6. EditCommit \/ RunCommit \/ RecordSkip \/ UNCHANGED rows
  BY Zenon DEF SchedulesNext, Ticker, scheduleVars, dbVars, EditRead, SetAccess, StartTick, RunOne, CheckAuthority,
     RunFails, StartAnnounce, AnnounceNothing, ClaimAnnouncement, EndTick, WarningEnds,
     WarningChecked, WarningSent, RunOperation, TimePasses, ScheduleCrash
<1> QED BY <1>2, <1>3, <1>4, <1>5, <1>6

\* What a list tells of a schedule lasts until the tick has looked at it.
LEMMA ReadStays ==
    ASSUME SchedulesTypeOK, ReadIsOld, DueIsOpen, [SchedulesNext]_scheduleVars, NEW id \in tick.todo, tick.at # "idle",
           tick'.saved[id] = tick.saved[id], tick'.at # "announce" => tick.at # "announce",
           id = Cur => ~NextOne
    PROVE  LET s == tick'.saved[id]
               r == rows'[id]
           IN  /\ Saved(s) /\ r.state # "unused"
               /\ s.rev <= r.rev
               /\ s.rev = r.rev => s.input = r.input
               /\ tick'.at # "announce" => r.last = s.last
<1> DEFINE s == tick.saved[id]
           r == rows[id]
           q == rows'[id]
<1>1. id \in Ids
  BY DEF SchedulesTypeOK
<1>2. s.rev \in Nat /\ r.rev \in Nat
  BY <1>1 DEF SchedulesTypeOK, Rows
<1>3. /\ Saved(s) /\ r.state # "unused" /\ s.rev <= r.rev
      /\ s.rev = r.rev => s.input = r.input
      /\ tick.at # "announce" => r.last = s.last
  BY DEF ReadIsOld
<1>4. /\ q.state # "unused" /\ r.rev <= q.rev
      /\ r.rev = q.rev => r.input = q.input
      /\ q.last = r.last
  BY <1>1, <1>3, RowsMove
<1>5. q.rev \in Nat
  BY <1>1, RowsTypeOK DEF Rows
<1> HIDE DEF s, r, q
<1>6. s.rev <= q.rev /\ (s.rev = q.rev => s.input = q.input)
  BY <1>2, <1>3, <1>4, <1>5
<1> QED BY <1>3, <1>4, <1>6 DEF s, q

LEMMA NextReadIsOld ==
    ASSUME SchedulesTypeOK, ReadIsOld, DueIsOpen, [SchedulesNext]_scheduleVars
    PROVE  ReadIsOld'
<1> SUFFICES ASSUME tick'.at # "idle", NEW id \in tick'.todo
             PROVE  LET s == tick'.saved[id]
                        r == rows'[id]
                    IN  /\ Saved(s) /\ r.state # "unused"
                        /\ s.rev <= r.rev
                        /\ s.rev = r.rev => s.input = r.input
                        /\ tick'.at # "announce" => r.last = s.last
  BY DEF ReadIsOld, Saved
<1>1. CASE StartTick \/ StartAnnounce
  <2>1. /\ rows' = rows
        /\ tick'.saved = rows /\ tick'.todo = {x \in Ids : Saved(rows[x])}
        /\ tick'.at # "announce" => StartTick
    BY <1>1, TickMoves DEF StartTick, StartAnnounce, dbVars
  <2>2. id \in Ids /\ Saved(rows[id])
    BY <2>1
  <2>3. rows[id].rev \in Nat
    BY <2>2 DEF SchedulesTypeOK, Rows
  <2> QED BY <2>1, <2>2, <2>3 DEF Saved
<1>2. ASSUME NextOne, tick.todo # {}, tick.at \in {"run", "authority", "commit", "skip"}
      PROVE  id \in tick.todo /\ id # Cur /\ tick'.saved[id] = tick.saved[id] /\ tick.at # "announce"
  BY <1>2, NextOneIs
<1>3. CASE RunOne \/ RunCommit \/ RecordSkip \/ RunFails
  <2>1. CASE NextOne
    BY <1>2, <1>3, <2>1, ReadStays DEF RunOne, RunCommit, RecordSkip, RunFails, DueIsOpen
  <2>2. CASE ~NextOne
    <3>1. RunOne \/ RunCommit
      BY <1>3, <2>2 DEF RecordSkip, RunFails
    <3>2. tick'.todo = tick.todo /\ tick'.saved = tick.saved
      BY <3>1, <2>2, TickMoves
    <3>3. tick.at # "announce" /\ tick.at # "idle"
      BY <3>1 DEF RunOne, RunCommit
    <3> QED BY <2>2, <3>2, <3>3, ReadStays
  <2> QED BY <2>1, <2>2
<1>4. CASE CheckAuthority
  <2>1. tick'.todo = tick.todo /\ tick'.saved = tick.saved /\ tick'.at \in {"commit", "skip"}
    BY <1>4, TickMoves
  <2>2. tick.at = "authority"
    BY <1>4 DEF CheckAuthority
  <2>3. ~NextOne
    BY <2>1, <2>2, NextOneIs DEF DueIsOpen
  <2> QED BY <2>1, <2>2, <2>3, ReadStays
<1>5. CASE AnnounceNothing \/ ClaimAnnouncement
  <2>1. tick.at = "announce" /\ tick.todo # {} /\ NextAnnounced
    BY <1>5 DEF AnnounceNothing, ClaimAnnouncement
  <2>2. /\ tick'.at = tick.at /\ id \in tick.todo /\ id # Cur /\ tick'.saved[id] = tick.saved[id]
    BY <2>1, NextAnnouncedIs
  <2> QED BY <2>1, <2>2, ReadStays
<1>6. CASE tick' = NoTick
  BY <1>6 DEF NoTick
<1>7. CASE UNCHANGED tick
  <2>1. ~(NextOne /\ id = Cur)
    BY <1>7, NextOneIs
  <2> QED BY <1>7, <2>1, ReadStays
<1>8. \/ StartTick \/ StartAnnounce \/ RunOne \/ RunCommit \/ RecordSkip \/ RunFails \/ CheckAuthority
      \/ AnnounceNothing \/ ClaimAnnouncement \/ tick' = NoTick \/ UNCHANGED tick
  BY Zenon DEF SchedulesNext, Ticker, scheduleVars, EditRead, EditCommit, SetAccess, EndTick, WarningEnds,
     WarningChecked, WarningSent, RunOperation, TimePasses, ScheduleCrash
<1> QED BY <1>1, <1>3, <1>4, <1>5, <1>6, <1>7, <1>8

LEMMA NextAccessIsCounted ==
    ASSUME SchedulesTypeOK, DueIsOpen, AccessIsCounted, [SchedulesNext]_scheduleVars
    PROVE  AccessIsCounted'
<1>1. changes \in Nat /\ access \in {"granted", "revoked"} /\ tick \in Ticks
  BY SchedulesAssumption DEF SchedulesTypeOK, Ticks
<1>2. CASE SetAccess
  <2>1. /\ tick' = tick /\ changes' = changes + 1
        /\ access' = (IF access = "granted" THEN "revoked" ELSE "granted")
    BY <1>2 DEF SetAccess
  <2>2. (changes + 1) % 2 = 0 <=> ~(changes % 2 = 0)
    BY <1>1
  <2>3. tick.at \in {"authority", "commit"} => tick.since <= changes + 1
    BY <1>1 DEF AccessIsCounted, Ticks
  <2>4. tick.at = "commit" => tick.access = "granted" \/ tick.since < changes + 1
    BY <1>1 DEF AccessIsCounted, Ticks
  <2> QED BY <1>1, <2>1, <2>2, <2>3, <2>4 DEF AccessIsCounted
<1>3. CASE RunOne
  <2>1. UNCHANGED <<access, changes>>
    BY <1>3 DEF RunOne, RunUnchanged
  <2>2. CASE NextOne
    BY <1>3, <2>1, <2>2, NextOneIs DEF AccessIsCounted, RunOne
  <2>3. CASE tick' = [tick EXCEPT !.at = "skip", !.slot = OneTimeSlot(Read.input)]
    BY <1>1, <2>1, <2>3 DEF AccessIsCounted, Ticks
  <2>4. CASE tick' = [tick EXCEPT !.at = "authority", !.slot = Slot(zone, Read.input, tick.now),
                                  !.access = access, !.since = changes]
    BY <1>1, <2>1, <2>4 DEF AccessIsCounted, Ticks
  <2> QED BY <1>3, <2>2, <2>3, <2>4, Zenon DEF RunOne
<1>4. CASE CheckAuthority
  BY <1>1, <1>4 DEF CheckAuthority, RunUnchanged, AccessIsCounted, Ticks
<1>5. CASE UNCHANGED <<access, changes>> /\ tick'.at \notin {"authority", "commit"}
  BY <1>5 DEF AccessIsCounted
<1>6. CASE UNCHANGED <<access, changes, tick>>
  BY <1>6 DEF AccessIsCounted
<1>7. \/ SetAccess \/ RunOne \/ CheckAuthority \/ UNCHANGED <<access, changes, tick>>
      \/ UNCHANGED <<access, changes>> /\ tick'.at \notin {"authority", "commit"}
  <2>1. CASE StartTick \/ StartAnnounce
    BY <2>1, TickMoves DEF StartTick, StartAnnounce, RunUnchanged
  <2>2. CASE RunCommit
    BY <2>2, TickMoves, NextOneIs DEF RunCommit, RunUnchanged, DueIsOpen
  <2>3. CASE RecordSkip \/ RunFails
    BY <2>3, NextOneIs DEF RecordSkip, RunFails, RunUnchanged, DueIsOpen
  <2>4. CASE AnnounceNothing \/ ClaimAnnouncement
    BY <2>4, NextAnnouncedIs DEF AnnounceNothing, ClaimAnnouncement, RunUnchanged, boundVars
  <2>5. CASE EndTick \/ ScheduleCrash
    BY <2>5 DEF EndTick, ScheduleCrash, RunUnchanged, NoTick
  <2>6. \/ SetAccess \/ Ticker \/ ScheduleCrash \/ UNCHANGED <<access, changes, tick>>
    BY Zenon DEF SchedulesNext, scheduleVars, boundVars, EditRead, EditCommit, WarningEnds,
       WarningChecked, WarningSent, RunOperation, TimePasses
  <2> QED BY <2>1, <2>2, <2>3, <2>4, <2>5, <2>6 DEF Ticker
<1> QED BY <1>2, <1>3, <1>4, <1>5, <1>6, <1>7

LEMMA NextDueIsOpen ==
    ASSUME SchedulesTypeOK, DueIsOpen, [SchedulesNext]_scheduleVars
    PROVE  DueIsOpen'
<1>1. zone' = zone
  BY Zenon DEF SchedulesNext, Ticker, scheduleVars, RunUnchanged, EditRead, EditCommit, SetAccess, StartTick, RunOne,
     CheckAuthority, RunCommit, RecordSkip, RunFails, StartAnnounce, AnnounceNothing,
     ClaimAnnouncement, EndTick, WarningEnds, WarningChecked, WarningSent, RunOperation, TimePasses,
     ScheduleCrash
<1>2. ASSUME tick'.todo = tick.todo, tick'.saved = tick.saved
      PROVE  Cur' = Cur /\ Read' = Read
  BY <1>2 DEF Cur, Read
<1>3. CASE tick'.at \notin {"authority", "commit", "skip"}
  BY <1>3 DEF DueIsOpen
<1>4. CASE UNCHANGED tick
  BY <1>1, <1>2, <1>4, Zenon DEF DueIsOpen
<1>5. CASE RunOne /\ ~NextOne
  <2>1. tick \in Ticks
    BY DEF SchedulesTypeOK, Ticks
  <2>2. CASE tick' = [tick EXCEPT !.at = "skip", !.slot = OneTimeSlot(Read.input)]
    BY <1>5, <2>1, <2>2 DEF DueIsOpen, RunOne, Ticks
  <2>3. ASSUME tick' = [tick EXCEPT !.at = "authority", !.slot = Slot(zone, Read.input, tick.now),
                                    !.access = access, !.since = changes],
               Read.input.enabled, Slot(zone, Read.input, tick.now) \notin {NoSlot, Read.last}
        PROVE  DueIsOpen'
    <3> DEFINE slot == Slot(zone, Read.input, tick.now)
    <3> HIDE DEF slot
    <3>1. /\ tick'.at = "authority" /\ tick'.slot = slot /\ tick'.now = tick.now
          /\ tick'.todo = tick.todo /\ tick'.saved = tick.saved
      BY <2>1, <2>3 DEF Ticks, slot
    <3>2. tick.todo # {}
      BY <1>5 DEF RunOne
    <3>3. Slot(zone, Read.input, tick.now)' = slot
      BY <1>1, <1>2, <3>1 DEF slot
    <3> QED BY <1>2, <2>3, <3>1, <3>2, <3>3 DEF DueIsOpen, slot
  <2> QED BY <1>5, <2>2, <2>3, Zenon DEF RunOne
<1>6. CASE CheckAuthority
  <2>1. PICK at \in {"commit", "skip"} :
          tick' = [at |-> at, now |-> tick.now, saved |-> tick.saved, todo |-> tick.todo,
                   slot |-> tick.slot, access |-> tick.access, since |-> tick.since]
    BY <1>6, TickMoves
  <2>2. /\ tick'.at \in {"commit", "skip"} /\ tick'.slot = tick.slot /\ tick'.now = tick.now
        /\ tick'.todo = tick.todo /\ tick'.saved = tick.saved
    BY <2>1
  <2>3. /\ tick.todo # {} /\ Read.input.enabled
        /\ tick.slot = Slot(zone, Read.input, tick.now) /\ tick.slot \notin {NoSlot, Read.last}
    BY <1>6 DEF CheckAuthority, DueIsOpen
  <2>4. Slot(zone, Read.input, tick.now)' = Slot(zone, Read.input, tick.now)
    BY <1>1, <1>2, <2>2
  <2> QED BY <1>2, <2>2, <2>3, <2>4 DEF DueIsOpen
<1>7. CASE RunCommit /\ ~NextOne
  <2>1. tick'.at = "skip" /\ tick'.todo = tick.todo
    BY <1>7, TickMoves
  <2>2. tick.todo # {}
    BY <1>7 DEF RunCommit, DueIsOpen
  <2> QED BY <2>1, <2>2 DEF DueIsOpen
<1>8. \/ tick'.at \notin {"authority", "commit", "skip"} \/ UNCHANGED tick
      \/ (RunOne /\ ~NextOne) \/ CheckAuthority \/ (RunCommit /\ ~NextOne)
  <2>1. CASE StartTick \/ StartAnnounce
    BY <2>1, TickMoves
  <2>2. CASE (RunOne \/ RunCommit \/ RecordSkip \/ RunFails) /\ NextOne
    BY <2>2, NextOneIs DEF RunOne, RunCommit, RecordSkip, RunFails, DueIsOpen
  <2>3. CASE RecordSkip \/ RunFails
    BY <2>2, <2>3 DEF RecordSkip, RunFails
  <2>4. CASE AnnounceNothing \/ ClaimAnnouncement
    BY <2>4, NextAnnouncedIs DEF AnnounceNothing, ClaimAnnouncement
  <2>5. CASE EndTick \/ ScheduleCrash
    BY <2>5 DEF EndTick, ScheduleCrash, NoTick
  <2>6. Ticker \/ ScheduleCrash \/ UNCHANGED tick
    BY Zenon DEF SchedulesNext, scheduleVars, EditRead, EditCommit, SetAccess, WarningEnds, WarningChecked,
       WarningSent, RunOperation, TimePasses
  <2> QED BY <2>1, <2>2, <2>3, <2>4, <2>5, <2>6 DEF Ticker
<1> QED BY <1>3, <1>4, <1>5, <1>6, <1>7, <1>8

\* What an operation that is queued or run goes by.
LEMMA OpsMove ==
    ASSUME [SchedulesNext]_scheduleVars, NEW o \in ops', o \notin ops
    PROVE  \/ /\ RunCommit /\ o = NewOperation /\ Prior = {} /\ ops' = ops \cup {NewOperation}
              /\ access = tick.access /\ Saved(rows[Cur]) /\ rows[Cur].rev = Read.rev
           \/ \E p \in ops :
                 /\ RunOperation(p) /\ rows' = rows
                 /\ ops' = (ops \ {p}) \cup {o}
                 /\ o = [p EXCEPT !.status = IF Actor(p) THEN "done" ELSE "refused"]
<1>1. RunCommit \/ (\E p \in ops : RunOperation(p)) \/ UNCHANGED ops
  BY Zenon DEF SchedulesNext, Ticker, scheduleVars, dbVars, EditRead, EditCommit, SetAccess, StartTick, RunOne,
     CheckAuthority, RecordSkip, RunFails, StartAnnounce, AnnounceNothing, ClaimAnnouncement,
     EndTick, WarningEnds, WarningChecked, WarningSent, TimePasses, ScheduleCrash
<1>2. CASE RunCommit
  BY <1>2, Zenon DEF RunCommit
<1>3. ASSUME NEW p \in ops, RunOperation(p)
      PROVE  /\ rows' = rows /\ ops' = (ops \ {p}) \cup {o}
             /\ o = [p EXCEPT !.status = IF Actor(p) THEN "done" ELSE "refused"]
  <2> DEFINE q == [p EXCEPT !.status = IF Actor(p) THEN "done" ELSE "refused"]
  <2>1. rows' = rows /\ ops' = (ops \ {p}) \cup {q}
    BY <1>3, Zenon DEF RunOperation
  <2> HIDE DEF q
  <2>2. o = q
    BY <2>1
  <2> QED BY <2>1, <2>2 DEF q
<1> QED BY <1>1, <1>2, <1>3

LEMMA NextOpsAreOld ==
    ASSUME SchedulesTypeOK, DueIsOpen, ReadIsOld, OpsAreOld, [SchedulesNext]_scheduleVars
    PROVE  OpsAreOld'
<1> SUFFICES ASSUME NEW o \in ops'
             PROVE  /\ rows'[o.id].state # "unused" /\ o.rev <= rows'[o.id].rev
                    /\ o.rev = rows'[o.id].rev => o.input = rows'[o.id].input
  BY DEF OpsAreOld
<1>1. \A p \in ops : p.id \in Ids /\ p.rev \in Nat
  BY DEF SchedulesTypeOK, Operations
<1>2. \A id \in Ids : rows[id].rev \in Nat /\ rows'[id].rev \in Nat
  BY RowsTypeOK DEF SchedulesTypeOK, Rows
<1>3. CASE o \in ops
  <2> DEFINE r == rows[o.id]
             q == rows'[o.id]
  <2>1. o.id \in Ids /\ o.rev \in Nat /\ r.rev \in Nat /\ q.rev \in Nat
    BY <1>1, <1>2, <1>3
  <2>2. r.state # "unused" /\ o.rev <= r.rev /\ (o.rev = r.rev => o.input = r.input)
    BY <1>3 DEF OpsAreOld
  <2>3. q.state # "unused" /\ r.rev <= q.rev /\ (r.rev = q.rev => r.input = q.input)
    BY <2>1, <2>2, RowsMove
  <2> HIDE DEF r, q
  <2>4. q.state # "unused" /\ o.rev <= q.rev /\ (o.rev = q.rev => o.input = q.input)
    BY <2>1, <2>2, <2>3
  <2> QED BY <2>4 DEF q
<1>4. ASSUME RunCommit, o = NewOperation, Saved(rows[Cur]), rows[Cur].rev = Read.rev
      PROVE  /\ rows'[o.id].state # "unused" /\ o.rev <= rows'[o.id].rev
             /\ o.rev = rows'[o.id].rev => o.input = rows'[o.id].input
  <2>1. tick.at = "commit" /\ tick.todo # {}
    BY <1>4 DEF RunCommit, DueIsOpen
  <2>2. Cur \in tick.todo /\ Cur \in Ids /\ Read = tick.saved[Cur]
    BY <2>1, CurIs
  <2>3. rows[Cur].input = Read.input /\ rows[Cur].state # "unused"
    BY <1>4, <2>1, <2>2 DEF ReadIsOld
  <2>4. /\ rows'[Cur].state # "unused" /\ rows[Cur].rev <= rows'[Cur].rev
        /\ rows[Cur].rev = rows'[Cur].rev => rows[Cur].input = rows'[Cur].input
    BY <2>2, <2>3, RowsMove
  <2>5. o.id = Cur /\ o.rev = Read.rev /\ o.input = Read.input
    BY <1>4 DEF NewOperation
  <2> QED BY <1>4, <2>3, <2>4, <2>5
<1>5. ASSUME NEW p \in ops, o \notin ops, rows' = rows,
             o = [p EXCEPT !.status = IF Actor(p) THEN "done" ELSE "refused"]
      PROVE  /\ rows'[o.id].state # "unused" /\ o.rev <= rows'[o.id].rev
             /\ o.rev = rows'[o.id].rev => o.input = rows'[o.id].input
  <2>1. o.id = p.id /\ o.rev = p.rev /\ o.input = p.input
    BY <1>5 DEF SchedulesTypeOK, Operations
  <2> QED BY <1>5, <2>1 DEF OpsAreOld
<1> QED BY <1>3, <1>4, <1>5, OpsMove

----------------------------------------------------------------------------
(* Slots and warnings *)

LEMMA NextOncePerSlot ==
    ASSUME SchedulesTypeOK, DueIsOpen, OncePerSlot, [SchedulesNext]_scheduleVars
    PROVE  OncePerSlot'
<1> SUFFICES ASSUME NEW o \in ops', NEW p \in ops', o.id = p.id, o.slot = p.slot,
                    o.action = p.action
             PROVE  o = p
  BY DEF OncePerSlot
<1>1. ASSUME NEW q \in ops', NEW r \in ops', q \notin ops,
             q.id = r.id, q.slot = r.slot, q.action = r.action
      PROVE  q = r
  <2>1. CASE RunCommit /\ q = NewOperation /\ Prior = {} /\ ops' = ops \cup {NewOperation}
    <3>1. q.id = Cur /\ q.slot = tick.slot /\ q.action = Read.input.action
      BY <2>1 DEF NewOperation
    <3>2. r \notin ops
      BY <1>1, <2>1, <3>1 DEF Prior
    <3> QED BY <2>1, <3>2
  <2>2. ASSUME NEW s \in ops, ops' = (ops \ {s}) \cup {q},
               q = [s EXCEPT !.status = IF Actor(s) THEN "done" ELSE "refused"]
        PROVE  q = r
    <3>1. q.id = s.id /\ q.slot = s.slot /\ q.action = s.action
      BY <2>2 DEF SchedulesTypeOK, Operations
    <3> QED BY <1>1, <2>2, <3>1 DEF OncePerSlot
  <2> QED BY <1>1, <2>1, <2>2, OpsMove
<1>2. CASE o \notin ops
  BY <1>1, <1>2
<1>3. CASE p \notin ops
  BY <1>1, <1>3
<1>4. CASE o \in ops /\ p \in ops
  BY <1>4 DEF OncePerSlot
<1> QED BY <1>2, <1>3, <1>4

\* The clock a tick goes by is never set back, although its minutes repeat.
LEMMA ClockGrows ==
    ASSUME SchedulesTypeOK, DueIsOpen, WarningsGone, [SchedulesNext]_scheduleVars
    PROVE  /\ Clock \in Nat /\ Clock' \in Nat /\ Clock <= Clock'
           /\ tick'.at # "idle" => tick'.now <= now'
<1>1. now \in Nat /\ tick.now \in Nat /\ (tick.at # "idle" => tick.now <= now)
  BY SchedulesAssumption DEF SchedulesTypeOK, WarningsGone
<1>2. now' = now \/ (now' = now + 1 /\ tick' = tick)
  BY Zenon DEF SchedulesNext, Ticker, scheduleVars, RunUnchanged, EditRead, EditCommit, SetAccess, StartTick, RunOne,
     CheckAuthority, RunCommit, RecordSkip, RunFails, StartAnnounce, AnnounceNothing,
     ClaimAnnouncement, EndTick, WarningEnds, WarningChecked, WarningSent, RunOperation, TimePasses,
     ScheduleCrash
<1>3. CASE tick' = tick
  BY <1>1, <1>2, <1>3 DEF Clock
<1>4. CASE StartTick
  <2>1. tick'.at = "run" /\ tick'.now = now
    BY <1>4, TickMoves
  <2>2. tick.at = "idle" /\ now' = now
    BY <1>4 DEF StartTick, RunUnchanged
  <2> QED BY <1>1, <2>1, <2>2 DEF Clock
<1>5. CASE tick' = NoTick
  BY <1>1, <1>2, <1>5 DEF Clock, NoTick
<1>6. CASE tick.at # "idle" /\ tick'.at # "idle" /\ tick'.now = tick.now
  BY <1>1, <1>2, <1>6 DEF Clock
<1>7. \/ tick' = tick \/ StartTick \/ tick' = NoTick
      \/ tick.at # "idle" /\ tick'.at # "idle" /\ tick'.now = tick.now
  <2>1. CASE (RunOne \/ RunCommit \/ RecordSkip \/ RunFails) /\ NextOne
    BY <2>1, NextOneIs DEF RunOne, RunCommit, RecordSkip, RunFails, DueIsOpen
  <2>2. CASE (RunOne \/ RunCommit) /\ ~NextOne
    BY <2>2, TickMoves DEF RunOne, RunCommit
  <2>3. CASE RecordSkip \/ RunFails
    BY <2>1, <2>3 DEF RecordSkip, RunFails
  <2>4. CASE CheckAuthority \/ StartAnnounce
    BY <2>4, TickMoves DEF CheckAuthority, StartAnnounce
  <2>5. CASE AnnounceNothing \/ ClaimAnnouncement
    BY <2>5, NextAnnouncedIs DEF AnnounceNothing, ClaimAnnouncement
  <2>6. CASE EndTick
    BY <2>6 DEF EndTick
  <2>7. Ticker \/ tick' \in {tick, NoTick}
    BY Zenon DEF SchedulesNext, scheduleVars, EditRead, EditCommit, SetAccess, WarningEnds, WarningChecked,
       WarningSent, RunOperation, TimePasses, ScheduleCrash
  <2> QED BY <2>1, <2>2, <2>3, <2>4, <2>5, <2>6, <2>7 DEF Ticker
<1> QED BY <1>3, <1>4, <1>5, <1>6, <1>7

\* What cannot be claimed any more stays so.
LEMMA GoneStays ==
    ASSUME SchedulesTypeOK, DueIsOpen, WarningsGone, [SchedulesNext]_scheduleVars,
           NEW id \in Ids, NEW slot \in Slots \ {NoSlot}, NEW lead \in Nat,
           Gone(<<id, slot, lead>>), rows[id].state # "unused"
    PROVE  Gone(<<id, slot, lead>>)'
<1> DEFINE w == <<id, slot, lead>>
           past == (Clock - 2 * Day) \div Day
           next == (Clock' - 2 * Day) \div Day
<1>1. slot[1] \in Int
  BY DEF Slots
<1>2. past \in Int /\ next \in Int /\ past <= next
  <2>1. Clock \in Nat /\ Clock' \in Nat /\ Clock <= Clock'
    BY ClockGrows
  <2> QED BY <2>1, DaysAgoGrows
<1> HIDE DEF past, next
<1>3. ASSUME slot[1] < past PROVE slot[1] < next
  BY <1>1, <1>2, <1>3
<1>4. CASE w \in announced
  <2>1. CASE EditCommit
    <3>1. CASE edit.what = "delete" /\ rows' = [rows EXCEPT ![edit.id].state = "deleted"]
               /\ announced' = {c \in announced : c[1] # edit.id}
      <4>1. CASE edit.id = id
        <5>1. rows'[id].state = "deleted"
          BY <3>1, <4>1 DEF SchedulesTypeOK, Rows
        <5> QED BY <5>1 DEF Gone
      <4>2. CASE edit.id # id
        BY <1>4, <3>1, <4>2 DEF Gone
      <4> QED BY <4>1, <4>2
    <3>2. CASE announced' = announced
      BY <1>4, <3>2 DEF Gone
    <3> QED BY <2>1, <3>1, <3>2, Zenon DEF EditCommit
  <2>2. CASE ClaimAnnouncement
    <3>1. CASE announced' = {c \in announced \cup {Announcement} : ~Spent(c)}
      <4>1. CASE Spent(w)
        <5>1. slot[1] < (tick.now - 2 * Day) \div Day /\ Clock = tick.now
          BY <2>2, <4>1 DEF Spent, Clock, ClaimAnnouncement
        <5>2. slot[1] < next
          BY <1>3, <5>1 DEF past
        <5> QED BY <5>2 DEF Gone, next
      <4>2. CASE ~Spent(w)
        BY <1>4, <3>1, <4>2 DEF Gone
      <4> QED BY <4>1, <4>2
    <3>2. CASE announced' = announced
      BY <1>4, <3>2 DEF Gone
    <3> QED BY <2>2, <3>1, <3>2, Zenon DEF ClaimAnnouncement
  <2>3. CASE announced' = announced
    BY <1>4, <2>3 DEF Gone
  <2>4. EditCommit \/ ClaimAnnouncement \/ announced' = announced
    BY Zenon DEF SchedulesNext, Ticker, scheduleVars, dbVars, EditRead, SetAccess, StartTick, RunOne, CheckAuthority,
       RunCommit, RecordSkip, RunFails, StartAnnounce, AnnounceNothing, EndTick, WarningEnds,
       WarningChecked, WarningSent, RunOperation, TimePasses, ScheduleCrash
  <2> QED BY <2>1, <2>2, <2>3, <2>4
<1>5. CASE rows[id].state = "deleted"
  BY <1>5, RowsMove DEF Gone
<1>6. CASE slot[1] < past
  BY <1>3, <1>6 DEF Gone, next
<1> QED BY <1>4, <1>5, <1>6 DEF Gone, past

LEMMA NextWarningsGone ==
    ASSUME SchedulesTypeOK, DueIsOpen, ReadIsOld, WarningsGone, [SchedulesNext]_scheduleVars
    PROVE  WarningsGone'
<1>1. tick'.at # "idle" => tick'.now <= now'
  BY ClockGrows
<1>2. \A w \in DOMAIN sent : /\ sent[w] = 1 /\ w[2] # NoSlot /\ rows'[w[1]].state # "unused"
                             /\ Gone(w)'
  <2> TAKE w \in DOMAIN sent
  <2>1. PICK id \in Ids, slot \in Slots, lead \in Nat : w = <<id, slot, lead>>
    BY DEF SchedulesTypeOK
  <2>2. sent[w] = 1 /\ slot # NoSlot /\ rows[id].state # "unused" /\ Gone(<<id, slot, lead>>)
    BY <2>1 DEF WarningsGone
  <2>3. Gone(<<id, slot, lead>>)' /\ rows'[id].state # "unused"
    BY <2>2, GoneStays, RowsMove
  <2> QED BY <2>1, <2>2, <2>3
<1>3. ASSUME warning.at # "none"
      PROVE  \E id \in Ids, slot \in Slots \ {NoSlot}, lead \in Nat :
                /\ warning.id = id /\ warning.slot = slot /\ warning.lead = lead
                /\ <<id, slot, lead>> \notin DOMAIN sent
                /\ rows'[id].state # "unused" /\ Gone(<<id, slot, lead>>)'
  <2>1. PICK id \in Ids, slot \in Slots \ {NoSlot}, lead \in Nat :
          warning.id = id /\ warning.slot = slot /\ warning.lead = lead
    BY <1>3 DEF WarningsGone, SchedulesTypeOK
  <2>2. /\ rows[id].state # "unused" /\ <<id, slot, lead>> \notin DOMAIN sent
        /\ Gone(<<id, slot, lead>>)
    BY <1>3, <2>1 DEF WarningsGone, OnItsWay
  <2> QED BY <2>1, <2>2, GoneStays, RowsMove
<1>4. CASE WarningSent
  <2>1. PICK id \in Ids, slot \in Slots \ {NoSlot}, lead \in Nat :
          /\ warning.id = id /\ warning.slot = slot /\ warning.lead = lead
          /\ <<id, slot, lead>> \notin DOMAIN sent
          /\ rows'[id].state # "unused" /\ Gone(<<id, slot, lead>>)'
    BY <1>3, <1>4 DEF WarningSent
  <2> DEFINE w == <<id, slot, lead>>
  <2>2. /\ warning' = NoWarning
        /\ sent' = [x \in DOMAIN sent \cup {w} |-> (IF x \in DOMAIN sent THEN sent[x] ELSE 0)
                                                  + (IF x = w THEN 1 ELSE 0)]
    BY <1>4, <2>1 DEF WarningSent
  <2>3. w[1] = id /\ w[2] = slot /\ slot # NoSlot
    OBVIOUS
  <2> HIDE DEF w
  <2>4. w \notin DOMAIN sent /\ rows'[w[1]].state # "unused" /\ Gone(w)'
    BY <2>1, <2>3 DEF w
  <2>5. \A x \in DOMAIN sent' : sent'[x] = 1
    <3> TAKE x \in DOMAIN sent'
    <3>1. CASE x = w
      BY <2>2, <2>4, <3>1
    <3>2. CASE x \in DOMAIN sent /\ x # w
      BY <1>2, <2>2, <3>2
    <3> QED BY <2>2, <3>1, <3>2
  <2>6. \A x \in DOMAIN sent' : x[2] # NoSlot /\ rows'[x[1]].state # "unused" /\ Gone(x)'
    BY <1>2, <2>2, <2>3, <2>4
  <2>7. warning'.at = "none"
    BY <2>2 DEF NoWarning
  <2> QED BY <1>1, <2>5, <2>6, <2>7 DEF WarningsGone
<1>5. CASE sent' = sent /\ warning'.at = "none"
  BY <1>1, <1>2, <1>5 DEF WarningsGone
<1>6. CASE /\ sent' = sent /\ warning.at # "none"
           /\ warning'.id = warning.id /\ warning'.slot = warning.slot
           /\ warning'.lead = warning.lead
  <2>1. PICK id \in Ids, slot \in Slots \ {NoSlot}, lead \in Nat :
          /\ warning.id = id /\ warning.slot = slot /\ warning.lead = lead
          /\ <<id, slot, lead>> \notin DOMAIN sent
          /\ rows'[id].state # "unused" /\ Gone(<<id, slot, lead>>)'
    BY <1>3, <1>6
  <2>2. OnItsWay' = <<id, slot, lead>> /\ warning'.id = id /\ warning'.slot = slot
    BY <1>6, <2>1 DEF OnItsWay
  <2>3. Gone(OnItsWay)'
    BY <2>1, <2>2 DEF Gone
  <2> QED BY <1>1, <1>2, <1>6, <2>1, <2>2, <2>3 DEF WarningsGone
<1>7. CASE ClaimAnnouncement /\ warning' = NewWarning
  <2> DEFINE slot == Slot(zone, Read.input, RunAt)
  <2>1. /\ tick.todo # {} /\ Announces /\ sent' = sent /\ rows' = rows /\ tick.at = "announce"
        /\ warning.at = "none"
    BY <1>7, Zenon DEF ClaimAnnouncement, Announces
  <2>2. /\ Announcement = <<Cur, slot, LeadDue>>
        /\ Cur \in Ids /\ RunAt \in Nat /\ LeadDue \in Nat /\ tick.now <= RunAt
        /\ Announcement[2] = slot /\ slot \in Slots \ {NoSlot}
    BY <2>1, AnnouncementIs
  <2>3. warning'.at = "check" /\ warning'.id = Cur /\ warning'.slot = slot /\ warning'.lead = LeadDue
    BY <1>7, <2>2 DEF NewWarning
  <2>4. /\ Saved(rows[Cur]) /\ Announcement \notin announced
        /\ announced' = {c \in announced \cup {Announcement} : ~Spent(c)}
    BY <1>7, <2>1, <2>3, Zenon DEF ClaimAnnouncement
  <2>5. ~(slot[1] < (tick.now - 2 * Day) \div Day)
    <3>1. Read.input \in Inputs /\ zone \in Zones /\ tick.now \in Nat /\ RunAt # Never
      BY <2>1, CurIs, SchedulesAssumption DEF SchedulesTypeOK, Announces
    <3> QED BY <2>2, <3>1, AnnouncedAhead DEF RunAt
  <2>6. Announcement[1] = Cur /\ Announcement[2] = slot
    BY <2>2
  <2> HIDE DEF slot
  <2>7. Announcement \notin DOMAIN sent
    <3>1. Clock = tick.now /\ rows[Cur].state # "deleted"
      BY <2>1, <2>4 DEF Clock, Saved
    <3>2. ~Gone(Announcement)
      BY <2>4, <2>5, <2>6, <3>1 DEF Gone
    <3> QED BY <3>2 DEF WarningsGone
  <2>8. Announcement \in announced'
    BY <2>4, <2>5, <2>6 DEF Spent
  <2>9. OnItsWay' = Announcement
    BY <2>2, <2>3 DEF OnItsWay
  <2>10. Gone(OnItsWay)' /\ OnItsWay' \notin DOMAIN sent'
    BY <2>1, <2>7, <2>8, <2>9 DEF Gone
  <2>11. /\ warning'.id \in Ids /\ warning'.slot # NoSlot /\ rows'[warning'.id].state # "unused"
    BY <2>1, <2>2, <2>3, <2>4 DEF Saved
  <2> QED BY <1>1, <1>2, <2>1, <2>10, <2>11 DEF WarningsGone
<1>8. \/ WarningSent \/ (sent' = sent /\ warning'.at = "none")
      \/ (ClaimAnnouncement /\ warning' = NewWarning)
      \/ /\ sent' = sent /\ warning.at # "none"
         /\ warning'.id = warning.id /\ warning'.slot = warning.slot /\ warning'.lead = warning.lead
  <2>1. CASE WarningChecked
    BY <2>1 DEF WarningChecked, SchedulesTypeOK
  <2>2. CASE ClaimAnnouncement
    BY <2>2, Zenon DEF ClaimAnnouncement, Announces
  <2>3. CASE sent' = sent /\ warning' \in {warning, NoWarning}
    <3>1. NoWarning.at = "none" /\ warning.at \in {"none", "check", "send"}
      BY DEF NoWarning, SchedulesTypeOK
    <3> QED BY <2>3, <3>1
  <2>4. \/ WarningSent \/ WarningChecked \/ ClaimAnnouncement
        \/ sent' = sent /\ warning' \in {warning, NoWarning}
    BY Zenon DEF SchedulesNext, Ticker, scheduleVars, RunUnchanged, EditRead, EditCommit, SetAccess, StartTick,
         RunOne,
       CheckAuthority, RunCommit, RecordSkip, RunFails, StartAnnounce, AnnounceNothing, EndTick,
       WarningEnds, RunOperation, TimePasses, ScheduleCrash
  <2> QED BY <2>1, <2>2, <2>3, <2>4
<1> QED BY <1>4, <1>5, <1>6, <1>7, <1>8

----------------------------------------------------------------------------
(* The invariant *)

LEMMA InitIInv == SchedulesInit => IInv
<1> SUFFICES ASSUME SchedulesInit PROVE IInv
  OBVIOUS
<1>1. /\ zone \in Zones /\ now = 0 /\ access = "granted" /\ ops = {} /\ announced = {}
      /\ tick = NoTick /\ warning = NoWarning /\ edit = NoEdit /\ sent = [w \in {} |-> 0]
      /\ edits = 0 /\ changes = 0 /\ faults = 0
      /\ {End, MaxEdits, MaxChanges, MaxFaults} \subseteq Nat
  BY SchedulesAssumption DEF SchedulesInit
<1>2. rows \in [Ids -> Rows]
  BY ConstantsFit DEF SchedulesInit, Rows
<1>3. SchedulesTypeOK
  <2>1. DOMAIN sent = {} /\ tick \in Ticks
    BY <1>1, NoTickFits
  <2>2. 0 \in 0..End /\ 0 \in 0..MaxEdits /\ 0 \in 0..MaxChanges /\ 0 \in 0..MaxFaults
    BY <1>1
  <2> QED BY <1>1, <1>2, <2>1, <2>2, ConstantsFit DEF SchedulesTypeOK, Ticks
<1>4. tick.at = "idle" /\ warning.at = "none"
  BY <1>1 DEF NoTick, NoWarning
<1>5. ReadIsOld /\ DueIsOpen /\ OpsAreOld /\ OncePerSlot
  BY <1>1, <1>4 DEF ReadIsOld, DueIsOpen, OpsAreOld, OncePerSlot
<1>6. AccessIsCounted /\ WarningsGone
  BY <1>1, <1>4 DEF AccessIsCounted, WarningsGone
<1> QED BY <1>3, <1>5, <1>6 DEF IInv

LEMMA NextIInv == IInv /\ [SchedulesNext]_scheduleVars => IInv'
BY NextTypeOK, NextReadIsOld, NextDueIsOpen, NextAccessIsCounted, NextOpsAreOld, NextWarningsGone,
   NextOncePerSlot DEF IInv

LEMMA Invariance == SchedulesSpec => []IInv
BY InitIInv, NextIInv, PTL DEF SchedulesSpec

\* However the clock is set back, schedules are edited or deleted and the
\* process restarts, an action is queued once for a slot and a warning goes
\* out at most once.
THEOREM SlotsAreUsedOnce == SchedulesSpec => []SlotsAreKept
<1>1. IInv => SlotsAreKept
  BY DEF IInv, WarningsGone, WarnedOnce, SlotsAreKept
<1> QED BY <1>1, Invariance, PTL

----------------------------------------------------------------------------
(* What is queued and what acts *)

\* At the commit, access that compares equal with what was read is access that
\* the owner has, or it changed twice in between.
LEMMA AccessCompared ==
    ASSUME SchedulesTypeOK, AccessIsCounted, tick.at = "commit", access = tick.access
    PROVE  access = "granted" \/ changes >= tick.since + 2
<1>1. changes \in Nat /\ tick.since \in Nat
  BY SchedulesAssumption DEF SchedulesTypeOK
<1>2. ASSUME access # "granted" PROVE changes >= tick.since + 2
  <2>1. changes % 2 # 0 /\ tick.since % 2 # 0 /\ tick.since < changes
    BY <1>2 DEF AccessIsCounted
  <2> QED BY <1>1, <2>1
<1> QED BY <1>2

LEMMA RunIsCurrent ==
    ASSUME IInv, [SchedulesNext]_scheduleVars, NEW o \in ops' \ ops, o.status = "queued"
    PROVE  LET r == rows[o.id]
           IN  /\ Saved(r) /\ r.input.enabled
               /\ access = "granted" \/ changes >= tick.since + 2
               /\ r.input.action = o.action /\ r.last # o.slot
               /\ Slot(zone, r.input, tick.now) = o.slot
<1>1. \A p \in ops : [p EXCEPT !.status = IF Actor(p) THEN "done" ELSE "refused"].status # "queued"
  BY DEF IInv, SchedulesTypeOK, Operations
<1>2. /\ RunCommit /\ o = NewOperation /\ access = tick.access
      /\ Saved(rows[Cur]) /\ rows[Cur].rev = Read.rev
  BY <1>1, OpsMove, Zenon
<1>3. tick.at = "commit" /\ tick.todo # {}
  BY <1>2 DEF RunCommit, IInv, DueIsOpen
<1>4. Cur \in tick.todo /\ Read = tick.saved[Cur]
  BY <1>3, CurIs DEF IInv
<1>5. rows[Cur].input = Read.input /\ rows[Cur].last = Read.last
  BY <1>2, <1>3, <1>4 DEF IInv, ReadIsOld
<1>6. Read.input.enabled /\ tick.slot = Slot(zone, Read.input, tick.now) /\ tick.slot # Read.last
  BY <1>3 DEF IInv, DueIsOpen
<1>7. o.id = Cur /\ o.slot = tick.slot /\ o.action = Read.input.action
  BY <1>2 DEF NewOperation
<1>8. access = "granted" \/ changes >= tick.since + 2
  BY <1>2, <1>3, AccessCompared DEF IInv
<1> QED BY <1>2, <1>5, <1>6, <1>7, <1>8

LEMMA WorkIsOfItsSettings ==
    ASSUME IInv, [SchedulesNext]_scheduleVars, NEW o \in ops' \ ops, o.status = "done"
    PROVE  Saved(rows[o.id]) /\ rows[o.id].input = o.input
<1>1. o # NewOperation
  BY DEF NewOperation
<1>2. PICK p \in ops : o = [p EXCEPT !.status = IF Actor(p) THEN "done" ELSE "refused"]
  BY <1>1, OpsMove, Zenon
<1>3. o.id = p.id /\ o.input = p.input /\ Actor(p)
  BY <1>2 DEF IInv, SchedulesTypeOK, Operations
<1>4. Saved(rows[p.id]) /\ rows[p.id].rev = p.rev
  BY <1>3 DEF Actor
<1> QED BY <1>3, <1>4 DEF IInv, OpsAreOld

\* What a schedule queues is what it says at that moment, for an owner who may
\* run it (or whose access changed twice since it was read), in a slot that is
\* not used up; and what acts later acts by the settings that queued it.
THEOREM WorkIsCurrentHolds == SchedulesSpec => WorkIsCurrent
<1>1. IInv /\ [SchedulesNext]_scheduleVars =>
        [\A o \in ops' \ ops : o.status = "queued" =>
            LET r == rows[o.id]
            IN  /\ Saved(r) /\ r.input.enabled
                /\ access = "granted" \/ changes >= tick.since + 2
                /\ r.input.action = o.action /\ r.last # o.slot
                /\ Slot(zone, r.input, tick.now) = o.slot]_scheduleVars
  BY RunIsCurrent
<1>2. IInv /\ [SchedulesNext]_scheduleVars =>
        [\A o \in ops' \ ops : o.status = "done" =>
            Saved(rows[o.id]) /\ rows[o.id].input = o.input]_scheduleVars
  BY WorkIsOfItsSettings
<1> QED BY <1>1, <1>2, Invariance, PTL DEF SchedulesSpec, WorkIsCurrent, RunsAreCurrent, StaleWorkStops
============
