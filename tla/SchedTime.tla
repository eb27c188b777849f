----------------------------- MODULE SchedTime -----------------------------
(***************************************************************************)
(* When schedules run: internal/schedtime/schedtime.go.                    *)
(*                                                                         *)
(* The unit of time is the code's minute.  A time zone changes its clock   *)
(* once: `z' is a record of the offset before, the offset after and the    *)
(* instant of the change.  Days and weeks may be shorter than ours.        *)
(***************************************************************************)
EXTENDS Integers, FiniteSets

CONSTANTS Day,    \* minutes of a day, an even number
          Week,   \* days of a week
          Grace   \* OneTimeGraceMs

ASSUME SchedTimeAssumption ==
    /\ Day \in Nat \ {0} /\ Day % 2 = 0
    /\ Week \in Nat \ {0} /\ Grace \in Nat \ {0}

Never == -1
NoSlot == <<>>

First(S) == IF S = {} THEN Never ELSE CHOOSE n \in S : \A m \in S : n <= m

\* localClock: what the clock on the wall shows at instant n.
Offset(z, n) == IF n < z.change THEN z.before ELSE z.after
LocalDate(z, n) == (n + Offset(z, n)) \div Day
LocalTime(z, n) == (n + Offset(z, n)) % Day

\* Repeated clock times share a slot: it does not name the offset.
OneTimeSlot(i) == <<i.date, i.time>>

clockSlot(z, i, n) ==
    IF LocalDate(z, n) % Week \in i.days /\ LocalTime(z, n) = i.time
    THEN <<LocalDate(z, n), i.time>> ELSE NoSlot

\* Mutant: the offset at the start of the date.
dayOffsetsOnce(z, date) == {Offset(z, date * Day)}

\* The offsets in use around a date, sampled twice a day.
dayOffsets(z, date) == {Offset(z, date * Day + h * (Day \div 2)) : h \in -2..4}

\* The instants at which a date and time may come, those that do.
candidates(z, date, time) ==
    {c \in {date * Day + time - o : o \in dayOffsets(z, date)} :
        c >= 0 /\ LocalDate(z, c) = date /\ LocalTime(z, c) = time}

OneTimeRun(z, i) == First(candidates(z, i.date, i.time))

pendingOneTime(z, i, n) ==
    IF n < OneTimeRun(z, i) + Grace THEN OneTimeRun(z, i) ELSE Never

Slot(z, i, n) ==
    IF i.kind = "once"
    THEN IF pendingOneTime(z, i, n) \in 0..n THEN OneTimeSlot(i) ELSE NoSlot
    ELSE clockSlot(z, i, n)

\* From yesterday, to which a clock that is set back may return, to the week
\* after one whose slot a clock set forward skips.
NextRun(z, i, n, last) ==
    LET dates == {d \in LocalDate(z, n) - 1 .. LocalDate(z, n) + 2 * Week : d % Week \in i.days}
        runs(d) == {c \in candidates(z, d, i.time) : c >= n /\ clockSlot(z, i, c) # last}
    IN  IF i.kind = "once"
        THEN IF OneTimeSlot(i) = last THEN Never ELSE pendingOneTime(z, i, n)
        ELSE IF \A d \in dates : runs(d) = {} THEN Never
             ELSE First(runs(First({d \in dates : runs(d) # {}})))

\* What NextRun is for: the first instant, among all, whose slot is not the last.
FirstRun(z, i, n, last) ==
    First({c \in n .. n + (2 * Week - 1) * Day : Slot(z, i, c) \notin {NoSlot, last}})
============================================================================
