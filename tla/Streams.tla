------------------------------- MODULE Streams -------------------------------
(***************************************************************************)
(* What a browser sees of a container's output: the log decoder            *)
(* (internal/console/logs.go), the decoding of runes                       *)
(* (internal/console/runtime.go) and the removal of credentials            *)
(* (internal/console/redact.go), for one stream that Docker delivers in    *)
(* chunks cut anywhere and may end anywhere.                               *)
(*                                                                         *)
(* The source is what the container wrote: plain text from a terminal, or  *)
(* frames of standard output and standard error.  Bytes are numbers; text  *)
(* has runes of one byte (below 128) and of two (a lead byte from 192, one *)
(* that continues it), and is valid on each channel.                       *)
(***************************************************************************)
EXTENDS Naturals, Sequences, SequencesExt, FiniteSetsExt

CONSTANTS Sources,       \* [raw, frames], what the container wrote
          SecretLists    \* the lists of credentials considered

VARIABLES source, secrets,
          fed,       \* bytes received
          dec,       \* LogDecoder
          carry, pending,   \* of each channel: utf8Stream, Redactor
          shown,     \* of each channel: what was sent to the browser
          over       \* the stream ended

vars == <<source, secrets, fed, dec, carry, pending, shown, over>>

Channels == {"stdout", "stderr"}
Star == 1000      \* "[redacted]"
Bad == 1001       \* the replacement character

First(s, n) == SubSeq(s, 1, n)
Rest(s, n) == SubSeq(s, n + 1, Len(s))

Header(f) == <<IF f.on = "stdout" THEN 1 ELSE 2, 0, 0, 0, 0, 0, 0, Len(f.text)>>
Bytes(src) == IF src.raw THEN src.frames[1].text
              ELSE FlattenSeq([i \in DOMAIN src.frames |-> Header(src.frames[i]) \o src.frames[i].text])

NewLogDecoder == [mode |-> 0, header |-> <<>>, remaining |-> 0, on |-> "stdout"]
Empty == [c \in Channels |-> <<>>]

Init ==
    /\ source \in Sources /\ secrets \in SecretLists
    /\ fed = 0 /\ dec = NewLogDecoder /\ carry = Empty /\ pending = Empty /\ shown = Empty /\ over = FALSE

-----------------------------------------------------------------------------
(* LogDecoder.Push: the new state and the writes it makes.                 *)

Raw(d, h, rest, w) ==
    [d |-> [NewLogDecoder EXCEPT !.mode = 1], w |-> w \o <<[on |-> "stdout", text |-> h \o rest]>>]

RECURSIVE Decode(_, _, _)
Decode(d, chunk, w) ==
    IF chunk = <<>> THEN [d |-> d, w |-> w]
    ELSE IF d.mode = 1 THEN [d |-> d, w |-> Append(w, [on |-> "stdout", text |-> chunk])]
    ELSE IF d.remaining > 0
    THEN LET n == Min({d.remaining, Len(chunk)})
         IN  Decode([d EXCEPT !.remaining = @ - n], Rest(chunk, n), Append(w, [on |-> d.on, text |-> First(chunk, n)]))
    ELSE LET n == Min({8 - Len(d.header), Len(chunk)})
             h == d.header \o First(chunk, n)
             rest == Rest(chunk, n)
             known == h[1] \in {1, 2} /\ \A i \in 2..Min({4, Len(h)}) : h[i] = 0
             mode == IF Len(h) >= 4 THEN 2 ELSE d.mode
         IN  IF (d.mode = 0 /\ ~(h[1] \in {1, 2} /\ (Len(h) >= 4 => known))) \/ (Len(h) = 8 /\ ~known)
             THEN Raw(d, h, rest, w)
             ELSE IF Len(h) < 8 THEN [d |-> [d EXCEPT !.header = h, !.mode = mode], w |-> w]
             ELSE Decode([mode |-> mode, header |-> <<>>, remaining |-> h[8],
                          on |-> IF h[1] = 1 THEN "stdout" ELSE "stderr"], rest, w)

(* utf8Stream.decode: an incomplete rune at the end waits.                 *)
Lead(b) == b >= 192 /\ b < Star
Cut(data) == IF data # <<>> /\ Lead(Last(data)) THEN Len(data) - 1 ELSE Len(data)

-----------------------------------------------------------------------------
(* Redactor.  Matches are found leftmost first, then in the order of the   *)
(* list; text that could begin a credential is held back.                  *)

MatchesAt(s, p, k) == k + Len(s) - 1 <= Len(p) /\ SubSeq(p, k, k + Len(s) - 1) = s
FirstMatch(p, k) == LET found == {i \in DOMAIN secrets : MatchesAt(secrets[i], p, k)}
                    IN  IF found = {} THEN 0 ELSE Min(found)

MutantPartial(p) == 0
Partial(p) ==
    Max({0} \cup {n \in 1..Len(p) : \E i \in DOMAIN secrets :
            n < Len(secrets[i]) /\ SubSeq(p, Len(p) - n + 1, Len(p)) = First(secrets[i], n)})

Emits(p, final) == IF final THEN Len(p) ELSE Len(p) - Partial(p)

(* emit: what is sent and where the rest begins.                           *)
RECURSIVE Scan(_, _, _, _)
Scan(p, offset, limit, safe) ==
    IF offset >= limit THEN [safe |-> safe, offset |-> offset]
    ELSE LET at == {k \in (offset + 1)..limit : FirstMatch(p, k) # 0}
         IN  IF at = {} THEN [safe |-> safe \o SubSeq(p, offset + 1, limit), offset |-> limit]
             ELSE LET k == Min(at)
                  IN  Scan(p, k - 1 + Len(secrets[FirstMatch(p, k)]), limit,
                           safe \o SubSeq(p, offset + 1, k - 1) \o <<Star>>)

Emit(p, final) == Scan(p, 0, Emits(p, final), <<>>)

(* One write of the decoder goes through the runes to the redactor.        *)
Written(state, write) ==
    LET c == write.on
        data == state.carry[c] \o write.text
        p == state.pending[c] \o First(data, Cut(data))
        e == Emit(p, FALSE)
    IN  [carry |-> [state.carry EXCEPT ![c] = Rest(data, Cut(data))],
         pending |-> [state.pending EXCEPT ![c] = Rest(p, e.offset)],
         shown |-> [state.shown EXCEPT ![c] = @ \o e.safe]]

Receive(d, writes) ==
    LET after == FoldLeft(Written, [carry |-> carry, pending |-> pending, shown |-> shown], writes)
    IN  dec' = d /\ carry' = after.carry /\ pending' = after.pending /\ shown' = after.shown

(* Follow: a chunk of any size.                                            *)
PushChunk ==
    /\ ~over /\ \E n \in 1..(Len(Bytes(source)) - fed) :
          LET r == Decode(dec, SubSeq(Bytes(source), fed + 1, fed + n), <<>>)
          IN  Receive(r.d, r.w) /\ fed' = fed + n
    /\ UNCHANGED <<source, secrets, over>>

(* End: a short first header was text after all; after a whole frame the   *)
(* held runes and text are flushed, else they are dropped.                 *)
Whole(d) == d.header = <<>> /\ d.remaining = 0

Flush(state) ==
    [c \in Channels |->
        LET p == state.pending[c] \o (IF state.carry[c] = <<>> THEN <<>> ELSE <<Bad>>)
        IN  state.shown[c] \o Emit(p, TRUE).safe]

StreamEnds ==
    LET short == dec.mode = 0 /\ dec.header # <<>>
        writes == IF short THEN <<[on |-> "stdout", text |-> dec.header]>> ELSE <<>>
        d == IF short THEN [NewLogDecoder EXCEPT !.mode = 1] ELSE dec
        last == FoldLeft(Written, [carry |-> carry, pending |-> pending, shown |-> shown], writes)
    IN  /\ ~over /\ over' = TRUE /\ dec' = d
        /\ shown' = IF Whole(d) THEN Flush(last) ELSE last.shown
        /\ carry' = Empty /\ pending' = Empty
        /\ UNCHANGED <<source, secrets, fed>>

Next == PushChunk \/ StreamEnds
Spec == Init /\ [][Next]_vars

-----------------------------------------------------------------------------
(* The reference: the text each channel carries in the first n bytes, and  *)
(* that text with every credential replaced.                               *)

RECURSIVE TextOf(_, _, _)
TextOf(frames, c, n) ==
    IF frames = <<>> \/ n <= 8 THEN <<>>
    ELSE LET f == Head(frames)
         IN  (IF f.on = c THEN First(f.text, Min({n - 8, Len(f.text)})) ELSE <<>>)
               \o TextOf(Tail(frames), c, n - 8 - Len(f.text))

Text(c, n) == IF source.raw \/ n < 4 THEN (IF c = "stdout" THEN First(Bytes(source), n) ELSE <<>>)
              ELSE TextOf(source.frames, c, n)

Replaced(t) == IF Cut(t) = Len(t) THEN t ELSE Append(First(t, Cut(t)), Bad)

RECURSIVE Reference(_, _)
Reference(t, k) ==
    IF k > Len(t) THEN <<>>
    ELSE IF FirstMatch(t, k) # 0 THEN <<Star>> \o Reference(t, k + Len(secrets[FirstMatch(t, k)]))
    ELSE <<t[k]>> \o Reference(t, k + 1)

RECURSIVE Boundaries(_)
Boundaries(frames) ==
    IF frames = <<>> THEN {0}
    ELSE {0} \cup {8 + Len(Head(frames).text) + b : b \in Boundaries(Tail(frames))}

(* However the stream is cut into chunks: while it lasts, each channel     *)
(* shows a beginning of its text with the credentials replaced, so no      *)
(* piece of a credential split over chunks, frames or channels is ever     *)
(* shown; when it ends after a whole frame everything is shown, and when   *)
(* it breaks off inside one, nothing that could begin a credential is      *)
(* (Redactor.emit, LogDecoder.Push and End).                               *)
OutputIsRedacted ==
    \A c \in Channels :
        IF over /\ (source.raw \/ fed < 4 \/ fed \in Boundaries(source.frames))
        THEN shown[c] = Reference(Replaced(Text(c, fed)), 1)
        ELSE IsPrefix(shown[c], Reference(Text(c, Len(Bytes(source))), 1))

=============================================================================
