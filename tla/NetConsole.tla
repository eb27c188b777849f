------------------------------ MODULE NetConsole ------------------------------
(***************************************************************************)
(* One command over a game's network console (internal/netconsole):        *)
(* Source RCON, whose packets arrive in chunks of any size, Telnet, whose  *)
(* text is mixed with option requests, and Rust's WebRCON, whose messages  *)
(* arrive whole.  The server's end is external.                            *)
(*                                                                         *)
(* A packet is two units; Telnet's units are bytes of text and of option   *)
(* requests.  Request numbers differ from each other.  The timers that end *)
(* an answer after a quiet moment may fire whenever they run.              *)
(***************************************************************************)
EXTENDS Naturals, Sequences
LOCAL INSTANCE SequencesExt

CONSTANTS Chunks,           \* sizes of what one read returns
          MaxItems, MaxUnits    \* bounds: packets or pieces of text the server sends, units under way

VARIABLES
    kind,           \* "rcon", "telnet", "web"
    allowed,        \* the user may still run commands (Control.check)
    pipe, closed,   \* units on their way; the server has closed the connection
    buf, chunk,     \* RCON: units of an unfinished packet; what the last read returned
    state, raw,     \* Telnet: the decoder, and the text so far
    authenticated, sent,    \* the credential was accepted (Telnet: sent), the command was sent
    reply, timer,   \* RCON: the bodies received; a timer that runs: "none", "quiet", "command"
    pc, result,     \* "select", "chunk"; "none", "ok", "failed"
    heard, meant, items,    \* the server: what it received, what it said to the command (RCON) or at all (Telnet)
    trusted         \* every write was made while the user was allowed to

client == <<buf, chunk, state, raw, authenticated, sent, reply, timer, pc, result>>
server == <<closed, meant, items>>
vars == <<kind, allowed, pipe, client, heard, server, trusted>>

TypeOK ==
    /\ kind \in {"rcon", "telnet", "web"} /\ state \in {"text", "iac", "option", "sub", "subiac"} /\ timer \in {"none", "quiet", "command"}
    /\ pc \in {"select", "chunk", "end"} /\ result \in {"none", "ok", "failed"} /\ items \in 0..MaxItems /\ Len(pipe) <= MaxUnits

Init ==
    /\ kind \in {"rcon", "telnet", "web"} /\ allowed = TRUE /\ pipe = <<>> /\ closed = FALSE /\ buf = <<>> /\ chunk = <<>>
    /\ state = "text" /\ raw = <<>> /\ authenticated = FALSE /\ sent = FALSE /\ reply = <<>> /\ timer = "none"
    /\ pc = "select" /\ result = "none" /\ meant = <<>> /\ items = 0 /\ trusted = TRUE
    /\ heard = IF kind = "telnet" THEN <<>> ELSE <<"password">>   \* the first packet, or the address, carries the credential

-----------------------------------------------------------------------------
(* The server (external).                                                  *)

(* RCON: an empty packet before the verdict, the verdict, answers to the   *)
(* command and packets of somebody else's.  A packet is its number twice.  *)
(* WebRCON: messages that are one unit, some not well-formed.              *)
Packets == (IF Len(heard) = 2 THEN {"answer"} ELSE IF kind = "rcon" THEN {"empty", "granted", "denied"} ELSE {"broken"}) \cup {"other"}
Packet(p) == [of |-> p, n |-> items]

(* Telnet: text, the prompt in two halves, option requests, a doubled byte.*)
Say(p) == CASE p = "prompt" -> [units |-> <<"pass", "word">>, text |-> <<"pass", "word">>]
            [] p = "text" -> [units |-> <<"text">>, text |-> <<"text">>]
            [] p = "option" -> [units |-> <<"IAC", "WILL", "echo">>, text |-> <<>>]
            [] p = "sub" -> [units |-> <<"IAC", "SB", "IAC", "text", "IAC", "SE">>, text |-> <<>>]
            [] p = "double" -> [units |-> <<"IAC", "IAC">>, text |-> <<"IAC">>]
            [] p = "denied" -> [units |-> <<"incorrect">>, text |-> <<"incorrect">>]

ServerSends ==
    /\ ~closed /\ items < MaxItems /\ items' = items + 1
    /\ \/ /\ kind = "rcon" /\ Len(pipe) + 2 <= MaxUnits
          /\ \E p \in Packets : /\ pipe' = pipe \o <<Packet(p), Packet(p)>>
                                /\ meant' = IF p = "answer" THEN Append(meant, items) ELSE meant
       \/ /\ kind = "web" /\ Len(pipe) < MaxUnits
          /\ \E p \in Packets : /\ pipe' = Append(pipe, Packet(p))
                                /\ meant' = IF p = "answer" THEN Append(meant, items) ELSE meant
       \/ /\ kind = "telnet"
          /\ \E p \in {"prompt", "text", "option", "sub", "double"} \cup (IF heard # <<>> THEN {"denied"} ELSE {}) :
                /\ Len(pipe) + Len(Say(p).units) <= MaxUnits
                /\ pipe' = pipe \o Say(p).units /\ meant' = meant \o Say(p).text
    /\ UNCHANGED <<kind, allowed, client, heard, closed, trusted>>

ServerCloses == ~closed /\ closed' = TRUE /\ UNCHANGED <<kind, allowed, pipe, client, heard, meant, items, trusted>>
Revoke == allowed /\ result = "none" /\ allowed' = FALSE /\ UNCHANGED <<kind, pipe, client, heard, server, trusted>>

-----------------------------------------------------------------------------
(* session.write: permission is checked before every write.                *)
Writes(what) == heard' = Append(heard, what) /\ trusted' = (trusted /\ allowed)
End(r) == pc' = "end" /\ result' = r /\ timer' = "none"
Fail == End("failed") /\ UNCHANGED <<kind, allowed, pipe, buf, chunk, state, raw, authenticated, sent, reply, heard, server, trusted>>
WriteAllowed == allowed

(* reader: chunks arrive in order.                                         *)
MutantDecoderRestarts == "text"
DecoderGoesOn == state
Receive(n) ==
    /\ kind # "web" /\ pc = "select" /\ pipe # <<>> /\ (n <= Len(pipe) \/ n = 1)
    /\ chunk' = SubSeq(pipe, 1, n) /\ pipe' = SubSeq(pipe, n + 1, Len(pipe)) /\ pc' = "chunk" /\ state' = DecoderGoesOn
    /\ UNCHANGED <<kind, allowed, buf, raw, authenticated, sent, reply, timer, result, heard, server, trusted>>

(* DecodeRCON: the next whole packet.                                      *)
Whole == Len(buf \o chunk) >= 2
Rest == SubSeq(buf \o chunk, 3, Len(buf \o chunk))

RCONPacket ==
    /\ kind = "rcon" /\ pc = "chunk" /\ Whole
    /\ LET p == (buf \o chunk)[1]
       IN  IF ~authenticated /\ p.of = "denied" THEN Fail
           ELSE IF ~authenticated /\ p.of = "granted" /\ ~WriteAllowed THEN Fail
           ELSE /\ buf' = <<>> /\ chunk' = Rest
                /\ reply' = IF authenticated /\ p.of = "answer" THEN Append(reply, p.n) ELSE reply
                /\ IF ~authenticated /\ p.of = "granted"
                   THEN authenticated' = TRUE /\ sent' = TRUE /\ Writes("command")
                   ELSE UNCHANGED <<authenticated, sent, heard, trusted>>
                /\ UNCHANGED <<kind, allowed, pipe, state, raw, timer, pc, result, server>>

(* The answer ends after a quiet moment, but not inside a packet.          *)
RCONChunkDone ==
    /\ kind = "rcon" /\ pc = "chunk" /\ ~Whole
    /\ buf' = buf \o chunk /\ chunk' = <<>> /\ pc' = "select"
    /\ timer' = IF reply # <<>> /\ buf \o chunk = <<>> THEN "quiet" ELSE "none"
    /\ UNCHANGED <<kind, allowed, pipe, state, raw, authenticated, sent, reply, result, heard, server, trusted>>

(* telnetDecoder.decode: one unit; an option request is refused.           *)
Decode(u) ==
    CASE state = "text" -> [state |-> IF u = "IAC" THEN "iac" ELSE "text", text |-> IF u = "IAC" THEN <<>> ELSE <<u>>]
      [] state = "iac" -> IF u = "IAC" THEN [state |-> "text", text |-> <<u>>]
                          ELSE [state |-> IF u = "WILL" THEN "option" ELSE IF u = "SB" THEN "sub" ELSE "text", text |-> <<>>]
      [] state = "option" -> [state |-> "text", text |-> <<>>]
      [] state = "sub" -> [state |-> IF u = "IAC" THEN "subiac" ELSE "sub", text |-> <<>>]
      [] state = "subiac" -> [state |-> IF u = "SE" THEN "text" ELSE "sub", text |-> <<>>]

TelnetUnit ==
    /\ kind = "telnet" /\ pc = "chunk" /\ chunk # <<>>
    /\ IF state = "option" /\ ~WriteAllowed THEN Fail
       ELSE LET d == Decode(Head(chunk))
            IN  /\ state' = d.state /\ raw' = raw \o d.text /\ chunk' = Tail(chunk)
                /\ IF state = "option" THEN Writes("refusal") ELSE UNCHANGED <<heard, trusted>>
                /\ UNCHANGED <<kind, allowed, pipe, buf, authenticated, sent, reply, timer, pc, result, server>>

Says(text, words) == \E i \in 0..Len(text) - Len(words) : SubSeq(text, i + 1, i + Len(words)) = words
Prompted == Says(raw, <<"pass", "word">>)

TelnetChunkDone ==
    /\ kind = "telnet" /\ pc = "chunk" /\ chunk = <<>>
    /\ IF ~authenticated /\ Prompted
       THEN IF ~WriteAllowed THEN Fail
            ELSE /\ authenticated' = TRUE /\ Writes("password") /\ timer' = "command" /\ pc' = "select"
                 /\ UNCHANGED <<kind, allowed, pipe, buf, chunk, state, raw, sent, reply, result, server>>
       ELSE IF authenticated /\ Says(raw, <<"incorrect">>) THEN Fail
       ELSE /\ pc' = "select" /\ timer' = IF authenticated /\ sent THEN "quiet" ELSE timer
            /\ UNCHANGED <<kind, allowed, pipe, buf, chunk, state, raw, authenticated, sent, reply, result, heard, server, trusted>>

(* Telnet has no answer to the credential: the command follows after a gap.*)
CommandTimer ==
    /\ pc = "select" /\ timer = "command"
    /\ IF ~WriteAllowed THEN Fail
       ELSE /\ sent' = TRUE /\ Writes("command") /\ timer' = "quiet"
            /\ UNCHANGED <<kind, allowed, pipe, buf, chunk, state, raw, authenticated, reply, pc, result, server>>

Quiet == pc = "select" /\ timer = "quiet" /\ End("ok")
         /\ UNCHANGED <<kind, allowed, pipe, buf, chunk, state, raw, authenticated, sent, reply, heard, server, trusted>>

(* RustWebRCON: the command follows the handshake; the first message that  *)
(* carries its number is the answer.                                       *)
WebCommand ==
    /\ kind = "web" /\ pc = "select" /\ ~sent
    /\ IF ~WriteAllowed THEN Fail
       ELSE /\ authenticated' = TRUE /\ sent' = TRUE /\ Writes("command")
            /\ UNCHANGED <<kind, allowed, pipe, buf, chunk, state, raw, reply, timer, pc, result, server>>

WebMessage ==
    /\ kind = "web" /\ pc = "select" /\ sent /\ pipe # <<>>
    /\ LET p == Head(pipe)
       IN  IF p.of = "broken" THEN Fail
           ELSE /\ pipe' = Tail(pipe)
                /\ IF p.of = "answer" THEN reply' = <<p.n>> /\ End("ok") ELSE UNCHANGED <<reply, pc, result, timer>>
                /\ UNCHANGED <<kind, allowed, buf, chunk, state, raw, authenticated, sent, heard, server, trusted>>

(* The connection ends: an answer only if the command was sent and no      *)
(* packet is cut.                                                          *)
Closed ==
    /\ pc = "select" /\ closed /\ pipe = <<>>
    /\ End(IF kind # "web" /\ sent /\ (kind = "rcon" => buf = <<>>) THEN "ok" ELSE "failed")
    /\ UNCHANGED <<kind, allowed, pipe, buf, chunk, state, raw, authenticated, sent, reply, heard, server, trusted>>

TimesOut == pc = "select" /\ Fail

Next ==
    \/ ServerSends \/ ServerCloses \/ Revoke
    \/ \E n \in Chunks : Receive(n)
    \/ RCONPacket \/ RCONChunkDone \/ TelnetUnit \/ TelnetChunkDone \/ CommandTimer \/ WebCommand \/ WebMessage \/ Quiet \/ Closed \/ TimesOut

Spec == Init /\ [][Next]_vars

-----------------------------------------------------------------------------
Count(what) == Len(SelectSeq(heard, LAMBDA x : x = what))

(* A command is sent once, after the credential and never after the user   *)
(* lost the right to; what is returned is what the server said: of RCON    *)
(* the bodies of whole packets that answer this command, in order, all of  *)
(* them when the connection ended; of WebRCON the first answer; of Telnet  *)
(* the text without the option requests, however the bytes were cut into   *)
(* reads (SourceRCON, RustWebRCON, Telnet).                                *)
ConsoleAnswers ==
    /\ TypeOK
    /\ trusted /\ Count("command") <= 1 /\ Count("password") <= 1
    /\ \A i \in DOMAIN heard : heard[i] = "command" => \E j \in 1..i - 1 : heard[j] = "password"
    /\ IsPrefix(IF kind = "telnet" THEN raw ELSE reply, meant)
    /\ kind = "web" /\ result = "ok" => Len(reply) = 1
    /\ result = "ok" => sent /\ buf = <<>> /\ (closed /\ pipe = <<>> /\ kind = "rcon" => reply = meant)
=============================================================================
