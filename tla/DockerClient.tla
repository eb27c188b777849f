---------------------------- MODULE DockerClient ----------------------------
(***************************************************************************)
(* The Docker Engine client (internal/docker/client.go, helpers.go): what  *)
(* a caller may conclude from the answer of a request, whose version is    *)
(* negotiated once, that is never repeated when it changes something, and  *)
(* whose answer may be lost while Docker still carries it out.             *)
(*                                                                         *)
(* Docker keeps one helper container, one image and one exec.  A request   *)
(* is held by Docker until it is served, after its caller gave up too.     *)
(* Simplifications: the methods that differ only in their path are one     *)
(* request each ("stop" for Start, Stop, Restart, Rename...; "list" for    *)
(* every JSON read); long streams (Logs, Events) are requests whose body   *)
(* their owner reads; the pauses between attempts are left out.            *)
(***************************************************************************)
EXTENDS Naturals, Sequences, FiniteSets

CONSTANTS Caller, Engines,              \* Engines: [api, least] versions the daemon may speak
          Pinned,                       \* the helper image names a digest
          Attempts,                     \* removals repeated on a conflict (20 in the code)
          MaxCalls, MaxDockerFaults, MaxWrites    \* bounds

ASSUME DockerAssumption ==
    /\ Engines \subseteq [api : Nat, least : Nat] /\ Attempts \in Nat
    /\ MaxCalls \in Nat /\ MaxDockerFaults \in Nat /\ MaxWrites \in Nat

VARIABLES
    version,    \* Client: the negotiated version (0: none)
    writes,     \* Client: requests that may have changed Docker
    call,       \* of each caller: what it does
    cache,      \* the last list and the count it was taken at (servers.refresh)
    engine, box, image, exec,   \* Docker: its versions, the helper, its image, an exec
    held,       \* requests Docker has received and not served
    applied,    \* callers whose latest request Docker carried out
    servedLate, \* Docker carried out a change whose caller had given up
    callsMade, dockerFaults

docker == <<engine, box, image, exec>>
bounds == <<callsMade, dockerFaults>>
ghost == <<applied, servedLate>>
clientVars == <<version, writes, call, cache, docker, held, ghost, bounds>>

MinAPI == 44
MaxAPI == 55

JSONReads == {"version", "list", "image"}
ReadRequests == JSONReads \cup {"archive"}
Streams == {"exec"}
First == [CreateHelper |-> "create", RemoveHelper |-> "remove", RemoveOperationHelper |-> "remove",
          StartExec |-> "exec", ListContainers |-> "list", InspectImage |-> "image",
          ReadFile |-> "archive"]
Jobs == DOMAIN First
Removals == {"RemoveHelper", "RemoveOperationHelper"}
Errors == {"304", "400", "404", "409", "500"}
NoInfo == [api |-> 0, least |-> 0]
NoReply == [status |-> "none", good |-> FALSE, body |-> <<>>, info |-> NoInfo]
NoCall == [job |-> "none", at |-> "idle", req |-> "none", sent |-> "none", tries |-> 0,
           last |-> FALSE, count |-> 0, reply |-> NoReply, result |-> "none"]

(* What Docker's pull progress can say: records, an error, something that  *)
(* is not a record, an end in the middle of one.                           *)
PullBodies == {<<>>, <<"progress">>, <<"progress", "error">>, <<"progress", "cut">>, <<"invalid">>}
Pulled == {<<"progress">>, <<"progress", "cut">>}

DockerTypeOK ==
    /\ version \in {0} \cup MinAPI..MaxAPI /\ writes \in 0..MaxWrites
    /\ \A p \in Caller :
          /\ call[p].at \in {"idle", "path", "write", "sent", "answer", "returned"}
          /\ call[p].tries \in 0..Attempts
    /\ engine \in Engines /\ box \in {"absent", "running", "stopped", "removing", "gone"}
    /\ image \in BOOLEAN /\ exec \in {"prepared", "started"} /\ applied \subseteq Caller /\ servedLate \in BOOLEAN
    /\ \A r \in held : r.by \in Caller /\ r.live \in BOOLEAN /\ r.begun \in BOOLEAN

DockerInit ==
    /\ version = 0 /\ writes = 0 /\ call = [p \in Caller |-> NoCall]
    /\ cache = [count |-> 0, box |-> "unknown"]
    /\ engine \in Engines /\ image \in BOOLEAN /\ exec = "prepared" /\ box \in {"absent", "running"}
    /\ held = {} /\ applied = {} /\ servedLate = FALSE /\ callsMade = 0 /\ dockerFaults = 0

CallAt(p, at) == call[p].at = at
DockerFault == dockerFaults < MaxDockerFaults /\ dockerFaults' = dockerFaults + 1
ReturnCall(p, result) ==
    call' = [call EXCEPT ![p] = [NoCall EXCEPT !.job = call[p].job, !.at = "returned",
                                               !.result = result]]
AskDocker(p, req, tries) ==
    call' = [call EXCEPT ![p].at = "path", ![p].req = req, ![p].tries = tries,
                         ![p].reply = NoReply]

-----------------------------------------------------------------------------
(* Docker (external).                                                      *)

OutcomeOf(status, body, b, i, e) ==
    [status |-> status, body |-> body, box |-> b, image |-> i, exec |-> e]
Same(status, body) == OutcomeOf(status, body, box, image, exec)
View == IF box \in {"removing", "gone"} THEN "gone" ELSE box

(* What a request can come to.  An error status means nothing was done.    *)
FailsWith(status) == {Same(status, <<>>)}
Outcomes(r) ==
    IF r.version # 0 /\ r.version \notin engine.least..engine.api THEN FailsWith("400")
    ELSE CASE r.req = "version" -> {Same("200", <<"version">>)}
           [] r.req = "list" -> {Same("200", <<View>>)}
           [] r.req = "image" -> IF image THEN {Same("200", <<"image">>)} ELSE FailsWith("404")
           [] r.req = "archive" ->
                IF View = "gone" THEN FailsWith("404")
                ELSE {Same("200", <<f>>) : f \in {"regular", "link", "large"}}
           [] r.req = "create" ->
                IF ~image THEN FailsWith("404")
                ELSE IF box # "absent" THEN FailsWith("409")
                ELSE {OutcomeOf("201", <<"id">>, "running", image, exec)}
           [] r.req = "pull" ->
                {OutcomeOf("200", b, box, image \/ b \in Pulled, exec) : b \in PullBodies}
                \cup FailsWith("404")
           [] r.req = "remove" ->
                IF r.begun THEN {OutcomeOf("204", <<>>, "gone", image, exec)}
                ELSE IF box \in {"absent", "gone"} THEN FailsWith("404")
                ELSE IF box = "removing" THEN FailsWith("409") ELSE FailsWith("500")
           [] r.req = "stop" ->
                IF box \in {"absent", "gone"} THEN FailsWith("404")
                ELSE IF box = "running"
                     THEN {OutcomeOf("204", <<>>, "stopped", image, exec)} \cup FailsWith("500")
                     ELSE FailsWith("304")
           [] r.req = "exec" ->
                IF box = "running" /\ exec = "prepared"
                THEN {OutcomeOf("101", <<"stream">>, box, image, "started")}
                ELSE FailsWith("409")

Effective(r, o) == o.status \notin Errors /\ (r.req = "pull" => o.body \in Pulled)

Reply(r, o) == [status |-> o.status, good |-> TRUE, body |-> o.body,
                info |-> IF r.req = "version" THEN engine ELSE NoInfo]

Serve(r) ==
    \E o \in Outcomes(r) :
       /\ o.status = "500" => dockerFaults < MaxDockerFaults
       /\ dockerFaults' = IF o.status = "500" THEN dockerFaults + 1 ELSE dockerFaults
       /\ box' = o.box /\ image' = o.image /\ exec' = o.exec /\ UNCHANGED engine
       /\ held' = held \ {r}
       /\ applied' = IF r.live /\ Effective(r, o) THEN applied \cup {r.by} ELSE applied
       /\ servedLate' = (servedLate \/ (~r.live /\ r.req \notin ReadRequests))
       /\ call' = IF ~r.live THEN call
                  ELSE [call EXCEPT ![r.by].at = "answer", ![r.by].reply = Reply(r, o)]
       /\ UNCHANGED <<version, writes, cache, callsMade>>

(* A removal takes a while, and other removals conflict with it.           *)
Removing(r) ==
    /\ r.req = "remove" /\ ~r.begun /\ box \in {"running", "stopped"}
    /\ r.version \in engine.least..engine.api
    /\ box' = "removing" /\ held' = (held \ {r}) \cup {[r EXCEPT !.begun = TRUE]}
    /\ UNCHANGED <<version, writes, call, cache, engine, image, exec, ghost, bounds>>

(* The Engine is upgraded or downgraded while Ludock runs.                 *)
Upgrade ==
    /\ DockerFault /\ engine' \in Engines \ {engine}
    /\ UNCHANGED <<version, writes, call, cache, box, image, exec, held, ghost, callsMade>>

-----------------------------------------------------------------------------
(* The client.                                                             *)

(* A call begins.  A list is kept with the count read before it.           *)
Begin(p, job) ==
    /\ call[p].at \in {"idle", "returned"} /\ callsMade < MaxCalls /\ callsMade' = callsMade + 1
    /\ job = "CreateHelper" => box = "absent" /\ \A q \in Caller \ {p} : call[q].job # job
    /\ job \in Removals => box # "absent"
    /\ call' = [call EXCEPT ![p] = [NoCall EXCEPT !.job = job, !.at = "path", !.req = First[job],
                                                   !.count = writes]]
    /\ applied' = applied \ {p}
    /\ UNCHANGED <<version, writes, cache, docker, held, servedLate, dockerFaults>>

(* path and negotiate: every request needs a version; the first asks.      *)
SendRequest(p, req) ==
    /\ call' = [call EXCEPT ![p].at = "sent", ![p].sent = req]
    /\ held' = held \cup {[by |-> p, req |-> req, version |-> IF req = "version" THEN 0 ELSE version,
                            live |-> TRUE, begun |-> FALSE]}

RequestPath(p) ==
    /\ CallAt(p, "path")
    /\ IF version = 0 THEN SendRequest(p, "version")
       ELSE IF call[p].req \in Streams
       THEN call' = [call EXCEPT ![p].at = "write"] /\ UNCHANGED held
       ELSE SendRequest(p, call[p].req)
    /\ applied' = applied \ {p}
    /\ UNCHANGED <<version, writes, cache, docker, servedLate, bounds>>

(* negotiate: the newest version both sides know, within the tested range. *)
Agreed(info) ==
    LET minor == IF info.api < MaxAPI THEN info.api ELSE MaxAPI
    IN  IF minor < MinAPI \/ minor < info.least THEN 0 ELSE minor

Negotiate(p) ==
    /\ CallAt(p, "answer") /\ call[p].sent = "version"
    /\ LET info == call[p].reply.info
           v == IF call[p].reply.good THEN Agreed(info) ELSE 0
       IN  IF v = 0 THEN ReturnCall(p, "failed") /\ UNCHANGED version
           ELSE version' = v /\ AskDocker(p, call[p].req, call[p].tries)
    /\ UNCHANGED <<writes, cache, docker, held, ghost, bounds>>

(* hijack: the dial fails, the write fails before or after its first byte, *)
(* or Docker has the request.                                              *)
RequestStarted(bytes) == bytes > 0
Hijack(p) ==
    /\ CallAt(p, "write")
    /\ \/ /\ DockerFault /\ UNCHANGED held
          /\ \E bytes \in 0..1 : ReturnCall(p, IF RequestStarted(bytes) THEN "unknown" ELSE "unstarted")
       \/ SendRequest(p, call[p].req) /\ UNCHANGED dockerFaults
    /\ UNCHANGED <<version, writes, cache, docker, ghost, callsMade>>

(* The caller's context ends, a read's deadline passes, the connection     *)
(* breaks: Docker may never see the request, or serve it later.            *)
Abandon(p) ==
    /\ DockerFault /\ CallAt(p, "sent")
    /\ LET r == CHOOSE x \in held : x.by = p /\ x.live
       IN  \/ held' = (held \ {r}) \cup {[r EXCEPT !.live = FALSE]}
           \/ ~r.begun /\ held' = held \ {r}
    /\ call' = [call EXCEPT ![p].at = "answer", ![p].reply = NoReply]
    /\ UNCHANGED <<version, writes, cache, docker, ghost, callsMade>>

(* The answer is lost on its way, or is not what Docker promises.          *)
Lose(p) ==
    /\ DockerFault /\ CallAt(p, "answer") /\ call[p].reply.status \notin Errors \cup {"none"}
    /\ \/ call' = [call EXCEPT ![p].reply = NoReply]
       \/ call' = [call EXCEPT ![p].reply.good = FALSE]
    /\ UNCHANGED <<version, writes, cache, docker, held, ghost, callsMade>>

(* Pull: every record is checked, and there must be one.                   *)
Decoded(body) == \A i \in DOMAIN body : body[i] \notin {"cut", "invalid"}
PullResult(body) ==
    IF \E i \in DOMAIN body : body[i] = "error" THEN "500"
    ELSE IF body = <<>> \/ ~Decoded(body) THEN "unknown" ELSE "ok"

(* ReadFile takes a regular file of the expected size and nothing else.    *)
FileResult(body) == IF body = <<"regular">> THEN "ok" ELSE "refused"

(* A JSON body, an identifier or a protocol upgrade is checked; the body   *)
(* of an empty answer is not.                                              *)
Checked(req) == req \notin {"remove", "stop"}

(* What a request's answer means to the method that sent it.               *)
Result(req, reply) ==
    IF reply.status = "none" THEN "unknown"
    ELSE IF reply.status \in Errors THEN reply.status
    ELSE IF ~reply.good /\ Checked(req) THEN "unknown"
    ELSE IF req = "pull" THEN PullResult(reply.body)
    ELSE IF req = "archive" THEN FileResult(reply.body) ELSE "ok"

(* Mutations are counted once they returned, whatever they returned.       *)
CountsAsWrite(req) == req \notin ReadRequests \cup Streams
WriteCounted(p) ==
    IF CountsAsWrite(call[p].req) THEN writes < MaxWrites /\ writes' = writes + 1
    ELSE UNCHANGED writes

Again(p, req, last) ==
    call' = [call EXCEPT ![p].at = "path", ![p].req = req, ![p].tries = 0, ![p].last = last,
                         ![p].reply = NoReply]

(* CreateHelper: a missing pinned image is pulled once.                    *)
AfterCreate(p, result) ==
    IF call[p].req = "create" /\ result = "404" /\ Pinned /\ ~call[p].last
    THEN AskDocker(p, "pull", 0)
    ELSE IF call[p].req = "pull" /\ result = "ok" THEN Again(p, "create", TRUE)
    ELSE ReturnCall(p, result)

(* RemoveHelper: conflicts are waited for; a removal that failed is tried  *)
(* again after a stop.  RemoveOperationHelper does so until it succeeds.   *)
MutantConflictIsGone(result) == result \in {"ok", "404", "409"}
Gone(result) == result \in {"ok", "404"}
Unremoved(p) ==
    IF call[p].job = "RemoveOperationHelper" THEN Again(p, "remove", FALSE)
    ELSE ReturnCall(p, "cleanup")
AfterRemove(p, result) ==
    IF call[p].req = "remove"
    THEN IF Gone(result) THEN ReturnCall(p, "ok")
         ELSE IF result = "409" /\ call[p].tries < Attempts
         THEN AskDocker(p, "remove", call[p].tries + 1)
         ELSE IF ~call[p].last THEN AskDocker(p, "stop", 0) ELSE Unremoved(p)
    ELSE IF Gone(result) \/ result = "304"
    THEN Again(p, "remove", TRUE)
    ELSE Unremoved(p)

TakeAnswer(p) ==
    /\ CallAt(p, "answer") /\ call[p].sent # "version"
    /\ WriteCounted(p)
    /\ LET result == Result(call[p].req, call[p].reply)
       IN  /\ CASE call[p].job = "CreateHelper" -> AfterCreate(p, result)
                [] call[p].job \in Removals -> AfterRemove(p, result)
                [] OTHER -> ReturnCall(p, result)
           /\ cache' = IF call[p].req = "list" /\ result = "ok"
                       THEN [count |-> call[p].count, box |-> call[p].reply.body[1]] ELSE cache
    /\ UNCHANGED <<version, docker, held, ghost, bounds>>

DockerNext ==
    \/ \E r \in held : Serve(r) \/ Removing(r)
    \/ Upgrade
    \/ \E p \in Caller, job \in Jobs : Begin(p, job)
    \/ \E p \in Caller :
          \/ RequestPath(p) \/ Negotiate(p) \/ Hijack(p) \/ Abandon(p) \/ Lose(p) \/ TakeAnswer(p)

DockerSpec == DockerInit /\ [][DockerNext]_clientVars

-----------------------------------------------------------------------------
Changing == \E r \in held : r.req \notin ReadRequests
Uncounted == \E p \in Caller : call[p].at \in {"sent", "answer"} /\ CountsAsWrite(call[p].sent)

(* What callers conclude from an answer holds.  An error status, and a     *)
(* stream that could not be opened before a byte was sent, mean Docker did *)
(* not do it and never will; a success means it did, and of RemoveHelper   *)
(* that the helper no longer runs anywhere; a list kept with the count of  *)
(* changes is what Docker would answer, unless a change is under way or    *)
(* the count has moved, or Docker did late what its caller had given up    *)
(* waiting for; the version asked for is one the client was tested *)
(* with (client.go, hijack, request, Pull; helpers.go).                    *)
AnswersProve ==
    /\ DockerTypeOK
    /\ \A p \in Caller : CallAt(p, "returned") =>
         /\ call[p].result \in {"unstarted"} \cup Errors =>
               p \notin applied /\ ~\E r \in held : r.by = p /\ r.live
         /\ call[p].result = "ok" /\ call[p].job \notin Removals => p \in applied
         /\ call[p].result = "ok" /\ call[p].job \in Removals => box = "gone"
    /\ cache.box # "unknown" /\ cache.count = writes /\ ~Changing /\ ~Uncounted /\ ~servedLate =>
          cache.box = View

=============================================================================
