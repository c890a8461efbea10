------------------------------ MODULE RunProgress -------------------------------
(***************************************************************************)
(* services/run_progress.py: the record of one run, written by the run's   *)
(* thread through hooks on socket, ssl and http.client, and read once by   *)
(* the event loop's thread when the budget expires (RunProgress.snapshot). *)
(*                                                                         *)
(* Nothing is locked.  Every assignment of the writer to a field the       *)
(* reader uses is a step, and so is every read of the reader.  File        *)
(* descriptors are the process's: one that the run closes can be taken by  *)
(* another thread's socket at once.                                        *)
(*                                                                         *)
(* The run's requests are numbered in the order they are made; the caller  *)
(* (the Lace executor) makes one at a time, each on a connection of its    *)
(* own that it closes whatever happened.  Times, byte counts and URLs are  *)
(* left out, and so are TCP counters: a TCP state is known by the          *)
(* connection it was read from.                                            *)
(***************************************************************************)
EXTENDS Naturals, Sequences

CONSTANTS
    MaxRequests,      \* requests the script makes at most (bound)
    MaxAddresses,     \* addresses a name resolves to (bound)
    Https,            \* requests made over TLS
    CloseDelimited,   \* requests answered by Connection: close or HTTP/1.0
    Fds               \* file descriptors

Requests == 1..MaxRequests
None == 0                       \* no request; no descriptor; no TCP state
Other == MaxRequests + 1        \* whatever belongs to another thread

ASSUME RequestsAssumption == MaxRequests \in Nat /\ MaxAddresses \in Nat \ {0}
ASSUME KindsAssumption == Https \subseteq Requests /\ CloseDelimited \subseteq Requests
ASSUME FdsAssumption == None \notin Fds

VARIABLES
    phase, completed, request,   \* RunProgress.phase, requests_completed, request
    timeouts,                    \* RunProgress.timeouts
    fd, timed_out,               \* _Request.fd and timed_out, per request
    pc, current, tried,          \* the run's thread: position, request, addresses
    expiry,                      \* (history) per request: phases its timer expired in
    sockets,                     \* the descriptor table: who owns each
    snap                         \* the snapshot under way, or taken

record == <<phase, completed, request>>
marks == <<timeouts, fd, timed_out>>
work == <<current, tried, expiry>>
thread == <<pc, work>>
vars == <<record, marks, thread, sockets, snap>>

Phases == {"starting", "between_requests", "resolving", "connecting", "tls_handshake",
           "sending", "awaiting_response", "receiving", "storing_bodies"}

\* Positions of the run's thread.  Within a request: before its first byte,
\* opening a connection, exchanging, failing; then the steps of close().
Opening == {"assigned", "unsent", "resolving", "resolved", "opened", "dialing",
            "connecting", "connect_failed", "connected", "handshaking", "hung_up"}
Exchanging == {"writing", "sent", "awaiting", "headers", "reading"}
HookClosing == {"uncounted", "unphased", "unclosed"}
Positions == Opening \cup Exchanging \cup HookClosing
                \cup {"own", "early_uncounted", "early_unphased", "over", "storing", "done"}

\* The request under way, from its first send until it is read or failed.
Inside == IF pc \in (Opening \cup Exchanging) \ {"assigned"} THEN current ELSE None

\* tcp_state.read: the state of whatever connection the descriptor is now.
TcpRead(f) == IF f = None THEN None ELSE sockets[f]

\* tcp_state.verdict, up to what the TCP counters say.
Verdict(ph, tcp) ==
    CASE ph \in {"between_requests", "storing_bodies"} -> "agent"
      [] ph = "resolving"                              -> "network"
      [] ph = "starting" \/ tcp = None                 -> "unknown"
      [] ph = "connecting" /\ tcp # None               -> "network"
      [] OTHER                                         -> "by_tcp"

NoSnap == [at |-> "none", phase |-> "starting", request |-> None, completed |-> 0,
           fd |-> None, tcp |-> None, verdict |-> "unknown", inside |-> None]

TypeOK ==
    /\ phase \in Phases
    /\ completed \in 0..MaxRequests
    /\ request \in {None} \cup Requests
    /\ timeouts \in Seq([request : Requests, phase : Phases,
                         tcp : {None, Other} \cup Requests])
    /\ fd \in [Requests -> {None} \cup Fds]
    /\ timed_out \in [Requests -> BOOLEAN]
    /\ pc \in Positions
    /\ current \in 0..MaxRequests
    /\ tried \in 0..MaxAddresses
    /\ expiry \in [Requests -> Seq(Phases)]
    /\ sockets \in [Fds -> {None, Other} \cup Requests]
    /\ snap \in [at : {"none", "phase", "request", "completed", "fd", "read", "done", "nothing"},
                 phase : Phases, request : {None} \cup Requests,
                 completed : 0..MaxRequests, fd : {None} \cup Fds,
                 tcp : {None, Other} \cup Requests,
                 verdict : {"agent", "network", "unknown", "by_tcp"},
                 inside : {None} \cup Requests]   \* (history) Inside when phase was read

Init ==
    /\ phase = "starting" /\ completed = 0 /\ request = None
    /\ timeouts = <<>>
    /\ fd = [r \in Requests |-> None]
    /\ timed_out = [r \in Requests |-> FALSE]
    /\ pc = "own" /\ current = 0 /\ tried = 0
    /\ expiry = [r \in Requests |-> <<>>]
    /\ sockets = [f \in Fds |-> None]
    /\ snap = NoSnap

-----------------------------------------------------------------------------
(* The run's thread: helpers *)

Step(from, to) == pc = from /\ pc' = to

\* RunProgress.enter.
Enter(ph) == phase' = ph

Own(f) == sockets[f] = current

\* on_timeout: once per request, with the TCP state its descriptor has now.
on_timeout ==
    IF request = None \/ timed_out[request]
    THEN UNCHANGED marks
    ELSE /\ timed_out' = [timed_out EXCEPT ![request] = TRUE]
         /\ timeouts' = Append(timeouts, [request |-> request, phase |-> phase,
                                          tcp |-> TcpRead(fd[request])])
         /\ UNCHANGED fd

\* A timer of the request expires: the socket call raises TimeoutError.
TimerExpires == expiry' = [expiry EXCEPT ![current] = Append(@, phase)]

\* The kernel forgets the run's connection; its descriptor is free.
HangUp == sockets' = [f \in Fds |-> IF Own(f) THEN None ELSE sockets[f]]

-----------------------------------------------------------------------------
(* The request hook, and the connection it opens on its first send *)

\* Mutant of NewRequest: goes on with the addresses of the request before.
NewRequest_OldAddresses ==
    /\ Step("own", "assigned")
    /\ current < MaxRequests
    /\ current' = current + 1
    /\ request' = current + 1
    /\ UNCHANGED <<phase, completed, marks, tried, expiry, sockets>>

\* request(): p.request = _Request(...)
NewRequest ==
    /\ Step("own", "assigned")
    /\ current < MaxRequests
    /\ current' = current + 1
    /\ request' = current + 1
    /\ tried' = 0
    /\ UNCHANGED <<phase, completed, marks, expiry, sockets>>

\* Mutant of FirstSend: counts the bytes, enters no phase.
FirstSend_NoPhase ==
    /\ Step("assigned", "unsent")
    /\ UNCHANGED <<record, marks, work, sockets>>

\* on_sent runs before the bytes it counts, and before the connection: the
\* first send of a request opens it.
FirstSend ==
    /\ Step("assigned", "unsent")
    /\ Enter("sending")
    /\ UNCHANGED <<completed, request, marks, work, sockets>>

Resolve ==
    /\ Step("unsent", "resolving")
    /\ Enter("resolving")
    /\ UNCHANGED <<completed, request, marks, work, sockets>>

Resolved ==
    /\ pc = "resolving"
    /\ pc' \in {"resolved", "over"}        \* the addresses, or gaierror
    /\ UNCHANGED <<record, marks, work, sockets>>

\* create_connection makes a socket for the next address...
OpenSocket ==
    /\ Step("resolved", "opened")
    /\ \E f \in Fds : /\ sockets[f] = None
                      /\ sockets' = [sockets EXCEPT ![f] = current]
    /\ tried' = tried + 1
    /\ UNCHANGED <<record, marks, current, expiry>>

\* ... and the connect hook enters the phase, then keeps the descriptor.
EnterConnect ==
    /\ Step("opened", "dialing")
    /\ Enter("connecting")
    /\ UNCHANGED <<completed, request, marks, work, sockets>>

\* Mutant of KeepDescriptor: keeps the descriptor of the first address.
KeepDescriptor_First ==
    /\ Step("dialing", "connecting")
    /\ \E f \in Fds : /\ Own(f)
                      /\ fd' = [fd EXCEPT ![current] = IF @ = None THEN f ELSE @]
    /\ UNCHANGED <<record, timeouts, timed_out, work, sockets>>

KeepDescriptor ==
    /\ Step("dialing", "connecting")
    /\ \E f \in Fds : Own(f) /\ fd' = [fd EXCEPT ![current] = f]
    /\ UNCHANGED <<record, timeouts, timed_out, work, sockets>>

Connected ==
    /\ Step("connecting", IF current \in Https THEN "connected" ELSE "writing")
    /\ UNCHANGED <<record, marks, work, sockets>>

ConnectRefused ==
    /\ Step("connecting", "connect_failed")
    /\ UNCHANGED <<record, marks, work, sockets>>

ConnectTimesOut ==
    /\ Step("connecting", "connect_failed")
    /\ TimerExpires
    /\ on_timeout
    /\ UNCHANGED <<record, current, tried, sockets>>

\* create_connection closes the socket -- not through the close hook -- and
\* goes on to the next address; after the last one it raises.
NextAddress ==
    /\ pc = "connect_failed"
    /\ HangUp
    /\ pc' = IF tried < MaxAddresses THEN "resolved" ELSE "over"
    /\ UNCHANGED <<record, marks, work>>

EnterHandshake ==
    /\ Step("connected", "handshaking")
    /\ Enter("tls_handshake")
    /\ UNCHANGED <<completed, request, marks, work, sockets>>

Handshaken ==
    /\ Step("handshaking", "writing")
    /\ UNCHANGED <<record, marks, work, sockets>>

\* ssl closes the socket when the handshake fails, whatever the reason, before
\* the exception reaches the wrap_socket hook.
HandshakeFails ==
    /\ pc = "handshaking"
    /\ HangUp
    /\ pc' \in {"hung_up", "over"}         \* its timer expired, or another error
    /\ UNCHANGED <<record, marks, work>>

RecordHandshakeTimeout ==
    /\ Step("hung_up", "over")
    /\ TimerExpires
    /\ on_timeout
    /\ UNCHANGED <<record, current, tried, sockets>>

-----------------------------------------------------------------------------
(* The exchange *)

\* The headers are sent in whatever phase the connection left; a body is a
\* send of its own.
SendBody ==
    /\ pc = "writing"
    /\ Enter("sending")
    /\ UNCHANGED <<completed, request, marks, thread, sockets>>

Sent ==
    /\ Step("writing", "sent")
    /\ UNCHANGED <<record, marks, work, sockets>>

Await ==
    /\ Step("sent", "awaiting")
    /\ Enter("awaiting_response")
    /\ UNCHANGED <<completed, request, marks, work, sockets>>

\* on_received: the status line and headers, then the body.
ReceiveHeaders ==
    /\ Step("awaiting", "headers")
    /\ Enter("receiving")
    /\ UNCHANGED <<completed, request, marks, work, sockets>>

ReadBody ==
    /\ Step("headers", "reading")
    /\ current \notin CloseDelimited
    /\ UNCHANGED <<record, marks, work, sockets>>

\* getresponse closes a connection that will not be kept alive as soon as it
\* has the headers: the close hook runs, the body is still to come.  The
\* response holds the socket open until it is read.
CloseEarly ==
    /\ Step("headers", "early_uncounted")
    /\ current \in CloseDelimited
    /\ request' = None
    /\ UNCHANGED <<phase, completed, marks, work, sockets>>

CloseEarlyCount ==
    /\ Step("early_uncounted", "early_unphased")
    /\ completed' = completed + 1
    /\ UNCHANGED <<phase, request, marks, work, sockets>>

CloseEarlyEnter ==
    /\ Step("early_unphased", "reading")
    /\ Enter("between_requests")
    /\ UNCHANGED <<completed, request, marks, work, sockets>>

\* on_received does nothing but count once the request is gone.
ReceiveChunk ==
    /\ pc = "reading"
    /\ request # None
    /\ Enter("receiving")
    /\ UNCHANGED <<completed, request, marks, thread, sockets>>

BodyRead ==
    /\ Step("reading", "over")
    /\ UNCHANGED <<record, marks, work, sockets>>

\* Mutant of ExchangeTimesOut: a send that times out is not recorded.
ExchangeTimesOut_ReadsOnly ==
    /\ pc \in {"writing", "awaiting", "headers", "reading"}
    /\ pc' = "over"
    /\ TimerExpires
    /\ IF pc = "writing" THEN UNCHANGED marks ELSE on_timeout
    /\ UNCHANGED <<record, current, tried, sockets>>

\* The request's timer expires in a send or a read.
ExchangeTimesOut ==
    /\ pc \in {"writing", "awaiting", "headers", "reading"}
    /\ pc' = "over"
    /\ TimerExpires
    /\ on_timeout
    /\ UNCHANGED <<record, current, tried, sockets>>

\* A send or a read that fails otherwise -- a reset, a response that is none --
\* leaves no record.
ExchangeFails ==
    /\ pc \in {"writing", "awaiting", "headers", "reading"}
    /\ pc' = "over"
    /\ UNCHANGED <<record, marks, work, sockets>>

-----------------------------------------------------------------------------
(* close(), and the end of the run *)

\* Mutant of CloseHook: every close ends a request.
CloseHook_Always ==
    /\ Step("over", "uncounted")
    /\ request' = None
    /\ UNCHANGED <<phase, completed, marks, work, sockets>>

\* The executor closes the connection: three assignments in the hook when the
\* record still shows this request, then the socket goes.
CloseHook ==
    /\ pc = "over"
    /\ IF request = current THEN request' = None /\ pc' = "uncounted"
                            ELSE pc' = "unclosed" /\ UNCHANGED request
    /\ UNCHANGED <<phase, completed, marks, work, sockets>>

CloseCount ==
    /\ Step("uncounted", "unphased")
    /\ completed' = completed + 1
    /\ UNCHANGED <<phase, request, marks, work, sockets>>

CloseEnter ==
    /\ Step("unphased", "unclosed")
    /\ Enter("between_requests")
    /\ UNCHANGED <<completed, request, marks, work, sockets>>

CloseSocket ==
    /\ Step("unclosed", "own")
    /\ HangUp
    /\ UNCHANGED <<record, marks, work>>

\* _run_sync: the script is over, its bodies are uploaded.
StoreBodies ==
    /\ Step("own", "storing")
    /\ Enter("storing_bodies")
    /\ UNCHANGED <<completed, request, marks, work, sockets>>

RunEnds ==
    /\ Step("storing", "done")
    /\ UNCHANGED <<record, marks, work, sockets>>

-----------------------------------------------------------------------------
(* The rest of the process *)

OtherThread ==
    /\ \E f \in Fds : /\ sockets[f] \in {None, Other}
                      /\ sockets' = [sockets EXCEPT ![f] = IF @ = None THEN Other ELSE None]
    /\ UNCHANGED <<record, marks, thread>>

-----------------------------------------------------------------------------
(* The reader: RunProgress.snapshot, one read a step *)

ReadPhase ==
    /\ snap.at = "none"
    /\ snap' = [snap EXCEPT !.at = "phase", !.phase = phase, !.inside = Inside]

ReadRequest ==
    /\ snap.at = "phase"
    /\ snap' = [snap EXCEPT !.at = "request", !.request = request]

\* Nothing to say of a run that has not begun any work.
ReadNothing ==
    /\ snap.at = "request"
    /\ snap.phase = "starting" /\ completed = 0
    /\ snap' = [snap EXCEPT !.at = "nothing"]

ReadCompleted ==
    /\ snap.at = "request"
    /\ snap.phase # "starting" \/ completed # 0
    /\ snap' = [snap EXCEPT !.at = "completed", !.completed = completed]

\* tcp_state.read(request.fd): the descriptor is read, then the kernel is asked
\* about whatever connection has it by then.
ReadFd ==
    /\ snap.at = "completed"
    /\ snap' = [snap EXCEPT !.at = "fd",
                    !.fd = IF snap.request = None THEN None ELSE fd[snap.request]]

ReadTcp ==
    /\ snap.at = "fd"
    /\ snap' = [snap EXCEPT !.at = "read", !.fd = None, !.tcp = TcpRead(snap.fd)]

\* Mutant of Confirm: the state read is kept whatever became of the request.
Confirm_Unchecked ==
    /\ snap.at = "read"
    /\ snap' = [snap EXCEPT !.at = "done", !.verdict = Verdict(snap.phase, snap.tcp)]

\* A request that finished while it was read: its descriptor may already be
\* another's, so what was read through it is dropped.
Confirm ==
    LET tcp == IF snap.request # request THEN None ELSE snap.tcp IN
    /\ snap.at = "read"
    /\ snap' = [snap EXCEPT !.at = "done", !.tcp = tcp,
                            !.verdict = Verdict(snap.phase, tcp)]

Snapshot ==
    /\ \/ ReadPhase \/ ReadRequest \/ ReadNothing \/ ReadCompleted
       \/ ReadFd \/ ReadTcp \/ Confirm
    /\ UNCHANGED <<record, marks, thread, sockets>>

-----------------------------------------------------------------------------
RequestStep ==
    \/ NewRequest \/ FirstSend \/ Resolve \/ Resolved
    \/ OpenSocket \/ EnterConnect \/ KeepDescriptor
    \/ Connected \/ ConnectRefused \/ ConnectTimesOut \/ NextAddress
    \/ EnterHandshake \/ Handshaken \/ HandshakeFails \/ RecordHandshakeTimeout
    \/ SendBody \/ Sent \/ Await \/ ReceiveHeaders \/ ReadBody \/ ReceiveChunk
    \/ CloseEarly \/ CloseEarlyCount \/ CloseEarlyEnter
    \/ BodyRead \/ ExchangeTimesOut \/ ExchangeFails
    \/ CloseHook \/ CloseCount \/ CloseEnter \/ CloseSocket
    \/ StoreBodies \/ RunEnds

Next ==
    \/ (RequestStep \/ OtherThread) /\ UNCHANGED snap
    \/ Snapshot

Spec == Init /\ [][Next]_vars

-----------------------------------------------------------------------------
(* Safety *)

\* The stand-in's "request n" (describe: requestsCompleted + 1) is never a request
\* before the one whose method and URL it gives, though a connection is closed
\* twice; and it is that request when the stand-in has a TCP state, however long
\* the snapshot took to read the two.  (Where a close comes between the two it is the
\* next one's number, and the descriptor is gone or no longer the request's.)
NumberedRight ==
    snap.at = "done" /\ snap.request # None =>
        /\ snap.completed + 1 >= snap.request
        /\ snap.tcp # None => snap.completed + 1 = snap.request

\* Outside the handshake, a timeout record carries the TCP state of its own
\* request's connection: never none, never another's.
RecordOfOwnConnection ==
    \A i \in DOMAIN timeouts :
        timeouts[i].phase # "tls_handshake" => timeouts[i].tcp = timeouts[i].request

\* The snapshot never judges a request by the connection of another request
\* of the same run, though the descriptor is reused.
SnapshotNotOfAnotherRequest ==
    snap.at = "done" => snap.tcp \in {None, Other, snap.request}

\* A request whose timer expired has exactly one record once it is over, of the
\* phase in which it first did: on whichever address, in the handshake, a send
\* or a read, and however often it expired after that.  One whose timer first
\* expired after an early close of its connection has none.
FirstExpiryRecorded ==
    pc = "own" => \A r \in Requests :
        LET own == {i \in DOMAIN timeouts : timeouts[i].request = r} IN
        IF expiry[r] = <<>> \/ Head(expiry[r]) = "between_requests"
        THEN own = {}
        ELSE \E i \in own : own = {i} /\ timeouts[i].phase = Head(expiry[r])

\* A stall is put down to the agent only if the phase that rests on was read
\* while no request was under way, or one whose connection was closed early.
AgentVerdictUnlessClosedEarly ==
    snap.at = "done" /\ snap.verdict = "agent" => snap.inside \in {None} \cup CloseDelimited
=================================================================================
