------------------------------ MODULE CallTimeouts ------------------------------
(***************************************************************************)
(* From a stalled connection to the witness.  The calls of one run open    *)
(* connections; where a timer expires, the connection is judged and a      *)
(* record appended (run_progress.on_timeout); when the run is over, the    *)
(* calls that timed out are matched to the records by time                 *)
(* (_attribute_call_timeouts, services/executor.py); and if the path is in *)
(* question, a second agent reaches for the target (tcp_state.reach).      *)
(*                                                                         *)
(* The connection is kept twice over: what really happened to its          *)
(* segments, and the kernel's counters, which are all `verdict` sees.  It  *)
(* goes through the phases run_progress names: the handshake of TCP, that  *)
(* of TLS for an https target, the request's headers, which still go out   *)
(* under the phase before, its body and the response.  A name has one      *)
(* address here (RunProgress has several) and no call is redirected.       *)
(*                                                                         *)
(* Time is in abstract units and moves where the code waits: a timer runs  *)
(* for Timeout, everything else takes one of Gaps.                         *)
(***************************************************************************)
EXTENDS TcpState, SequencesExt

CONSTANTS
    Targets,       \* endpoints the calls go to
    Https,         \* those whose connections start with a TLS handshake
    MaxCalls,      \* calls of the script
    MaxAttempts,   \* attempts of one call
    Segments,      \* segments of a response, or of the peer's part of the handshake
    Bulk,          \* a burst of further segments, all in order
    Timeout,       \* how long a timer runs
    Slack,         \* the 0.01 s a record may lie outside its call
    Granularity,   \* startedAt and endedAt are cut to milliseconds
    Gaps,          \* what any other step may take
    ReachAttempts  \* the witness's attempts

\* A timer outlasts the slack, and the slack covers what stamping cuts off.
ASSUME TimeAssumption ==
    /\ Slack \in Nat /\ Timeout \in Nat /\ Granularity \in Nat \ {0}
    /\ Slack < Timeout /\ Granularity <= Slack + 1
    /\ Gaps \subseteq Nat

ASSUME SizeAssumption ==
    /\ Https \subseteq Targets
    /\ Segments \in Nat /\ Bulk \in Nat
    /\ MaxAttempts \in Nat \ {0} /\ ReachAttempts \in Nat \ {0}

VARIABLES
    now,           \* time.time()
    pc,            \* where the run is
    target,        \* where the call under way goes
    began,         \* when that call and
    since,         \* when its current attempt began
    attempt,       \* the attempt's number
    conn,          \* the attempt's connection
    timeouts,      \* RunProgress.timeouts; `of` is history: whose timer it was
    calls,         \* the result's calls; `tries` is history: the attempts made
    attribution,   \* what the scheduler is told about the timed-out ones
    witness        \* the second agent's reach

runVars == <<now, target, began, since, attempt, timeouts, calls>>
vars == <<now, pc, target, began, since, attempt, conn, timeouts, calls, attribution, witness>>

\* A connection.  What left this host and is not acknowledged is `unacked`:
\* it is on its way (onPath) or was lost; peerHas says that all of it arrived.
\* `sent` is the next segment of what the peer answers, `gap` that one before
\* it is missing here, `asked` that the headers were handed to the kernel.
\* lost, overtaken and spurious are history: what the path did, and that data
\* was sent again which was only delayed.  The SYN is already on its way.
Fresh == [phase |-> "connecting", state |-> "syn_sent", unacked |-> 1, retrans |-> 0,
          segs |-> 0, ooo |-> 0, onPath |-> TRUE, peerHas |-> FALSE, sent |-> 0,
          gap |-> FALSE, asked |-> FALSE, lost |-> FALSE, overtaken |-> 0,
          spurious |-> FALSE]

Stamp(t) == t - (t % Granularity)

TypeOK ==
    /\ now \in Nat /\ began \in 0..now /\ since \in began..now
    /\ pc \in {"idle", "exchange", "expired", "attributed", "witness"}
    /\ target \in Targets
    /\ attempt \in 1..MaxAttempts
    /\ conn.phase \in WirePhases /\ conn.unacked \in 0..1 /\ conn.retrans \in 0..1
    /\ conn.sent \in 0..Segments /\ conn.ooo <= conn.segs
    /\ \A i \in DOMAIN timeouts : /\ timeouts[i].at \in 0..now
                                  /\ timeouts[i].verdict \in Verdicts \ {"agent"}
    /\ \A i \in DOMAIN calls : /\ calls[i].outcome \in {"success", "timeout"}
                               /\ calls[i].startedAt <= calls[i].endedAt
    /\ attribution = Absent \/ attribution.verdict \in Verdicts \ {"agent"}
    /\ witness.path \in {"none", "clean", "lossy", "unreachable", "refused"}
    /\ Len(witness.attempts) <= ReachAttempts

Init ==
    /\ now = 0 /\ pc = "idle" /\ target \in Targets
    /\ began = 0 /\ since = 0 /\ attempt = 1
    /\ conn = Fresh
    /\ timeouts = <<>> /\ calls = <<>>
    /\ attribution = Absent
    /\ witness = [path |-> "none", attempts |-> <<>>, over |-> FALSE]

-----------------------------------------------------------------------------
(* The connection: the run's sends, the kernel, the path and the peer.     *)
(* These take no time that matters here.                                   *)

OnWire(c) ==
    /\ pc = "exchange"
    /\ conn' = c
    /\ UNCHANGED <<runVars, pc, attribution, witness>>

\* The SYN is answered: connect() returns, and the phase stays what it was.
Accept ==
    /\ conn.state = "syn_sent" /\ conn.onPath
    /\ OnWire([conn EXCEPT !.state = "established", !.unacked = 0, !.onPath = FALSE,
                           !.peerHas = TRUE])

\* More data leaves in this phase; what was lost before it is still missing.
Send(phase, asked) ==
    OnWire([conn EXCEPT !.phase = phase, !.asked = asked, !.unacked = 1,
                        !.onPath = @ \/ conn.peerHas, !.peerHas = FALSE, !.sent = 0])

\* wrap_socket, on an https connection.
ClientHello ==
    /\ conn.state = "established" /\ conn.phase = "connecting" /\ target \in Https
    /\ Send("tls_handshake", FALSE)

\* The peer's part of what is going on is here.
AllReceived == conn.sent = Segments /\ ~conn.gap

\* request: the headers go out under the phase that opened the connection.
SendHeaders ==
    /\ conn.state = "established" /\ ~conn.asked
    /\ IF target \in Https THEN conn.phase = "tls_handshake" /\ AllReceived
                           ELSE conn.phase = "connecting"
    /\ Send(conn.phase, TRUE)

\* A body follows: on_sent enters the phase, then it goes out.
SendBody ==
    /\ conn.asked /\ conn.phase \in {"connecting", "tls_handshake"}
    /\ Send("sending", TRUE)

\* request returns: "whatever comes next is the peer's turn".
Await ==
    /\ conn.asked /\ conn.phase \in {"connecting", "tls_handshake", "sending"}
    /\ OnWire([conn EXCEPT !.phase = "awaiting_response"])

\* On an accepted connection what was sent arrives and is acknowledged.
DataArrives ==
    /\ conn.onPath /\ conn.state = "established"
    /\ OnWire([conn EXCEPT !.onPath = FALSE, !.peerHas = TRUE, !.unacked = 0])

\* The path loses it, or the SYN or the answer to it.
DataLost ==
    /\ conn.onPath
    /\ OnWire([conn EXCEPT !.onPath = FALSE, !.lost = TRUE])

AckLost ==
    /\ conn.onPath /\ conn.state = "established"
    /\ OnWire([conn EXCEPT !.onPath = FALSE, !.peerHas = TRUE, !.lost = TRUE])

\* The kernel's timer knows only that no acknowledgement came in time: it sends
\* again what was lost, and what is merely late.
Retransmit ==
    /\ conn.unacked = 1
    /\ OnWire([conn EXCEPT !.onPath = TRUE, !.retrans = 1,
                           !.spurious = @ \/ conn.onPath])

\* A peer that has it all answers a ClientHello or a request.
Answering ==
    /\ conn.peerHas
    /\ conn.phase \in IF conn.asked THEN {"awaiting_response", "receiving"}
                                     ELSE {"tls_handshake"}

\* Bytes of a response that are in order reach the executor (on_received);
\* those of a handshake go to the TLS library.
Reached == IF conn.asked THEN "receiving" ELSE conn.phase

\* A segment arrives, and acknowledges what the peer has: after a gap, the
\* kernel keeps it and counts it.
SegmentArrives ==
    /\ Answering /\ conn.sent < Segments
    /\ OnWire([conn EXCEPT !.sent = @ + 1, !.segs = @ + 1,
                           !.ooo = IF conn.gap THEN @ + 1 ELSE @,
                           !.phase = IF conn.gap THEN @ ELSE Reached,
                           !.unacked = 0, !.onPath = FALSE])

SegmentLost ==
    /\ Answering /\ conn.sent < Segments
    /\ OnWire([conn EXCEPT !.sent = @ + 1, !.gap = TRUE, !.lost = TRUE])

\* The path swaps two segments.
SegmentOvertaken ==
    /\ Answering /\ conn.sent + 1 < Segments /\ ~conn.gap
    /\ OnWire([conn EXCEPT !.sent = @ + 2, !.segs = @ + 2, !.ooo = @ + 1,
                           !.overtaken = @ + 1, !.phase = Reached,
                           !.unacked = 0, !.onPath = FALSE])

GapFilled ==
    /\ conn.gap
    /\ OnWire([conn EXCEPT !.gap = FALSE, !.segs = @ + 1, !.phase = Reached,
                           !.unacked = 0, !.onPath = FALSE])

BulkArrives ==
    /\ conn.phase = "receiving" /\ ~conn.gap /\ conn.segs < Bulk
    /\ OnWire([conn EXCEPT !.segs = @ + Bulk])

-----------------------------------------------------------------------------
(* The run *)

Kernels == {"full", "short", "none"}

\* What can be read of the connection: everything, all but the counter older
\* kernels lack, or nothing.
Reading(kernel) ==
    IF kernel = "none" THEN Absent
    ELSE [state |-> conn.state, unacked |-> conn.unacked, retrans |-> conn.retrans,
          segs |-> conn.segs, ooo |-> IF kernel = "full" THEN conn.ooo ELSE Absent]

\* The next call of the script begins.
StartCall(gap, t) ==
    /\ pc = "idle" /\ Len(calls) < MaxCalls
    /\ now' = now + gap /\ began' = now' /\ since' = now'
    /\ target' = t /\ attempt' = 1
    /\ pc' = "exchange"
    /\ UNCHANGED <<conn, timeouts, calls, attribution, witness>>

EndCall(how, gap) ==
    /\ now' = now + gap
    /\ calls' = Append(calls, [outcome |-> how, startedAt |-> Stamp(began),
                               endedAt |-> Stamp(now'), target |-> target,
                               tries |-> attempt])
    /\ pc' = "idle" /\ conn' = Fresh
    /\ UNCHANGED <<target, began, since, attempt, timeouts, attribution, witness>>

\* The whole response is here.
CallSucceeds(gap) ==
    /\ pc = "exchange"
    /\ conn.asked /\ AllReceived /\ conn.phase \in {"awaiting_response", "receiving"}
    /\ EndCall("success", gap)

\* The executor closes the connection.
ExpireAt(record) ==
    /\ pc = "exchange"
    /\ now' = since + Timeout
    /\ timeouts' = timeouts \o record
    /\ pc' = "expired" /\ conn' = Fresh
    /\ UNCHANGED <<target, began, since, attempt, calls, attribution, witness>>

\* The attempt's timer expires where a hook sees it: on_timeout judges the
\* connection and appends a record.
TimerExpires(kernel) ==
    ExpireAt(<<[at |-> since + Timeout, verdict |-> verdict(conn.phase, Reading(kernel)),
                target |-> target, of |-> <<Len(calls) + 1, attempt>>]>>)

\* It expires while the body of a `Connection: close` response is read: no
\* request is on record (RunProgress, CloseEarly) and nothing is appended.
TimerExpiresUnseen ==
    /\ conn.phase = "receiving"
    /\ ExpireAt(<<>>)

Retry(gap) ==
    /\ pc = "expired" /\ attempt < MaxAttempts
    /\ now' = now + gap /\ since' = now'
    /\ attempt' = attempt + 1
    /\ pc' = "exchange"
    /\ UNCHANGED <<target, began, conn, timeouts, calls, attribution, witness>>

GiveUp(gap) ==
    /\ pc = "expired"
    /\ EndCall("timeout", gap)

-----------------------------------------------------------------------------
(* _attribute_call_timeouts *)

TimedOut == {c \in DOMAIN calls : calls[c].outcome = "timeout"}
NotObserved == [verdict |-> "unknown", target |-> Absent, of |-> Absent]

\* Where the records are that lie within the call's stamps, give or take the slack.
Own(c) == {i \in DOMAIN timeouts : /\ calls[c].startedAt <= timeouts[i].at + Slack
                                   /\ timeouts[i].at <= calls[c].endedAt + Slack}

\* Mutant of Judge: the first attempt is the one judged.
Judge_First(c) == IF Own(c) = {} THEN NotObserved ELSE timeouts[Min(Own(c))]

\* The last attempt is the one judged.
Judge(c) == IF Own(c) = {} THEN NotObserved ELSE timeouts[Max(Own(c))]

\* The first of _VERDICT_ORDER that some call was given.
RunVerdict ==
    LET given == {Judge(c).verdict : c \in TimedOut} IN
    IF "endpoint" \in given THEN "endpoint"
    ELSE IF "unknown" \in given THEN "unknown"
    ELSE IF "network" \in given THEN "network" ELSE "agent"

\* Mutant of ReachTarget: where the run's first timer expired.
ReachTarget_FirstRecord ==
    IF RunVerdict = "network" /\ timeouts # <<>> THEN timeouts[1].target ELSE Absent

\* What a second agent should try to reach, when the path is in question.
ReachTarget ==
    LET network == {c \in TimedOut : Judge(c).verdict = "network"} IN
    IF RunVerdict = "network" /\ network # {}
    THEN Judge(CHOOSE c \in network : \A d \in network : c <= d).target
    ELSE Absent

\* Mutant of AttributeCallTimeouts: a run without a timed-out call is judged.
AttributeCallTimeouts_Always ==
    /\ pc = "idle" /\ calls # <<>>
    /\ attribution' = [verdict |-> RunVerdict, target |-> ReachTarget,
                       calls |-> [c \in TimedOut |-> Judge(c)]]
    /\ pc' = "attributed"
    /\ UNCHANGED <<runVars, conn, witness>>

\* The run is over.
AttributeCallTimeouts ==
    /\ pc = "idle" /\ TimedOut # {}
    /\ attribution' = [verdict |-> RunVerdict, target |-> ReachTarget,
                       calls |-> [c \in TimedOut |-> Judge(c)]]
    /\ pc' = "attributed"
    /\ UNCHANGED <<runVars, conn, witness>>

-----------------------------------------------------------------------------
(* reach, on the second agent *)

WitnessIs(path, attempts, over) ==
    /\ witness' = [path |-> path, attempts |-> attempts, over |-> over]
    /\ pc' = "witness"
    /\ UNCHANGED <<runVars, conn, attribution>>

\* getaddrinfo: the name resolves, does not, or may not be dialled from here.
ReachResolve ==
    /\ pc = "attributed" /\ attribution.target # Absent
    /\ \/ WitnessIs("clean", <<>>, FALSE)
       \/ WitnessIs("unreachable", <<>>, TRUE)
       \/ WitnessIs("refused", <<>>, TRUE)

\* Mutant of ReachConnects: each attempt has the last word.
ReachConnects_LastWord(reading) ==
    /\ pc = "witness" /\ ~witness.over
    /\ LET tried == Append(witness.attempts, reading) IN
       WitnessIs(IF reading = "yes" THEN "lossy" ELSE "clean",
                 tried, Len(tried) = ReachAttempts)

\* An attempt connects: its reading shows loss, none, or cannot be made.
ReachConnects(reading) ==
    /\ pc = "witness" /\ ~witness.over
    /\ LET tried == Append(witness.attempts, reading) IN
       WitnessIs(IF reading = "yes" THEN "lossy" ELSE witness.path,
                 tried, Len(tried) = ReachAttempts)

\* The first attempt that fails ends it.
ReachFails ==
    /\ pc = "witness" /\ ~witness.over
    /\ WitnessIs("unreachable", Append(witness.attempts, "failed"), TRUE)

\* The egress policy refuses the address at connect.
ReachRefused ==
    /\ pc = "witness" /\ ~witness.over
    /\ WitnessIs("refused", witness.attempts, TRUE)

-----------------------------------------------------------------------------
Wire ==
    \/ Accept \/ ClientHello \/ SendHeaders \/ SendBody \/ Await
    \/ DataArrives \/ DataLost \/ AckLost \/ Retransmit
    \/ SegmentArrives \/ SegmentLost \/ SegmentOvertaken \/ GapFilled \/ BulkArrives

Run ==
    \/ \E gap \in Gaps : \/ \E t \in Targets : StartCall(gap, t)
                         \/ CallSucceeds(gap) \/ Retry(gap) \/ GiveUp(gap)
    \/ \E kernel \in Kernels : TimerExpires(kernel)
    \/ TimerExpiresUnseen
    \/ AttributeCallTimeouts

Witness ==
    \/ ReachResolve
    \/ \E reading \in {"yes", "no", "cannot_tell", "none"} : ReachConnects(reading)
    \/ ReachFails \/ ReachRefused

Next == Wire \/ Run \/ Witness

Spec == Init /\ [][Next]_vars

-----------------------------------------------------------------------------
(* Safety *)

\* "endpoint" is never said while something that left this host, a ClientHello
\* as much as a request, has not arrived at the peer (tcp_state.verdict: "the
\* peer has everything we sent"), whatever kernel reads it.
EndpointHasAllSent ==
    \A kernel \in Kernels :
        verdict(conn.phase, Reading(kernel)) = "endpoint" => conn.peerHas

\* Once connect() is behind, "network" is never said of a path that neither lost
\* a segment nor swapped them twice nor delayed one past the kernel's timer.
NetworkHasCause ==
    \A kernel \in Kernels :
        verdict(conn.phase, Reading(kernel)) = "network" =>
            \/ conn.phase = "connecting"
            \/ conn.lost \/ conn.overtaken >= 2 \/ conn.spurious

\* Where the call's own records are.
Records(c) == {i \in DOMAIN timeouts : timeouts[i].of[1] = c}

\* A call that timed out, and whose last attempt's expiry a hook saw, is judged
\* by the record of that attempt, never by another call's or an earlier one's
\* (_attribute_call_timeouts: "its last attempt is the one judged").  Nothing is said
\* of a call whose last attempt expired unseen: it falls to an earlier record.
JudgedByOwnLast ==
    attribution # Absent =>
        \A c \in TimedOut : \A i \in DOMAIN timeouts :
            timeouts[i].of = <<c, calls[c].tries>> => attribution.calls[c] = timeouts[i]

\* The second agent is sent to a target that a timed-out call failed to reach
\* by its own last record, provided every one of them was seen.
WitnessSentToFailed ==
    attribution # Absent /\ attribution.target # Absent
                         /\ (\A c \in TimedOut : Records(c) # {})
        => \E c \in TimedOut : /\ calls[c].target = attribution.target
                               /\ timeouts[Max(Records(c))].verdict = "network"

\* Only a witness whose every attempt connected, none of them showing loss,
\* clears the endpoint (reach: "Only `clean` clears the endpoint").
CleanNeedsEveryAttempt ==
    witness.over /\ witness.path = "clean" =>
        /\ Len(witness.attempts) = ReachAttempts
        /\ \A i \in DOMAIN witness.attempts : witness.attempts[i] \notin {"yes", "failed"}

-----------------------------------------------------------------------------
(* A statement of a docstring that the code does not keep. *)

\* "A timed-out call with no record (the timer expired somewhere not hooked)
\* is `unknown`."
UnrecordedIsUnknown ==
    attribution # Absent =>
        \A c \in TimedOut : Records(c) = {} => attribution.calls[c].verdict = "unknown"
=================================================================================
