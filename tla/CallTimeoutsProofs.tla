--------------------------- MODULE CallTimeoutsProofs ---------------------------
(***************************************************************************)
(* Theorems about CallTimeouts, for any number of calls, attempts,         *)
(* segments and witness attempts, any timer and any kernel thresholds.     *)
(* Independent invariants: one ties the kernel's counters to where what    *)
(* was sent really is and to what the path did (Connected), one the        *)
(* witness's verdict to the attempts behind it, one lays records and calls *)
(* on the line of time (Timeline), and one keeps the attempts of a call in *)
(* order (AttemptsInOrder): with them, what the run is told is of those    *)
(* whose timers expired.                                                   *)
(***************************************************************************)
EXTENDS CallTimeouts, WellFoundedInduction, TLAPS

Connections ==
    [phase : WirePhases, state : {"syn_sent", "established"}, unacked : {0, 1},
     retrans : {0, 1}, segs : Nat, ooo : Nat, onPath : BOOLEAN, peerHas : BOOLEAN,
     sent : Nat, gap : BOOLEAN, asked : BOOLEAN, lost : BOOLEAN, overtaken : Nat,
     spurious : BOOLEAN]

\* A connection is accepted before it leaves its first phase, data is owed only
\* by a peer that answers, and the counters stay in bounds.
Shaped ==
    /\ conn \in Connections
    /\ conn.state = "syn_sent" => conn.phase = "connecting" /\ ~conn.asked
    /\ conn.gap => Answering
    /\ conn.sent <= Segments /\ conn.ooo <= conn.segs

\* Nothing unacknowledged means that all of it has arrived.
Acknowledged == conn.unacked = 0 => conn.peerHas

\* What the counters show of loss has a cause on the path.
Caused ==
    /\ conn.retrans > 0 => conn.lost \/ conn.spurious
    /\ ~conn.lost => /\ conn.unacked > 0 => conn.onPath
                     /\ ~conn.gap /\ conn.ooo = conn.overtaken

Connected == Shaped /\ Acknowledged /\ Caused

\* Every step of the wire keeps it.
LEMMA WireStep ==
    ASSUME Connected, Wire
    PROVE  Connected'
<1> USE SizeAssumption DEF Connected, Shaped, Connections, WirePhases, Answering
<1>0. /\ conn.sent + 1 \in Nat /\ conn.sent + 2 \in Nat
      /\ conn.segs + 1 \in Nat /\ conn.segs + 2 \in Nat /\ conn.segs + Bulk \in Nat
      /\ conn.ooo + 1 \in Nat /\ conn.overtaken + 1 \in Nat
  OBVIOUS
<1>1. CASE Accept
  <2>1. conn' = [conn EXCEPT !.state = "established", !.unacked = 0, !.onPath = FALSE,
                             !.peerHas = TRUE]
    BY <1>1 DEF Accept, OnWire
  <2>2. conn' \in Connections
    BY <1>0, <2>1
  <2>3. Shaped' /\ Acknowledged'
    BY <2>1, <2>2 DEF Acknowledged
  <2>4. Caused'
    BY <2>1, <2>2 DEF Acknowledged, Caused
  <2> QED
    BY <2>3, <2>4
<1>2. CASE ClientHello
  <2>1. /\ conn' = [conn EXCEPT !.phase = "tls_handshake", !.asked = FALSE, !.unacked = 1,
                                !.onPath = @ \/ conn.peerHas, !.peerHas = FALSE, !.sent = 0]
        /\ conn.state = "established" /\ conn.phase = "connecting"
    BY <1>2 DEF ClientHello, Send, OnWire
  <2>2. conn' \in Connections
    BY <1>0, <2>1
  <2>3. Shaped' /\ Acknowledged'
    BY <2>1, <2>2 DEF Acknowledged
  <2>4. Caused'
    BY <2>1, <2>2 DEF Acknowledged, Caused
  <2> QED
    BY <2>3, <2>4
<1>3. CASE SendHeaders
  <2>1. /\ conn' = [conn EXCEPT !.phase = conn.phase, !.asked = TRUE, !.unacked = 1,
                                !.onPath = @ \/ conn.peerHas, !.peerHas = FALSE, !.sent = 0]
        /\ conn.state = "established" /\ (conn.phase = "tls_handshake" => ~conn.gap)
        /\ conn.phase \in {"connecting", "tls_handshake"}
    BY <1>3 DEF SendHeaders, Send, AllReceived, OnWire
  <2>2. conn' \in Connections
    BY <1>0, <2>1
  <2>3. Shaped' /\ Acknowledged'
    BY <2>1, <2>2 DEF Acknowledged
  <2>4. Caused'
    BY <2>1, <2>2 DEF Acknowledged, Caused
  <2> QED
    BY <2>3, <2>4
<1>4. CASE SendBody
  <2>1. /\ conn' = [conn EXCEPT !.phase = "sending", !.asked = TRUE, !.unacked = 1,
                                !.onPath = @ \/ conn.peerHas, !.peerHas = FALSE, !.sent = 0]
        /\ conn.asked /\ conn.phase \in {"connecting", "tls_handshake"}
    BY <1>4 DEF SendBody, Send, OnWire
  <2>2. conn' \in Connections
    BY <1>0, <2>1
  <2>3. Shaped' /\ Acknowledged'
    BY <2>1, <2>2 DEF Acknowledged
  <2>4. Caused'
    BY <2>1, <2>2 DEF Acknowledged, Caused
  <2> QED
    BY <2>3, <2>4
<1>5. CASE Await
  <2>1. /\ conn' = [conn EXCEPT !.phase = "awaiting_response"]
        /\ conn.asked /\ conn.phase \in {"connecting", "tls_handshake", "sending"}
    BY <1>5 DEF Await, OnWire
  <2>2. conn' \in Connections
    BY <1>0, <2>1
  <2>3. Shaped' /\ Acknowledged'
    BY <2>1, <2>2 DEF Acknowledged
  <2>4. Caused'
    BY <2>1, <2>2 DEF Acknowledged, Caused
  <2> QED
    BY <2>3, <2>4
<1>6. CASE DataArrives
  <2>1. conn' = [conn EXCEPT !.onPath = FALSE, !.peerHas = TRUE, !.unacked = 0]
    BY <1>6 DEF DataArrives, OnWire
  <2>2. conn' \in Connections
    BY <1>0, <2>1
  <2>3. Shaped' /\ Acknowledged'
    BY <2>1, <2>2 DEF Acknowledged
  <2>4. Caused'
    BY <2>1, <2>2 DEF Acknowledged, Caused
  <2> QED
    BY <2>3, <2>4
<1>7. CASE DataLost
  <2>1. conn' = [conn EXCEPT !.onPath = FALSE, !.lost = TRUE]
    BY <1>7 DEF DataLost, OnWire
  <2>2. conn' \in Connections
    BY <1>0, <2>1
  <2>3. Shaped' /\ Acknowledged'
    BY <2>1, <2>2 DEF Acknowledged
  <2>4. Caused'
    BY <2>1, <2>2 DEF Acknowledged, Caused
  <2> QED
    BY <2>3, <2>4
<1>8. CASE AckLost
  <2>1. conn' = [conn EXCEPT !.onPath = FALSE, !.peerHas = TRUE, !.lost = TRUE]
    BY <1>8 DEF AckLost, OnWire
  <2>2. conn' \in Connections
    BY <1>0, <2>1
  <2>3. Shaped' /\ Acknowledged'
    BY <2>1, <2>2 DEF Acknowledged
  <2>4. Caused'
    BY <2>1, <2>2 DEF Acknowledged, Caused
  <2> QED
    BY <2>3, <2>4
<1>9. CASE Retransmit
  <2>1. /\ conn' = [conn EXCEPT !.onPath = TRUE, !.retrans = 1, !.spurious = @ \/ conn.onPath]
        /\ conn.unacked = 1
    BY <1>9 DEF Retransmit, OnWire
  <2>2. conn' \in Connections
    BY <1>0, <2>1
  <2>3. Shaped' /\ Acknowledged'
    BY <2>1, <2>2 DEF Acknowledged
  <2>4. Caused'
    BY <2>1, <2>2 DEF Acknowledged, Caused
  <2> QED
    BY <2>3, <2>4
<1>10. CASE SegmentArrives
  <2>1. /\ conn' = [conn EXCEPT !.sent = @ + 1, !.segs = @ + 1,
                                !.ooo = IF conn.gap THEN @ + 1 ELSE @,
                                !.phase = IF conn.gap THEN @ ELSE Reached,
                                !.unacked = 0, !.onPath = FALSE]
        /\ Answering /\ conn.sent < Segments
    BY <1>10 DEF SegmentArrives, OnWire
  <2>2. /\ Reached \in {"receiving", conn.phase}
        /\ Reached = "receiving" <=> conn.asked \/ conn.phase = "receiving"
    BY <2>1 DEF Reached
  <2>3. conn' \in Connections
    BY <1>0, <2>1, <2>2
  <2>4. Shaped' /\ Acknowledged'
    BY <2>1, <2>2, <2>3 DEF Acknowledged
  <2>5. Caused'
    BY <2>1, <2>3 DEF Caused
  <2> QED
    BY <2>4, <2>5
<1>11. CASE SegmentLost
  <2>1. /\ conn' = [conn EXCEPT !.sent = @ + 1, !.gap = TRUE, !.lost = TRUE]
        /\ Answering /\ conn.sent < Segments
    BY <1>11 DEF SegmentLost, OnWire
  <2>2. conn' \in Connections
    BY <1>0, <2>1
  <2>3. Shaped' /\ Acknowledged'
    BY <2>1, <2>2 DEF Acknowledged
  <2>4. Caused'
    BY <2>1, <2>2 DEF Acknowledged, Caused
  <2> QED
    BY <2>3, <2>4
<1>12. CASE SegmentOvertaken
  <2>1. /\ conn' = [conn EXCEPT !.sent = @ + 2, !.segs = @ + 2, !.ooo = @ + 1,
                                !.overtaken = @ + 1, !.phase = Reached,
                                !.unacked = 0, !.onPath = FALSE]
        /\ Answering /\ conn.sent + 1 < Segments /\ ~conn.gap
    BY <1>12 DEF SegmentOvertaken, OnWire
  <2>2. /\ Reached \in {"receiving", conn.phase}
        /\ Reached = "receiving" <=> conn.asked \/ conn.phase = "receiving"
    BY <2>1 DEF Reached
  <2>3. conn' \in Connections
    BY <1>0, <2>1, <2>2
  <2>4. Shaped' /\ Acknowledged'
    BY <2>1, <2>2, <2>3 DEF Acknowledged
  <2>5. Caused'
    BY <2>1, <2>3 DEF Caused
  <2> QED
    BY <2>4, <2>5
<1>13. CASE GapFilled
  <2>1. /\ conn' = [conn EXCEPT !.gap = FALSE, !.segs = @ + 1, !.phase = Reached,
                                !.unacked = 0, !.onPath = FALSE]
        /\ conn.gap /\ Answering
    BY <1>13 DEF GapFilled, OnWire
  <2>2. /\ Reached \in {"receiving", conn.phase}
        /\ Reached = "receiving" <=> conn.asked \/ conn.phase = "receiving"
    BY <2>1 DEF Reached
  <2>3. conn' \in Connections
    BY <1>0, <2>1, <2>2
  <2>4. Shaped' /\ Acknowledged'
    BY <2>1, <2>2, <2>3 DEF Acknowledged
  <2>5. Caused'
    BY <2>1, <2>3 DEF Caused
  <2> QED
    BY <2>4, <2>5
<1>14. CASE BulkArrives
  <2>1. conn' = [conn EXCEPT !.segs = @ + Bulk]
    BY <1>14 DEF BulkArrives, OnWire
  <2>2. conn' \in Connections
    BY <1>0, <2>1
  <2>3. Shaped' /\ Acknowledged'
    BY <2>1, <2>2 DEF Acknowledged
  <2>4. Caused'
    BY <2>1, <2>2 DEF Acknowledged, Caused
  <2> QED
    BY <2>3, <2>4
<1> QED
  BY <1>1, <1>2, <1>3, <1>4, <1>5, <1>6, <1>7, <1>8, <1>9, <1>10, <1>11, <1>12, <1>13,
     <1>14 DEF Wire

\* A connection that was only just opened has nothing to show.
LEMMA FreshConnected == conn = Fresh => Connected
  BY SizeAssumption DEF Fresh, Connected, Shaped, Acknowledged, Caused, Connections,
                        WirePhases, Answering

\* Outside the wire's steps a connection is left alone or closed.
LEMMA ConnElsewhere ==
    ASSUME Run \/ Witness \/ UNCHANGED vars
    PROVE  conn' = conn \/ conn' = Fresh
<1>1. CASE Run
  BY <1>1 DEF Run, StartCall, CallSucceeds, EndCall, Retry, GiveUp, TimerExpires,
             TimerExpiresUnseen, ExpireAt, AttributeCallTimeouts
<1>2. CASE Witness
  BY <1>2 DEF Witness, ReachResolve, ReachConnects, ReachFails, ReachRefused, WitnessIs
<1>3. CASE UNCHANGED vars
  BY <1>3 DEF vars
<1> QED
  BY <1>1, <1>2, <1>3

\* So it holds of every connection.
LEMMA ConnectedInvariant == Spec => []Connected
<1>1. Init => Connected
  BY FreshConnected DEF Init
<1>2. Connected /\ [Next]_vars => Connected'
  <2> SUFFICES ASSUME Connected, [Next]_vars PROVE Connected'
    OBVIOUS
  <2>1. CASE Wire
    BY <2>1, WireStep
  <2>2. CASE Run \/ Witness \/ UNCHANGED vars
    <3>1. conn' = conn \/ conn' = Fresh
      BY <2>2, ConnElsewhere
    <3>2. CASE conn' = conn
      BY <3>2 DEF Connected, Shaped, Acknowledged, Caused, Answering
    <3>3. CASE conn' = Fresh
      BY <3>3, SizeAssumption DEF Fresh, Connected, Shaped, Acknowledged, Caused,
                                  Connections, WirePhases, Answering
    <3> QED
      BY <3>1, <3>2, <3>3
  <2> QED
    BY <2>1, <2>2 DEF Next
<1> QED
  BY <1>1, <1>2, PTL DEF Spec

\* tcp_state.verdict: "the peer has everything we sent", through the handshakes and
\* the request, for every kernel.
THEOREM EndpointSound == Spec => []EndpointHasAllSent
<1>1. Connected => EndpointHasAllSent
  <2> SUFFICES ASSUME Connected, NEW kernel \in Kernels,
                      verdict(conn.phase, Reading(kernel)) = "endpoint"
               PROVE  conn.peerHas
    BY DEF EndpointHasAllSent
  <2>1. Reading(kernel) # Absent /\ ~(Reading(kernel).unacked > 0)
    BY DEF verdict
  <2>2. Reading(kernel).unacked = conn.unacked
    BY <2>1 DEF Reading
  <2>3. conn.unacked = 0
    BY <2>1, <2>2 DEF Connected, Shaped, Connections
  <2> QED
    BY <2>3 DEF Connected, Acknowledged
<1> QED
  BY <1>1, ConnectedInvariant, PTL

\* tcp_state.verdict: with a threshold of two segments, or more, out of order, a
\* stall past the first phase is put down to the network only if the path did lose
\* a segment, swap them twice or delay one past the timer, for every kernel.
THEOREM NetworkSound == OooMin >= 2 => (Spec => []NetworkHasCause)
<1> SUFFICES ASSUME OooMin >= 2 PROVE Spec => []NetworkHasCause
  OBVIOUS
<1>1. Connected => NetworkHasCause
  <2> SUFFICES ASSUME Connected, NEW kernel \in Kernels,
                      verdict(conn.phase, Reading(kernel)) = "network",
                      conn.phase # "connecting", ~conn.lost, ~conn.spurious
               PROVE  conn.overtaken >= 2
    BY DEF NetworkHasCause
  <2>1. /\ conn.retrans = 0 /\ conn.ooo = conn.overtaken /\ conn.state # "syn_sent"
        /\ conn.phase \notin AgentPhases /\ conn.phase # "resolving"
    BY DEF Connected, Shaped, Caused, Connections, AgentPhases, WirePhases
  <2>2. Reading(kernel) # Absent
    BY <2>1 DEF verdict
  <2>3. /\ Reading(kernel).state = conn.state /\ Reading(kernel).retrans = 0
        /\ Reading(kernel).ooo \in {conn.ooo, Absent}
    BY <2>1, <2>2 DEF Reading
  <2>4. lossy(Reading(kernel)) = "yes"
    BY <2>1, <2>3 DEF verdict
  <2>5. Reading(kernel).ooo # Absent /\ Reading(kernel).ooo >= OooMin
    BY <2>3, <2>4 DEF lossy, OutOfOrder
  <2> QED
    BY <2>1, <2>3, <2>5, OooAssumption DEF Connected, Shaped, Connections
<1> QED
  BY <1>1, ConnectedInvariant, PTL

-----------------------------------------------------------------------------
Shown == {"yes", "no", "cannot_tell", "none", "failed"}

\* A witness that still calls the path clean has seen no attempt that is not.
WitnessedSoFar ==
    /\ witness.attempts \in Seq(Shown)
    /\ witness.path = "clean" =>
          /\ \A i \in DOMAIN witness.attempts : witness.attempts[i] \notin {"yes", "failed"}
          /\ witness.over => Len(witness.attempts) = ReachAttempts

\* Each attempt of the witness keeps what it has shown so far in step with the path.
LEMMA WitnessStep ==
    ASSUME WitnessedSoFar, Witness
    PROVE  WitnessedSoFar'
<1> USE DEF WitnessedSoFar, WitnessIs, Shown
<1>1. CASE ReachResolve
  <2>1. witness'.attempts = <<>> /\ (witness'.path = "clean" => ~witness'.over)
    BY <1>1 DEF ReachResolve
  <2> QED
    BY <2>1
<1>2. ASSUME NEW reading \in {"yes", "no", "cannot_tell", "none"}, ReachConnects(reading)
      PROVE  WitnessedSoFar'
  <2> DEFINE tried == Append(witness.attempts, reading)
  <2>1. /\ witness'.attempts = tried
        /\ witness'.path = IF reading = "yes" THEN "lossy" ELSE witness.path
        /\ witness'.over = (Len(tried) = ReachAttempts)
    BY <1>2 DEF ReachConnects
  <2>2. /\ tried \in Seq(Shown)
        /\ \A i \in DOMAIN tried :
              \/ tried[i] = reading
              \/ (i \in DOMAIN witness.attempts /\ tried[i] = witness.attempts[i])
    <3>1. tried \in Seq(Shown)
      OBVIOUS
    <3>2. DOMAIN tried = 1..(Len(witness.attempts) + 1)
      OBVIOUS
    <3>3. DOMAIN witness.attempts = 1..Len(witness.attempts) /\ Len(witness.attempts) \in Nat
      OBVIOUS
    <3>4. ASSUME NEW i \in 1..(Len(witness.attempts) + 1)
          PROVE  tried[i] = IF i <= Len(witness.attempts) THEN witness.attempts[i] ELSE reading
      OBVIOUS
    <3> HIDE DEF tried
    <3> QED
      BY <3>1, <3>2, <3>3, <3>4
  <2> HIDE DEF tried
  <2> QED
    BY <2>1, <2>2
<1>3. CASE ReachFails
  BY <1>3 DEF ReachFails
<1>4. CASE ReachRefused
  BY <1>4 DEF ReachRefused
<1> QED
  BY <1>1, <1>2, <1>3, <1>4 DEF Witness

\* The run of the first agent does not touch it.
LEMMA WitnessElsewhere ==
    ASSUME Wire \/ Run \/ UNCHANGED vars
    PROVE  witness' = witness
<1>1. CASE Wire
  BY <1>1 DEF Wire, OnWire, Send, Accept, ClientHello, SendHeaders, SendBody,
             Await, DataArrives, DataLost, AckLost, Retransmit, SegmentArrives,
             SegmentLost, SegmentOvertaken, GapFilled, BulkArrives
<1>2. CASE Run
  BY <1>2 DEF Run, StartCall, CallSucceeds, EndCall, Retry, GiveUp, TimerExpires,
             TimerExpiresUnseen, ExpireAt, AttributeCallTimeouts, runVars
<1>3. CASE UNCHANGED vars
  BY <1>3 DEF vars
<1> QED
  BY <1>1, <1>2, <1>3

\* reach: "Only `clean` clears the endpoint", and clean is said of every attempt.
THEOREM CleanSound == Spec => []CleanNeedsEveryAttempt
<1>1. Init => WitnessedSoFar
  BY DEF Init, WitnessedSoFar
<1>2. WitnessedSoFar /\ [Next]_vars => WitnessedSoFar'
  <2> SUFFICES ASSUME WitnessedSoFar, [Next]_vars PROVE WitnessedSoFar'
    OBVIOUS
  <2>1. CASE Witness
    BY <2>1, WitnessStep
  <2>2. CASE Wire \/ Run \/ UNCHANGED vars
    BY <2>2, WitnessElsewhere DEF WitnessedSoFar
  <2> QED
    BY <2>1, <2>2 DEF Next
<1>3. WitnessedSoFar => CleanNeedsEveryAttempt
  BY DEF WitnessedSoFar, CleanNeedsEveryAttempt
<1> QED
  BY <1>1, <1>2, <1>3, PTL DEF Spec

-----------------------------------------------------------------------------
(* Positions and time stamps *)

\* A set of naturals that is not empty has a least element.
LEMMA LeastNat ==
    ASSUME NEW S, S \subseteq Nat, S # {}
    PROVE  \E x \in S : \A y \in S : x <= y
<1> DEFINE R == {p \in Nat \X Nat : p[1] < p[2]}
<1>1. R = OpToRel(<, Nat)
  BY DEF OpToRel
<1>2. IsWellFoundedOn(R, Nat)
  BY <1>1, NatLessThanWellFounded
<1>3. PICK x \in S : \A y \in S : ~ (<<y, x>> \in R)
  BY <1>2, WFMin
<1>4. ASSUME NEW y \in Nat, NEW z \in Nat, y < z PROVE <<y, z>> \in R
  BY <1>4
<1> HIDE DEF R
<1>5. ASSUME NEW y \in S PROVE x <= y
  <2>1. x \in Nat /\ y \in Nat
    OBVIOUS
  <2>2. ~ (y < x)
    BY <1>3, <1>4, <2>1
  <2> QED
    BY <2>1, <2>2
<1> QED
  BY <1>5

\* A set of positions that is not empty has a last one, and Max is it.
LEMMA LastPosition ==
    ASSUME NEW n \in Nat, NEW S \in SUBSET (1..n), S # {}
    PROVE  Max(S) \in S /\ \A i \in S : i <= Max(S)
<1> DEFINE Back == {n - i : i \in S}
<1>1. Back \subseteq Nat /\ Back # {}
  <2>1. \A i \in S : n - i \in Nat
    OBVIOUS
  <2> QED
    BY <2>1
<1>2. PICK b \in Back : \A y \in Back : b <= y
  BY <1>1, LeastNat
<1>3. PICK m \in S : b = n - m
  OBVIOUS
<1>4. ASSUME NEW i \in S PROVE m >= i
  <2>1. b <= n - i
    BY <1>2
  <2> QED
    BY <1>3, <2>1
<1> HIDE DEF Back
<1>5. \E x \in S : \A y \in S : x >= y
  BY <1>4
<1>6. Max(S) \in S /\ \A y \in S : Max(S) >= y
  BY <1>5 DEF Max
<1> QED
  BY <1>6

\* What cutting a time to milliseconds does: it stays below, and near.
LEMMA StampNear ==
    ASSUME NEW t \in Nat
    PROVE  Stamp(t) \in Nat /\ Stamp(t) <= t /\ t <= Stamp(t) + Slack
<1>1. /\ t % Granularity \in 0..(Granularity - 1)
      /\ t % Granularity <= t
  BY TimeAssumption
<1> QED
  BY <1>1, TimeAssumption DEF Stamp

\* It keeps the order of two times.
LEMMA StampKeepsOrder ==
    ASSUME NEW t \in Nat, NEW u \in Nat, t <= u
    PROVE  Stamp(t) <= Stamp(u)
<1> DEFINE G == Granularity  a == t \div G  b == u \div G
<1>1. /\ G \in Nat \ {0} /\ a \in Nat /\ b \in Nat
      /\ t = (G * a) + (t % G) /\ u = (G * b) + (u % G)
      /\ t % G \in 0..(G - 1) /\ u % G \in 0..(G - 1)
  BY TimeAssumption
<1>2. Stamp(t) = G * a /\ Stamp(u) = G * b
  BY <1>1 DEF Stamp
<1>3. a <= b
  <2> SUFFICES ASSUME b + 1 <= a PROVE FALSE
    BY <1>1
  <2>1. G * (b + 1) <= G * a
    BY <1>1
  <2>2. G * (b + 1) = G * b + G
    BY <1>1
  <2> QED
    BY <1>1, <2>1, <2>2
<1> QED
  BY <1>1, <1>2, <1>3

-----------------------------------------------------------------------------
(* Whose records they are.  The inductive invariant says where every record *)
(* lies in time: within its own call's window and, by more than the slack,  *)
(* after every earlier call's.                                              *)

RecordSet == [at : Nat, verdict : Verdicts \ {"agent"}, target : Targets, of : Nat \X Nat]
CallSet == [outcome : {"success", "timeout"}, startedAt : Nat, endedAt : Nat, target : Targets,
            tries : Nat]

InCall == pc \in {"exchange", "expired"}

\* The calls that have been begun, the one under way included.
Begun == IF InCall THEN Len(calls) + 1 ELSE Len(calls)

ClockOK ==
    /\ now \in Nat /\ began \in 0..now /\ since \in began..now
    /\ pc \in {"idle", "exchange", "expired", "attributed", "witness"}
    /\ target \in Targets /\ attempt \in 1..MaxAttempts
    /\ timeouts \in Seq(RecordSet) /\ calls \in Seq(CallSet)
    /\ pc = "exchange" => now = since

\* The calls follow one another.
CallsInOrder ==
    \A c \in DOMAIN calls : /\ calls[c].startedAt <= calls[c].endedAt
                            /\ calls[c].endedAt <= now
                            /\ InCall => calls[c].endedAt <= began

\* A record of call c lies in that call's window, at that call's target.
RecordPlaced(t, c) ==
    IF c \in DOMAIN calls
    THEN /\ calls[c].startedAt <= t.at /\ t.at <= calls[c].endedAt + Slack
         /\ t.target = calls[c].target
    ELSE began <= t.at /\ t.target = target

\* And after the windows of all calls before it.
RecordApart(t) == \A c \in DOMAIN calls : c < t.of[1] => calls[c].endedAt + Slack < t.at

RecordsPlaced ==
    \A i \in DOMAIN timeouts : /\ timeouts[i].at <= now
                               /\ timeouts[i].of[1] \in 1..Begun
                               /\ RecordPlaced(timeouts[i], timeouts[i].of[1])
                               /\ RecordApart(timeouts[i])

RecordsInOrder ==
    \A i, j \in DOMAIN timeouts : i <= j => timeouts[i].of[1] <= timeouts[j].of[1]

Timeline == ClockOK /\ CallsInOrder /\ RecordsPlaced /\ RecordsInOrder

\* What the run was told is what its calls and records still say.
Told ==
    attribution # Absent =>
        /\ pc \in {"attributed", "witness"} /\ TimedOut # {}
        /\ attribution = [verdict |-> RunVerdict, target |-> ReachTarget,
                          calls |-> [c \in TimedOut |-> Judge(c)]]

\* What a record and a call hold.
LEMMA Fields ==
    ASSUME ClockOK
    PROVE  /\ \A i \in DOMAIN timeouts :
                 /\ timeouts[i].at \in Nat /\ timeouts[i].of[1] \in Nat
                 /\ timeouts[i].verdict \in Verdicts \ {"agent"}
           /\ \A c \in DOMAIN calls :
                 /\ calls[c].startedAt \in Nat /\ calls[c].endedAt \in Nat
                 /\ calls[c].outcome \in {"success", "timeout"}
           /\ DOMAIN timeouts = 1..Len(timeouts) /\ Len(timeouts) \in Nat
           /\ DOMAIN calls = 1..Len(calls) /\ Len(calls) \in Nat
<1>1. timeouts \in Seq(RecordSet) /\ calls \in Seq(CallSet)
  BY DEF ClockOK
<1>2. \A i \in DOMAIN timeouts : timeouts[i] \in RecordSet
  BY <1>1
<1>3. \A c \in DOMAIN calls : calls[c] \in CallSet
  BY <1>1
<1>4. \A t \in RecordSet : t.at \in Nat /\ t.of[1] \in Nat /\ t.verdict \in Verdicts \ {"agent"}
  BY DEF RecordSet
<1>5. \A c \in CallSet : /\ c.startedAt \in Nat /\ c.endedAt \in Nat
                         /\ c.outcome \in {"success", "timeout"}
  BY DEF CallSet
<1> QED
  BY <1>1, <1>2, <1>3, <1>4, <1>5

\* Nothing has happened yet.
LEMMA TimelineInit == Init => Timeline
<1> SUFFICES ASSUME Init PROVE Timeline
  OBVIOUS
<1>1. ClockOK
  BY SizeAssumption DEF Init, ClockOK
<1>2. timeouts = <<>> /\ calls = <<>>
  BY DEF Init
<1> QED
  BY <1>1, <1>2 DEF Timeline, CallsInOrder, RecordsPlaced, RecordsInOrder

\* A step that leaves the run alone, or only reports on it, keeps the timeline.
LEMMA TimelineKept ==
    ASSUME Timeline, UNCHANGED runVars, InCall' = InCall,
           pc' = pc \/ pc' \in {"attributed", "witness"}
    PROVE  Timeline'
<1>1. /\ now' = now /\ began' = began /\ since' = since /\ target' = target
      /\ attempt' = attempt /\ timeouts' = timeouts /\ calls' = calls
  BY DEF runVars
<1>2. ClockOK'
  BY <1>1 DEF Timeline, ClockOK
<1>3. CallsInOrder' /\ RecordsInOrder'
  BY <1>1 DEF Timeline, CallsInOrder, RecordsInOrder
<1>4. RecordsPlaced'
  <2>1. Begun' = Begun
    BY <1>1 DEF Begun
  <2>2. \A i \in DOMAIN timeouts :
           /\ RecordPlaced(timeouts[i], timeouts[i].of[1])'
                 = RecordPlaced(timeouts[i], timeouts[i].of[1])
           /\ RecordApart(timeouts[i])' = RecordApart(timeouts[i])
    BY <1>1 DEF RecordPlaced, RecordApart
  <2> QED
    BY <1>1, <2>1, <2>2 DEF Timeline, RecordsPlaced
<1> QED
  BY <1>2, <1>3, <1>4 DEF Timeline

\* The next call begins after all that ended.
LEMMA StartStep ==
    ASSUME Timeline, NEW gap \in Gaps, NEW t \in Targets, StartCall(gap, t)
    PROVE  Timeline'
<1>1. /\ pc = "idle" /\ now' = now + gap /\ began' = now' /\ since' = now'
      /\ target' = t /\ attempt' = 1 /\ pc' = "exchange"
      /\ timeouts' = timeouts /\ calls' = calls
  BY DEF StartCall
<1>2. /\ now \in Nat /\ now' \in Nat /\ now <= now' /\ Len(calls) \in Nat
      /\ calls \in Seq(CallSet) /\ timeouts \in Seq(RecordSet)
  BY <1>1, TimeAssumption DEF Timeline, ClockOK
<1>3. ClockOK'
  BY <1>1, <1>2, SizeAssumption DEF Timeline, ClockOK
<1>4. \A c \in DOMAIN calls : calls[c].endedAt \in Nat
  BY Fields DEF Timeline
<1>5. CallsInOrder'
  BY <1>1, <1>2, <1>4 DEF Timeline, CallsInOrder
<1>6. RecordsInOrder'
  BY <1>1 DEF Timeline, RecordsInOrder
<1>7. RecordsPlaced'
  <2> SUFFICES ASSUME NEW i \in DOMAIN timeouts
               PROVE  /\ timeouts[i].at <= now'
                      /\ timeouts[i].of[1] \in 1..Begun'
                      /\ RecordPlaced(timeouts[i], timeouts[i].of[1])'
                      /\ RecordApart(timeouts[i])'
    BY <1>1 DEF RecordsPlaced
  <2>1. /\ timeouts[i].at <= now /\ timeouts[i].at \in Nat
        /\ timeouts[i].of[1] \in 1..Len(calls)
        /\ RecordPlaced(timeouts[i], timeouts[i].of[1])
        /\ RecordApart(timeouts[i])
    BY <1>1, <1>2, Fields DEF Timeline, RecordsPlaced, Begun, InCall
  <2>2. timeouts[i].of[1] \in DOMAIN calls
    BY <1>2, <2>1
  <2>3. RecordPlaced(timeouts[i], timeouts[i].of[1])' /\ RecordApart(timeouts[i])'
    BY <1>1, <2>1, <2>2 DEF RecordPlaced, RecordApart
  <2>4. timeouts[i].of[1] \in 1..Begun'
    BY <1>1, <1>2, <2>1 DEF Begun, InCall
  <2> QED
    BY <1>2, <2>1, <2>3, <2>4
<1> QED
  BY <1>3, <1>5, <1>6, <1>7 DEF Timeline

\* What appending to a sequence does.
LEMMA Appended ==
    ASSUME NEW S, NEW s \in Seq(S), NEW x \in S
    PROVE  /\ Append(s, x) \in Seq(S) /\ s \o <<x>> = Append(s, x)
           /\ Len(s) \in Nat /\ Len(Append(s, x)) = Len(s) + 1
           /\ DOMAIN s = 1..Len(s) /\ DOMAIN Append(s, x) = 1..(Len(s) + 1)
           /\ \A i \in DOMAIN s : Append(s, x)[i] = s[i]
           /\ Append(s, x)[Len(s) + 1] = x
  OBVIOUS

\* A call ends with its records inside its window.
LEMMA EndStep ==
    ASSUME Timeline, InCall, NEW how \in {"success", "timeout"}, NEW gap \in Gaps,
           EndCall(how, gap)
    PROVE  Timeline'
<1> DEFINE new == [outcome |-> how, startedAt |-> Stamp(began),
                   endedAt |-> Stamp(now'), target |-> target, tries |-> attempt]
           n == Len(calls)
<1>1. /\ now' = now + gap /\ calls' = Append(calls, new) /\ pc' = "idle"
      /\ target' = target /\ began' = began /\ since' = since /\ attempt' = attempt
      /\ timeouts' = timeouts
  BY DEF EndCall
<1>2. /\ now \in Nat /\ began \in Nat /\ since \in Nat
      /\ now' \in Nat /\ began <= since /\ since <= now /\ now <= now'
      /\ calls \in Seq(CallSet) /\ timeouts \in Seq(RecordSet) /\ target \in Targets
      /\ attempt \in Nat
  BY <1>1, TimeAssumption, SizeAssumption DEF Timeline, ClockOK
<1>3. /\ Stamp(began) \in Nat /\ Stamp(now') \in Nat /\ Stamp(began) <= Stamp(now')
      /\ Stamp(began) <= began /\ Stamp(now') <= now' /\ now' <= Stamp(now') + Slack
  <2>1. began <= now'
    BY <1>2
  <2>2. Stamp(began) <= Stamp(now')
    BY <1>2, <2>1, StampKeepsOrder
  <2>3. Stamp(began) \in Nat /\ Stamp(began) <= began
    BY <1>2, StampNear
  <2>4. Stamp(now') \in Nat /\ Stamp(now') <= now' /\ now' <= Stamp(now') + Slack
    BY <1>2, StampNear
  <2> QED
    BY <2>2, <2>3, <2>4
<1>4. new \in CallSet
  BY <1>2, <1>3 DEF CallSet
<1>5. /\ new.startedAt = Stamp(began) /\ new.endedAt = Stamp(now') /\ new.target = target
  OBVIOUS
<1> HIDE DEF new
<1>6. /\ calls' \in Seq(CallSet) /\ n \in Nat /\ Len(calls') = n + 1
      /\ DOMAIN calls = 1..n /\ DOMAIN calls' = 1..(n + 1)
      /\ \A c \in 1..n : calls'[c] = calls[c]
      /\ calls'[n + 1] = new
  BY <1>1, <1>2, <1>4, Appended
<1>7. ClockOK'
  BY <1>1, <1>2, <1>6 DEF Timeline, ClockOK
<1>8. \A c \in 1..n : calls[c].endedAt \in Nat /\ calls[c].startedAt \in Nat
  BY <1>6, Fields DEF Timeline
<1>9. CallsInOrder'
  <2> SUFFICES ASSUME NEW c \in 1..(n + 1)
               PROVE  calls'[c].startedAt <= calls'[c].endedAt /\ calls'[c].endedAt <= now'
    BY <1>1, <1>6 DEF CallsInOrder, InCall
  <2>1. CASE c = n + 1
    BY <2>1, <1>3, <1>5, <1>6
  <2>2. CASE c # n + 1
    <3>1. c \in 1..n
      BY <1>6, <2>2
    <3>2. calls[c].startedAt <= calls[c].endedAt /\ calls[c].endedAt <= now
      BY <1>6, <3>1 DEF Timeline, CallsInOrder
    <3> QED
      BY <1>2, <1>6, <1>8, <3>1, <3>2
  <2> QED
    BY <2>1, <2>2
<1>10. RecordsInOrder'
  BY <1>1 DEF Timeline, RecordsInOrder
<1>11. RecordsPlaced'
  <2> SUFFICES ASSUME NEW i \in DOMAIN timeouts
               PROVE  /\ timeouts[i].at <= now'
                      /\ timeouts[i].of[1] \in 1..Begun'
                      /\ RecordPlaced(timeouts[i], timeouts[i].of[1])'
                      /\ RecordApart(timeouts[i])'
    BY <1>1 DEF RecordsPlaced
  <2> DEFINE r == timeouts[i]
  <2>1. /\ r.at <= now /\ r.at \in Nat /\ r.of[1] \in 1..(n + 1)
        /\ RecordPlaced(r, r.of[1]) /\ RecordApart(r)
    BY <1>2, Fields DEF Timeline, RecordsPlaced, Begun
  <2>2. r.of[1] \in 1..Begun'
    BY <1>1, <1>6, <2>1 DEF Begun, InCall
  <2>3. RecordPlaced(r, r.of[1])'
    <3> HIDE DEF r
    <3>1. CASE r.of[1] = n + 1
      <4>1. r.of[1] \notin DOMAIN calls
        BY <1>6, <3>1
      <4>2. began <= r.at /\ r.target = target
        BY <2>1, <4>1 DEF RecordPlaced
      <4>3. Slack \in Nat
        BY TimeAssumption
      <4>4. Stamp(began) <= r.at /\ r.at <= Stamp(now') + Slack
        BY <1>2, <1>3, <2>1, <4>2, <4>3
      <4>5. r.of[1] \in DOMAIN calls' /\ calls'[r.of[1]] = new
        BY <1>6, <3>1
      <4> QED
        BY <1>5, <4>2, <4>4, <4>5, <1>1 DEF RecordPlaced, r
    <3>2. CASE r.of[1] # n + 1
      <4>1. r.of[1] \in 1..n
        BY <1>6, <2>1, <3>2
      <4> QED
        BY <1>6, <2>1, <4>1, <1>1 DEF RecordPlaced, r
    <3> QED
      BY <3>1, <3>2
  <2>4. RecordApart(r)'
    <3> SUFFICES ASSUME NEW c \in 1..(n + 1), c < r.of[1]
                 PROVE  calls'[c].endedAt + Slack < r.at
      BY <1>1, <1>6 DEF RecordApart
    <3>1. c \in 1..n
      BY <1>6, <2>1
    <3> QED
      BY <1>6, <2>1, <3>1 DEF RecordApart
  <2> QED
    BY <1>2, <2>1, <2>2, <2>3, <2>4
<1> QED
  BY <1>7, <1>9, <1>10, <1>11 DEF Timeline

\* No phase of the wire is put down to the agent.
LEMMA WireVerdict ==
    ASSUME conn \in Connections, NEW kernel \in Kernels
    PROVE  verdict(conn.phase, Reading(kernel)) \in Verdicts \ {"agent"}
<1>1. conn.phase \in WirePhases
  BY DEF Connections
<1>2. conn.phase \notin AgentPhases
  BY <1>1 DEF AgentPhases, WirePhases
<1> QED
  BY <1>2 DEF verdict, Verdicts

\* The timer expires with no hook to see it.
LEMMA ExpireUnseenStep ==
    ASSUME Timeline, ExpireAt(<<>>)
    PROVE  Timeline'
<1>1. /\ pc = "exchange" /\ now' = since + Timeout /\ pc' = "expired" /\ target' = target
      /\ began' = began /\ since' = since /\ attempt' = attempt /\ calls' = calls
      /\ timeouts' = timeouts
  <2>1. timeouts \in Seq(RecordSet)
    BY DEF Timeline, ClockOK
  <2> QED
    BY <2>1 DEF ExpireAt
<1>2. /\ now \in Nat /\ began \in Nat /\ since \in Nat /\ now = since
      /\ began <= since /\ now' \in Nat /\ since <= now'
  BY <1>1, TimeAssumption DEF Timeline, ClockOK
<1>3. ClockOK'
  BY <1>1, <1>2 DEF Timeline, ClockOK
<1>4. CallsInOrder' /\ RecordsInOrder'
  BY <1>1, <1>2, Fields DEF Timeline, CallsInOrder, RecordsInOrder, InCall
<1>5. RecordsPlaced'
  <2>1. Begun' = Begun
    BY <1>1 DEF Begun, InCall
  <2>2. \A i \in DOMAIN timeouts :
           /\ RecordPlaced(timeouts[i], timeouts[i].of[1])'
                 = RecordPlaced(timeouts[i], timeouts[i].of[1])
           /\ RecordApart(timeouts[i])' = RecordApart(timeouts[i])
    BY <1>1 DEF RecordPlaced, RecordApart
  <2>3. \A i \in DOMAIN timeouts : timeouts[i].at <= now'
    BY <1>2, Fields DEF Timeline, RecordsPlaced
  <2> QED
    BY <1>1, <2>1, <2>2, <2>3 DEF Timeline, RecordsPlaced
<1> QED
  BY <1>3, <1>4, <1>5 DEF Timeline

\* The timer expires and a record is appended, after all that are there.
LEMMA ExpireStep ==
    ASSUME Timeline, NEW v \in Verdicts \ {"agent"},
           ExpireAt(<<[at |-> since + Timeout, verdict |-> v, target |-> target,
                       of |-> <<Len(calls) + 1, attempt>>]>>)
    PROVE  Timeline'
<1> DEFINE new == [at |-> since + Timeout, verdict |-> v, target |-> target,
                   of |-> <<Len(calls) + 1, attempt>>]
<1>1. /\ pc = "exchange" /\ now' = since + Timeout /\ pc' = "expired" /\ target' = target
      /\ began' = began /\ since' = since /\ attempt' = attempt /\ calls' = calls
      /\ timeouts' = timeouts \o <<new>>
  BY DEF ExpireAt
<1>2. /\ now \in Nat /\ began \in Nat /\ since \in Nat /\ now = since
      /\ began <= since /\ now' \in Nat /\ since <= now' /\ Slack \in Nat
      /\ since + Slack < now' /\ Len(calls) \in Nat /\ Len(calls) + 1 \in Nat
      /\ attempt \in Nat /\ timeouts \in Seq(RecordSet) /\ calls \in Seq(CallSet)
      /\ target \in Targets
  BY <1>1, TimeAssumption, SizeAssumption DEF Timeline, ClockOK
<1>3. /\ new.at = now' /\ new.of[1] = Len(calls) + 1 /\ new.target = target
  BY <1>1
<1>4. new \in RecordSet
  BY <1>1, <1>2 DEF RecordSet
<1> HIDE DEF new
<1>r. PICK r \in RecordSet : r = new
  BY <1>4
<1>m. PICK m \in Nat : m = Len(timeouts)
  BY <1>2
<1>5. /\ timeouts' \in Seq(RecordSet)
      /\ DOMAIN timeouts = 1..m /\ DOMAIN timeouts' = 1..(m + 1)
      /\ \A i \in 1..m : timeouts'[i] = timeouts[i]
      /\ timeouts'[m + 1] = r
  BY <1>1, <1>2, <1>r, <1>m, Appended
<1>p. r.at = now' /\ r.of[1] = Len(calls) + 1 /\ r.target = target
  BY <1>3, <1>r
<1>6. ClockOK'
  BY <1>1, <1>2, <1>5 DEF Timeline, ClockOK
<1>7. CallsInOrder'
  BY <1>1, <1>2, Fields DEF Timeline, CallsInOrder, InCall
<1>8. Begun = Len(calls) + 1 /\ Begun' = Len(calls) + 1
  BY <1>1 DEF Begun, InCall
<1>9. \A i \in 1..m : /\ timeouts[i].of[1] \in Nat /\ timeouts[i].of[1] <= Len(calls) + 1
                      /\ timeouts[i].at \in Nat /\ timeouts[i].at <= now
  <2> SUFFICES ASSUME NEW i \in DOMAIN timeouts
               PROVE  /\ timeouts[i].of[1] \in Nat /\ timeouts[i].of[1] <= Len(calls) + 1
                      /\ timeouts[i].at \in Nat /\ timeouts[i].at <= now
    BY <1>5
  <2>1. timeouts[i].at \in Nat /\ timeouts[i].of[1] \in Nat
    BY Fields DEF Timeline
  <2>2. timeouts[i].at <= now /\ timeouts[i].of[1] \in 1..(Len(calls) + 1)
    BY <1>8 DEF Timeline, RecordsPlaced
  <2> QED
    BY <1>2, <2>1, <2>2
<1>10. RecordsInOrder'
  <2> SUFFICES ASSUME NEW i \in 1..(m + 1), NEW j \in 1..(m + 1), i <= j
               PROVE  timeouts'[i].of[1] <= timeouts'[j].of[1]
    BY <1>5 DEF RecordsInOrder
  <2>1. CASE j = m + 1
    <3>1. CASE i = m + 1
      BY <1>2, <1>p, <1>5, <2>1, <3>1
    <3>2. CASE i # m + 1
      <4>1. i \in 1..m
        BY <1>5, <3>2
      <4> QED
        BY <1>p, <1>5, <1>9, <2>1, <4>1
    <3> QED
      BY <3>1, <3>2
  <2>2. CASE j # m + 1
    <3>1. i \in 1..m /\ j \in 1..m
      BY <1>5, <2>2
    <3> QED
      BY <1>5, <3>1 DEF Timeline, RecordsInOrder
  <2> QED
    BY <2>1, <2>2
<1>11. RecordsPlaced'
  <2>1. ASSUME NEW i \in 1..m
        PROVE  /\ timeouts[i].at <= now'
               /\ timeouts[i].of[1] \in 1..Begun'
               /\ RecordPlaced(timeouts[i], timeouts[i].of[1])'
               /\ RecordApart(timeouts[i])'
    <3>1. /\ timeouts[i].of[1] \in 1..Begun
          /\ RecordPlaced(timeouts[i], timeouts[i].of[1]) /\ RecordApart(timeouts[i])
      BY <1>5 DEF Timeline, RecordsPlaced
    <3>2. timeouts'[i] = timeouts[i]
      BY <1>5
    <3>3. /\ RecordPlaced(timeouts[i], timeouts[i].of[1])'
          /\ RecordApart(timeouts[i])'
      BY <1>1, <3>1, <3>2 DEF RecordPlaced, RecordApart
    <3> QED
      BY <1>2, <1>8, <1>9, <3>1, <3>2, <3>3
  <2>2. RecordPlaced(r, r.of[1])'
    BY <1>1, <1>2, <1>p, Fields DEF RecordPlaced, Timeline
  <2>3. RecordApart(r)'
    <3> SUFFICES ASSUME NEW c \in DOMAIN calls
                 PROVE  calls[c].endedAt + Slack < r.at
      BY <1>1 DEF RecordApart
    <3>1. calls[c].endedAt \in Nat /\ calls[c].endedAt <= began
      BY <1>1, Fields DEF Timeline, CallsInOrder, InCall
    <3> QED
      BY <1>2, <1>p, <3>1
  <2>4. r.at <= now' /\ r.of[1] \in 1..Begun'
    BY <1>2, <1>p, <1>8
  <2> QED
    BY <1>5, <2>1, <2>2, <2>3, <2>4 DEF RecordsPlaced
<1> QED
  BY <1>6, <1>7, <1>10, <1>11 DEF Timeline

\* The next attempt of the call under way.
LEMMA RetryStep ==
    ASSUME Timeline, NEW gap \in Gaps, Retry(gap)
    PROVE  Timeline'
<1>1. /\ pc = "expired" /\ attempt < MaxAttempts /\ now' = now + gap /\ since' = now'
      /\ attempt' = attempt + 1 /\ pc' = "exchange" /\ target' = target
      /\ began' = began /\ timeouts' = timeouts /\ calls' = calls
  BY DEF Retry
<1>2. /\ now \in Nat /\ now' \in Nat /\ now <= now' /\ began \in Nat /\ began <= now'
  BY <1>1, TimeAssumption DEF Timeline, ClockOK
<1>3. ClockOK'
  BY <1>1, <1>2, SizeAssumption DEF Timeline, ClockOK
<1>4. CallsInOrder' /\ RecordsInOrder'
  BY <1>1, <1>2, Fields DEF Timeline, CallsInOrder, RecordsInOrder, InCall
<1>5. RecordsPlaced'
  <2>1. Begun' = Begun
    BY <1>1 DEF Begun, InCall
  <2>2. \A i \in DOMAIN timeouts :
           /\ RecordPlaced(timeouts[i], timeouts[i].of[1])'
                 = RecordPlaced(timeouts[i], timeouts[i].of[1])
           /\ RecordApart(timeouts[i])' = RecordApart(timeouts[i])
    BY <1>1 DEF RecordPlaced, RecordApart
  <2>3. \A i \in DOMAIN timeouts : timeouts[i].at <= now'
    BY <1>2, Fields DEF Timeline, RecordsPlaced
  <2> QED
    BY <1>1, <2>1, <2>2, <2>3 DEF Timeline, RecordsPlaced
<1> QED
  BY <1>3, <1>4, <1>5 DEF Timeline

\* A step of the wire, or of the witness, is none of the run's.
LEMMA RunUntouched ==
    ASSUME Wire \/ Witness \/ UNCHANGED vars
    PROVE  /\ UNCHANGED runVars /\ InCall' = InCall
           /\ attribution' = attribution
           /\ pc' = pc \/ (pc \in {"attributed", "witness"} /\ pc' = "witness")
<1>1. CASE Wire
  BY <1>1 DEF Wire, OnWire, Send, Accept, ClientHello, SendHeaders, SendBody,
             Await, DataArrives, DataLost, AckLost, Retransmit, SegmentArrives,
             SegmentLost, SegmentOvertaken, GapFilled, BulkArrives, InCall
<1>2. CASE Witness
  BY <1>2 DEF Witness, WitnessIs, ReachResolve, ReachConnects, ReachFails, ReachRefused, InCall
<1>3. CASE UNCHANGED vars
  BY <1>3 DEF vars, runVars, InCall
<1> QED
  BY <1>1, <1>2, <1>3

\* Every step keeps the timeline.
LEMMA TimelineStep ==
    ASSUME Timeline, conn \in Connections, [Next]_vars
    PROVE  Timeline'
<1>1. CASE Wire \/ Witness \/ UNCHANGED vars
  BY <1>1, RunUntouched, TimelineKept
<1>2. ASSUME NEW gap \in Gaps, NEW t \in Targets, StartCall(gap, t) PROVE Timeline'
  BY <1>2, StartStep
<1>3. ASSUME NEW gap \in Gaps, CallSucceeds(gap) PROVE Timeline'
  BY <1>3, EndStep DEF CallSucceeds, InCall
<1>4. ASSUME NEW gap \in Gaps, GiveUp(gap) PROVE Timeline'
  BY <1>4, EndStep DEF GiveUp, InCall
<1>5. ASSUME NEW gap \in Gaps, Retry(gap) PROVE Timeline'
  BY <1>5, RetryStep
<1>6. ASSUME NEW kernel \in Kernels, TimerExpires(kernel) PROVE Timeline'
  BY <1>6, WireVerdict, ExpireStep DEF TimerExpires
<1>7. CASE TimerExpiresUnseen
  BY <1>7, ExpireUnseenStep DEF TimerExpiresUnseen
<1>8. CASE AttributeCallTimeouts
  BY <1>8, TimelineKept DEF AttributeCallTimeouts, InCall
<1> QED
  BY <1>1, <1>2, <1>3, <1>4, <1>5, <1>6, <1>7, <1>8 DEF Next, Run

\* What is judged depends on the calls and the records alone.
LEMMA SameJudgement ==
    ASSUME calls' = calls, timeouts' = timeouts
    PROVE  /\ TimedOut' = TimedOut /\ \A c : Judge(c)' = Judge(c)
           /\ RunVerdict' = RunVerdict /\ ReachTarget' = ReachTarget
<1>1. TimedOut' = TimedOut /\ \A c : Judge(c)' = Judge(c)
  BY DEF TimedOut, Judge, Own
<1>2. RunVerdict' = RunVerdict
  BY DEF RunVerdict, TimedOut, Judge, Own
<1>3. ReachTarget' = ReachTarget
  BY <1>2 DEF ReachTarget, TimedOut, Judge, Own
<1> QED
  BY <1>1, <1>2, <1>3

\* Once told, the run has nothing left to change.
LEMMA ToldStep ==
    ASSUME Told, [Next]_vars
    PROVE  Told'
<1>1. CASE Wire \/ Witness \/ UNCHANGED vars
  <2>1. UNCHANGED <<calls, timeouts, attribution>>
    BY <1>1, RunUntouched DEF runVars
  <2>2. /\ TimedOut' = TimedOut /\ \A c : Judge(c)' = Judge(c)
        /\ RunVerdict' = RunVerdict /\ ReachTarget' = ReachTarget
    BY <2>1, SameJudgement
  <2> QED
    BY <1>1, <2>1, <2>2, RunUntouched DEF Told
<1>2. CASE AttributeCallTimeouts
  <2>1. calls' = calls /\ timeouts' = timeouts
    BY <1>2 DEF AttributeCallTimeouts, runVars
  <2>2. /\ TimedOut' = TimedOut /\ \A c : Judge(c)' = Judge(c)
        /\ RunVerdict' = RunVerdict /\ ReachTarget' = ReachTarget
    BY <2>1, SameJudgement
  <2> QED
    BY <1>2, <2>2 DEF Told, AttributeCallTimeouts
<1>3. CASE Run /\ ~AttributeCallTimeouts
  <2>1. attribution' = attribution /\ pc \in {"idle", "exchange", "expired"}
    BY <1>3 DEF Run, StartCall, CallSucceeds, EndCall, Retry, GiveUp, TimerExpires,
               TimerExpiresUnseen, ExpireAt
  <2> QED
    BY <2>1 DEF Told
<1> QED
  BY <1>1, <1>2, <1>3 DEF Next

\* So every run's records and calls lie on one line, and what it was told is theirs.
LEMMA TimelineInvariant == Spec => [](Timeline /\ Told)
<1>1. Init => Timeline /\ Told
  BY TimelineInit DEF Init, Told
<1>2. Connected /\ Timeline /\ Told /\ [Next]_vars => Timeline' /\ Told'
  BY TimelineStep, ToldStep DEF Connected, Shaped
<1> QED
  BY <1>1, <1>2, ConnectedInvariant, PTL DEF Spec

\* A call with a record of its own is judged by the last of them.
LEMMA JudgedByLast ==
    ASSUME Timeline, ~InCall, NEW c \in TimedOut, Records(c) # {}
    PROVE  Judge(c) = timeouts[Max(Records(c))]
<1> DEFINE n == Len(timeouts)
<1>1. /\ n \in Nat /\ DOMAIN timeouts = 1..n /\ DOMAIN calls = 1..Len(calls)
      /\ Len(calls) \in Nat
  BY Fields DEF Timeline
<1>2. c \in DOMAIN calls /\ c \in Nat
  BY <1>1 DEF TimedOut
<1>3. Records(c) \in SUBSET (1..n) /\ Own(c) \in SUBSET (1..n)
  BY <1>1 DEF Records, Own
<1>4. \A i \in 1..n : /\ timeouts[i].at \in Nat /\ timeouts[i].of[1] \in Nat
                      /\ timeouts[i].of[1] \in 1..Len(calls)
                      /\ RecordPlaced(timeouts[i], timeouts[i].of[1])
                      /\ RecordApart(timeouts[i])
  BY <1>1, Fields DEF Timeline, RecordsPlaced, Begun
<1>5. calls[c].startedAt \in Nat /\ calls[c].endedAt \in Nat /\ Slack \in Nat
  BY <1>2, Fields, TimeAssumption DEF Timeline
<1>6. Records(c) \subseteq Own(c)
  <2> SUFFICES ASSUME NEW i \in 1..n, timeouts[i].of[1] = c
               PROVE  /\ calls[c].startedAt <= timeouts[i].at + Slack
                      /\ timeouts[i].at <= calls[c].endedAt + Slack
    BY <1>1 DEF Records, Own
  <2>1. /\ calls[c].startedAt <= timeouts[i].at
        /\ timeouts[i].at <= calls[c].endedAt + Slack /\ timeouts[i].at \in Nat
    BY <1>2, <1>4 DEF RecordPlaced
  <2> QED
    BY <1>5, <2>1
<1>7. ASSUME NEW i \in Own(c) PROVE timeouts[i].of[1] <= c
  <2> SUFFICES ASSUME c < timeouts[i].of[1] PROVE FALSE
    BY <1>2, <1>3, <1>4, <1>7
  <2>1. i \in 1..n /\ timeouts[i].at <= calls[c].endedAt + Slack
    BY <1>3, <1>7 DEF Own
  <2>2. calls[c].endedAt + Slack < timeouts[i].at
    BY <1>2, <1>4, <2>1 DEF RecordApart
  <2> QED
    BY <1>4, <1>5, <2>1, <2>2
<1> DEFINE m == Max(Own(c))  r == Max(Records(c))
<1>8. Own(c) # {}
  BY <1>6
<1>9. /\ m \in Own(c) /\ \A i \in Own(c) : i <= m
      /\ r \in Records(c) /\ \A i \in Records(c) : i <= r
  BY <1>1, <1>3, <1>8, LastPosition
<1> HIDE DEF m, r
<1>10. m \in 1..n /\ r \in 1..n /\ r <= m /\ timeouts[r].of[1] = c
  BY <1>1, <1>3, <1>6, <1>9 DEF Records
<1>11. c <= timeouts[m].of[1]
  BY <1>1, <1>10 DEF Timeline, RecordsInOrder
<1>12. timeouts[m].of[1] = c
  BY <1>2, <1>4, <1>7, <1>9, <1>10, <1>11
<1>13. m \in Records(c)
  BY <1>1, <1>10, <1>12 DEF Records
<1>14. m = r
  BY <1>9, <1>10, <1>13
<1> QED
  BY <1>8, <1>14 DEF Judge, m, r

\* The attempts of one call leave at most a record each, in their order, and no
\* record is of an attempt still to come.
AttemptsInOrder ==
    /\ \A i, j \in DOMAIN timeouts :
          i < j /\ timeouts[i].of[1] = timeouts[j].of[1]
              => timeouts[i].of[2] < timeouts[j].of[2]
    /\ \A i \in DOMAIN timeouts :
          IF timeouts[i].of[1] \in DOMAIN calls
          THEN timeouts[i].of[2] <= calls[timeouts[i].of[1]].tries
          ELSE /\ timeouts[i].of[2] <= attempt
               /\ pc = "exchange" => timeouts[i].of[2] < attempt

\* Which attempt a record is of, and how many a call made.
LEMMA AttemptFields ==
    ASSUME ClockOK
    PROVE  /\ \A i \in DOMAIN timeouts : timeouts[i].of \in Nat \X Nat
           /\ \A c \in DOMAIN calls : calls[c].tries \in Nat
<1>1. timeouts \in Seq(RecordSet) /\ calls \in Seq(CallSet)
  BY DEF ClockOK
<1>2. \A i \in DOMAIN timeouts : timeouts[i] \in RecordSet
  BY <1>1
<1>3. \A c \in DOMAIN calls : calls[c] \in CallSet
  BY <1>1
<1> QED
  BY <1>2, <1>3 DEF RecordSet, CallSet

\* The step that ends a call fixes how many attempts it made.
LEMMA AttemptsEnd ==
    ASSUME Timeline, InCall, AttemptsInOrder,
           NEW how \in {"success", "timeout"}, NEW gap \in Gaps, EndCall(how, gap)
    PROVE  AttemptsInOrder'
<1> DEFINE new == [outcome |-> how, startedAt |-> Stamp(began),
                   endedAt |-> Stamp(now'), target |-> target, tries |-> attempt]
           n == Len(calls)
<1>1. calls' = Append(calls, new) /\ timeouts' = timeouts
  BY DEF EndCall
<1>2. new.tries = attempt
  OBVIOUS
<1> HIDE DEF new
<1>3. calls \in Seq(CallSet) /\ n \in Nat /\ DOMAIN calls = 1..n
  BY DEF Timeline, ClockOK
<1>4. /\ DOMAIN calls' = 1..(n + 1) /\ calls'[n + 1] = new
      /\ \A c \in 1..n : calls'[c] = calls[c]
  BY <1>1, <1>3
<1>5. \A i \in DOMAIN timeouts : timeouts[i].of[1] \in 1..(n + 1)
  BY DEF Timeline, RecordsPlaced, Begun
<1>6. ASSUME NEW i \in DOMAIN timeouts
      PROVE  timeouts[i].of[2] <= calls'[timeouts[i].of[1]].tries
  <2>1. CASE timeouts[i].of[1] \in 1..n
    BY <1>3, <1>4, <2>1 DEF AttemptsInOrder
  <2>2. CASE timeouts[i].of[1] = n + 1
    <3>1. timeouts[i].of[1] \notin DOMAIN calls
      BY <1>3, <2>2
    <3> QED
      BY <1>2, <1>4, <2>2, <3>1 DEF AttemptsInOrder
  <2> QED
    BY <1>3, <1>5, <2>1, <2>2
<1> QED
  BY <1>1, <1>4, <1>5, <1>6 DEF AttemptsInOrder

\* The step that appends a record appends that of the attempt under way.
LEMMA AttemptsExpire ==
    ASSUME Timeline, AttemptsInOrder, NEW v,
           ExpireAt(<<[at |-> since + Timeout, verdict |-> v, target |-> target,
                       of |-> <<Len(calls) + 1, attempt>>]>>)
    PROVE  AttemptsInOrder'
<1> DEFINE new == [at |-> since + Timeout, verdict |-> v, target |-> target,
                   of |-> <<Len(calls) + 1, attempt>>]
           m == Len(timeouts)
<1>1. /\ pc = "exchange" /\ pc' = "expired" /\ calls' = calls /\ attempt' = attempt
      /\ timeouts' = timeouts \o <<new>>
  BY DEF ExpireAt
<1>2. new.of[1] = Len(calls) + 1 /\ new.of[2] = attempt
  OBVIOUS
<1> HIDE DEF new
<1>3. /\ timeouts \in Seq(RecordSet) /\ calls \in Seq(CallSet)
      /\ m \in Nat /\ DOMAIN timeouts = 1..m /\ DOMAIN calls = 1..Len(calls)
      /\ Len(calls) \in Nat /\ attempt \in Nat
  BY SizeAssumption DEF Timeline, ClockOK
<1>4. /\ DOMAIN timeouts' = 1..(m + 1) /\ timeouts'[m + 1] = new
      /\ \A i \in 1..m : timeouts'[i] = timeouts[i]
  BY <1>1, <1>3
<1>5. Len(calls) + 1 \notin DOMAIN calls
  BY <1>3
<1>6. \A i \in 1..m : timeouts[i].of[1] = Len(calls) + 1 => timeouts[i].of[2] < attempt
  BY <1>1, <1>3, <1>5 DEF AttemptsInOrder
<1> DEFINE new2(i) == timeouts'[i].of
<1>7. \A i \in 1..m : new2(i) = timeouts[i].of
  BY <1>4
<1>8. new2(m + 1)[1] = Len(calls) + 1 /\ new2(m + 1)[2] = attempt
  BY <1>2, <1>4
<1>9. \A i, j \in 1..m : i < j /\ new2(i)[1] = new2(j)[1] => new2(i)[2] < new2(j)[2]
  BY <1>3, <1>7 DEF AttemptsInOrder
<1>10. \A i \in 1..m : IF new2(i)[1] \in DOMAIN calls
                       THEN new2(i)[2] <= calls[new2(i)[1]].tries
                       ELSE new2(i)[2] <= attempt
  BY <1>3, <1>7 DEF AttemptsInOrder
<1>11. \A i \in 1..m : new2(i)[1] = Len(calls) + 1 => new2(i)[2] < attempt
  BY <1>6, <1>7
<1> HIDE DEF new2
<1>12. ASSUME NEW i \in 1..(m + 1), NEW j \in 1..(m + 1), i < j, new2(i)[1] = new2(j)[1]
       PROVE  new2(i)[2] < new2(j)[2]
  <2>1. i \in 1..m
    BY <1>3, <1>12
  <2>2. CASE j = m + 1
    BY <1>8, <1>11, <1>12, <2>1, <2>2
  <2>3. CASE j # m + 1
    <3>1. j \in 1..m
      BY <1>3, <2>3
    <3> QED
      BY <1>9, <1>12, <2>1, <3>1
  <2> QED
    BY <2>2, <2>3
<1>13. ASSUME NEW i \in 1..(m + 1)
       PROVE  IF new2(i)[1] \in DOMAIN calls
              THEN new2(i)[2] <= calls[new2(i)[1]].tries
              ELSE new2(i)[2] <= attempt
  <2>1. CASE i = m + 1
    BY <1>3, <1>5, <1>8, <2>1
  <2>2. CASE i # m + 1
    <3>1. i \in 1..m
      BY <1>3, <2>2
    <3> QED
      BY <1>10, <3>1
  <2> QED
    BY <2>1, <2>2
<1> QED
  BY <1>1, <1>4, <1>12, <1>13 DEF AttemptsInOrder, new2

\* Every step keeps the attempts in order.
LEMMA AttemptsInOrderStep ==
    ASSUME Timeline, AttemptsInOrder, [Next]_vars
    PROVE  AttemptsInOrder'
<1>1. CASE Wire \/ Witness \/ UNCHANGED vars
  BY <1>1, RunUntouched DEF AttemptsInOrder, runVars
<1>2. ASSUME NEW gap \in Gaps, NEW t \in Targets, StartCall(gap, t) PROVE AttemptsInOrder'
  <2>1. pc = "idle" /\ timeouts' = timeouts /\ calls' = calls
    BY <1>2 DEF StartCall
  <2>2. \A i \in DOMAIN timeouts : timeouts[i].of[1] \in DOMAIN calls
    BY <2>1, Fields DEF Timeline, RecordsPlaced, Begun, InCall
  <2> QED
    BY <2>1, <2>2 DEF AttemptsInOrder
<1>3. ASSUME NEW gap \in Gaps, CallSucceeds(gap) PROVE AttemptsInOrder'
  BY <1>3, AttemptsEnd DEF CallSucceeds, InCall
<1>4. ASSUME NEW gap \in Gaps, GiveUp(gap) PROVE AttemptsInOrder'
  BY <1>4, AttemptsEnd DEF GiveUp, InCall
<1>5. ASSUME NEW gap \in Gaps, Retry(gap) PROVE AttemptsInOrder'
  <2>1. attempt' = attempt + 1 /\ timeouts' = timeouts /\ calls' = calls /\ attempt \in Nat
    BY <1>5, SizeAssumption DEF Retry, Timeline, ClockOK
  <2>2. \A i \in DOMAIN timeouts : timeouts[i].of[2] \in Nat
    BY AttemptFields DEF Timeline
  <2>3. \A i \in DOMAIN timeouts :
           timeouts[i].of[2] <= attempt => timeouts[i].of[2] < attempt + 1
    BY <2>1, <2>2
  <2> QED
    BY <2>1, <2>2, <2>3 DEF AttemptsInOrder
<1>6. ASSUME NEW kernel \in Kernels, TimerExpires(kernel) PROVE AttemptsInOrder'
  BY <1>6, AttemptsExpire DEF TimerExpires
<1>7. CASE TimerExpiresUnseen
  <2>1. timeouts \in Seq(RecordSet)
    BY DEF Timeline, ClockOK
  <2>2. timeouts' = timeouts /\ calls' = calls /\ attempt' = attempt /\ pc' = "expired"
    BY <1>7, <2>1 DEF TimerExpiresUnseen, ExpireAt
  <2> QED
    BY <2>2 DEF AttemptsInOrder
<1>8. CASE AttributeCallTimeouts
  BY <1>8 DEF AttributeCallTimeouts, runVars, AttemptsInOrder
<1> QED
  BY <1>1, <1>2, <1>3, <1>4, <1>5, <1>6, <1>7, <1>8 DEF Next, Run

\* So no attempt is recorded out of turn.
LEMMA AttemptsInvariant == Spec => []AttemptsInOrder
<1>1. Init => AttemptsInOrder
  BY DEF Init, AttemptsInOrder
<1>2. Timeline /\ AttemptsInOrder /\ [Next]_vars => AttemptsInOrder'
  BY AttemptsInOrderStep
<1> QED
  BY <1>1, <1>2, TimelineInvariant, PTL DEF Spec

\* _attribute_call_timeouts: "its last attempt is the one judged", wherever its expiry
\* was seen, though calls are matched to records by time alone.
THEOREM JudgedSound == Spec => []JudgedByOwnLast
<1>1. Timeline /\ Told /\ AttemptsInOrder => JudgedByOwnLast
  <2> SUFFICES ASSUME Timeline, Told, AttemptsInOrder, attribution # Absent,
                      NEW c \in TimedOut, NEW i \in DOMAIN timeouts,
                      timeouts[i].of = <<c, calls[c].tries>>
               PROVE  attribution.calls[c] = timeouts[i]
    BY DEF JudgedByOwnLast
  <2> DEFINE r == Max(Records(c))
  <2>1. ~InCall /\ attribution.calls[c] = Judge(c)
    BY DEF Told, InCall
  <2>2. i \in Records(c) /\ timeouts[i].of[2] = calls[c].tries
    BY DEF Records
  <2>3. Judge(c) = timeouts[r]
    BY <2>1, <2>2, JudgedByLast
  <2>4. DOMAIN timeouts = 1..Len(timeouts) /\ Len(timeouts) \in Nat
    BY Fields DEF Timeline
  <2>5. r \in Records(c) /\ i <= r
    BY <2>2, <2>4, LastPosition DEF Records
  <2> HIDE DEF r
  <2>6. r \in DOMAIN timeouts /\ timeouts[r].of[1] = c /\ timeouts[i].of[1] = c
    BY <2>2, <2>5 DEF Records
  <2>7. c \in DOMAIN calls
    BY DEF TimedOut
  <2>8. timeouts[r].of[2] <= timeouts[i].of[2]
    BY <2>2, <2>6, <2>7 DEF AttemptsInOrder
  <2>9. timeouts[r].of[2] \in Nat /\ timeouts[i].of[2] \in Nat
    BY <2>6, AttemptFields DEF Timeline
  <2>10. ~(i < r)
    BY <2>6, <2>8, <2>9 DEF AttemptsInOrder
  <2>11. i = r
    BY <2>4, <2>5, <2>6, <2>10
  <2> QED
    BY <2>1, <2>3, <2>11
<1> QED
  BY <1>1, TimelineInvariant, AttemptsInvariant, PTL

\* _attribute_call_timeouts: the witness is sent where a call that timed out last
\* failed on the network, provided the expiry of every one of them was seen.
THEOREM WitnessWellSent == Spec => []WitnessSentToFailed
<1>1. Timeline /\ Told => WitnessSentToFailed
  <2> SUFFICES ASSUME Timeline, Told, attribution # Absent, attribution.target # Absent,
                      \A c \in TimedOut : Records(c) # {}
               PROVE  \E c \in TimedOut :
                         /\ calls[c].target = attribution.target
                         /\ timeouts[Max(Records(c))].verdict = "network"
    BY DEF WitnessSentToFailed
  <2> DEFINE network == {c \in TimedOut : Judge(c).verdict = "network"}
             first == CHOOSE c \in network : \A d \in network : c <= d
  <2>1. ~InCall /\ attribution.target = ReachTarget
    BY DEF Told, InCall
  <2>2. network # {} /\ attribution.target = Judge(first).target
    BY <2>1 DEF ReachTarget
  <2>3. network \subseteq Nat
    BY Fields DEF TimedOut, Timeline
  <2>4. first \in network
    <3> HIDE DEF network
    <3>1. \E c \in network : \A d \in network : c <= d
      BY <2>2, <2>3, LeastNat
    <3> QED
      BY <3>1
  <2> HIDE DEF first
  <2>5. first \in TimedOut /\ Judge(first).verdict = "network"
    BY <2>4
  <2>6. Judge(first) = timeouts[Max(Records(first))]
    BY <2>1, <2>5, JudgedByLast
  <2>7. Max(Records(first)) \in Records(first)
    BY <2>5, Fields, LastPosition DEF Records, Timeline
  <2>8. /\ Max(Records(first)) \in DOMAIN timeouts
        /\ timeouts[Max(Records(first))].of[1] = first
    BY <2>7 DEF Records
  <2>9. RecordPlaced(timeouts[Max(Records(first))], first)
    BY <2>8 DEF Timeline, RecordsPlaced
  <2>10. first \in DOMAIN calls
    BY <2>5 DEF TimedOut
  <2>11. timeouts[Max(Records(first))].target = calls[first].target
    BY <2>9, <2>10 DEF RecordPlaced
  <2> QED
    BY <2>2, <2>5, <2>6, <2>11
<1> QED
  BY <1>1, TimelineInvariant, PTL

-----------------------------------------------------------------------------
(* Type correctness *)

\* The witness never makes an attempt more than it was asked for.
Attempts ==
    /\ witness.attempts \in Seq(Shown)
    /\ witness.path \in {"none", "clean", "lossy", "unreachable", "refused"}
    /\ Len(witness.attempts) <= ReachAttempts
    /\ ~witness.over => Len(witness.attempts) < ReachAttempts

\* Every step of the witness keeps to that.
LEMMA AttemptsStep ==
    ASSUME Attempts, Witness
    PROVE  Attempts'
<1> USE SizeAssumption DEF Attempts, WitnessIs, Shown
<1>1. CASE ReachResolve
  <2>1. witness'.attempts = <<>> /\ witness'.path \in {"clean", "unreachable", "refused"}
    BY <1>1 DEF ReachResolve
  <2> QED
    BY <2>1
<1>2. ASSUME NEW reading \in {"yes", "no", "cannot_tell", "none"}, ReachConnects(reading)
      PROVE  Attempts'
  <2> DEFINE tried == Append(witness.attempts, reading)
  <2>1. /\ witness'.attempts = tried
        /\ witness'.path \in {"lossy", witness.path}
        /\ ~witness'.over => Len(tried) # ReachAttempts
        /\ ~witness.over
    BY <1>2 DEF ReachConnects
  <2>2. tried \in Seq(Shown) /\ Len(tried) = Len(witness.attempts) + 1
    OBVIOUS
  <2>3. Len(witness.attempts) \in Nat /\ Len(witness.attempts) < ReachAttempts
    BY <2>1
  <2> HIDE DEF tried
  <2> QED
    BY <2>1, <2>2, <2>3
<1>3. CASE ReachFails
  <2> DEFINE tried == Append(witness.attempts, "failed")
  <2>1. /\ witness'.attempts = tried /\ witness'.path = "unreachable"
        /\ witness'.over /\ ~witness.over
    BY <1>3 DEF ReachFails
  <2>2. tried \in Seq(Shown) /\ Len(tried) = Len(witness.attempts) + 1
    OBVIOUS
  <2>3. Len(witness.attempts) \in Nat /\ Len(witness.attempts) < ReachAttempts
    BY <2>1
  <2> HIDE DEF tried
  <2> QED
    BY <2>1, <2>2, <2>3
<1>4. CASE ReachRefused
  <2>1. witness'.attempts = witness.attempts /\ witness'.path = "refused" /\ witness'.over
    BY <1>4 DEF ReachRefused
  <2> QED
    BY <2>1
<1> QED
  BY <1>1, <1>2, <1>3, <1>4 DEF Witness

\* So it is in every reachable state.
LEMMA BoundsInvariant == Spec => []Attempts
<1>1. Init => Attempts
  BY SizeAssumption DEF Init, Attempts
<1>2. Attempts /\ [Next]_vars => Attempts'
  <2> SUFFICES ASSUME Attempts, [Next]_vars PROVE Attempts'
    OBVIOUS
  <2>1. CASE Witness
    BY <2>1, AttemptsStep
  <2>2. CASE Wire \/ Run \/ UNCHANGED vars
    BY <2>2, WitnessElsewhere DEF Attempts
  <2> QED
    BY <2>1, <2>2 DEF Next
<1> QED
  BY <1>1, <1>2, PTL DEF Spec

\* A run that is told anything is told of a call that timed out, and never that the
\* agent is to blame.
LEMMA ToldVerdict ==
    ASSUME Timeline, Told, attribution # Absent
    PROVE  attribution.verdict \in Verdicts \ {"agent"}
<1>1. attribution.verdict = RunVerdict /\ TimedOut # {}
  BY DEF Told
<1>2. \A c \in TimedOut : Judge(c).verdict \in Verdicts \ {"agent"}
  <2> TAKE c \in TimedOut
  <2>1. CASE Own(c) = {}
    BY <2>1 DEF Judge, NotObserved, Verdicts
  <2>2. CASE Own(c) # {}
    <3>1. Own(c) \in SUBSET (1..Len(timeouts)) /\ Len(timeouts) \in Nat
      BY Fields DEF Own, Timeline
    <3>2. Max(Own(c)) \in DOMAIN timeouts
      BY <2>2, <3>1, LastPosition, Fields DEF Timeline
    <3> QED
      BY <2>2, <3>2, Fields DEF Judge, Timeline
  <2> QED
    BY <2>1, <2>2
<1> QED
  BY <1>1, <1>2 DEF RunVerdict, Verdicts

\* Every variable keeps its type: clocks in order, counters and attempts in bounds.
THEOREM TypeCorrect == Spec => []TypeOK
<1>1. Timeline /\ Told /\ Connected /\ Attempts => TypeOK
  <2> SUFFICES ASSUME Timeline, Told, Connected, Attempts PROVE TypeOK
    OBVIOUS
  <2>1. /\ now \in Nat /\ began \in 0..now /\ since \in began..now
        /\ pc \in {"idle", "exchange", "expired", "attributed", "witness"}
        /\ target \in Targets /\ attempt \in 1..MaxAttempts
    BY DEF Timeline, ClockOK
  <2>2. /\ conn.phase \in WirePhases /\ conn.unacked \in 0..1 /\ conn.retrans \in 0..1
        /\ conn.sent \in 0..Segments /\ conn.ooo <= conn.segs
    BY SizeAssumption DEF Connected, Shaped, Connections
  <2>3. \A i \in DOMAIN timeouts : /\ timeouts[i].at \in 0..now
                                   /\ timeouts[i].verdict \in Verdicts \ {"agent"}
    BY <2>1, Fields DEF Timeline, RecordsPlaced
  <2>4. \A i \in DOMAIN calls : /\ calls[i].outcome \in {"success", "timeout"}
                                /\ calls[i].startedAt <= calls[i].endedAt
    BY Fields DEF Timeline, CallsInOrder
  <2>5. attribution = Absent \/ attribution.verdict \in Verdicts \ {"agent"}
    BY ToldVerdict
  <2> QED
    BY <2>1, <2>2, <2>3, <2>4, <2>5 DEF TypeOK, Attempts
<1> QED
  BY <1>1, TimelineInvariant, ConnectedInvariant, BoundsInvariant, PTL
=================================================================================
