-------------------------------- MODULE TcpState --------------------------------
(***************************************************************************)
(* services/tcp_state.py: what the kernel's counters say of a connection   *)
(* (`lossy`) and who a stall is put down to (`verdict`).  A reading keeps  *)
(* the counters the verdict looks at; Absent stands for Python's None, of  *)
(* a whole reading or of a field an older kernel does not fill.            *)
(***************************************************************************)
EXTENDS Naturals

CONSTANTS Absent,
          OooMin,      \* _OOO_MIN
          OooShare     \* one segment in OooShare: 1 / _OOO_SHARE

ASSUME OooAssumption == OooMin \in Nat /\ OooShare \in Nat

AgentPhases == {"between_requests", "storing_bodies"}
WirePhases == {"connecting", "tls_handshake", "sending", "awaiting_response", "receiving"}
Verdicts == {"endpoint", "network", "agent", "unknown"}

\* Enough segments arrived out of order, by count and by share.
OutOfOrder(tcp) == tcp.ooo >= OooMin /\ tcp.ooo * OooShare >= tcp.segs

\* Mutant of lossy: one segment out of order will do.
lossy_Any(tcp) ==
    IF tcp.retrans > 0 THEN "yes"
    ELSE IF tcp.ooo = Absent THEN "cannot_tell"
    ELSE IF tcp.ooo > 0 THEN "yes" ELSE "no"

\* Whether the connection shows packet loss.
lossy(tcp) ==
    IF tcp.retrans > 0 THEN "yes"
    ELSE IF tcp.ooo = Absent THEN "cannot_tell"
    ELSE IF OutOfOrder(tcp) THEN "yes" ELSE "no"

\* Mutant of verdict: data still in flight is not looked at.
verdict_InFlight(phase, tcp) ==
    IF phase \in AgentPhases THEN "agent"
    ELSE IF phase = "resolving" THEN "network"
    ELSE IF phase \notin WirePhases \/ tcp = Absent THEN "unknown"
    ELSE IF phase = "connecting" \/ tcp.state = "syn_sent" \/ lossy(tcp) = "yes" THEN "network"
    ELSE IF lossy(tcp) = "cannot_tell" THEN "unknown"
    ELSE "endpoint"

\* Who a stall in this phase, with this reading, belongs to.
verdict(phase, tcp) ==
    IF phase \in AgentPhases THEN "agent"
    ELSE IF phase = "resolving" THEN "network"
    ELSE IF phase \notin WirePhases \/ tcp = Absent THEN "unknown"
    ELSE IF phase = "connecting" \/ tcp.state = "syn_sent" \/ lossy(tcp) = "yes" THEN "network"
    ELSE IF lossy(tcp) = "cannot_tell" \/ tcp.unacked > 0 THEN "unknown"
    ELSE "endpoint"
=================================================================================
