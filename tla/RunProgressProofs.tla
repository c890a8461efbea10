--------------------------- MODULE RunProgressProofs ----------------------------
(***************************************************************************)
(* Theorems about RunProgress, for any number of requests, addresses and   *)
(* descriptors, any mix of plain and TLS, of kept and closed connections,  *)
(* and a snapshot that may begin and dawdle anywhere.                      *)
(*                                                                         *)
(* The invariant says, for every position of the run's thread, which       *)
(* request the record shows, what phase it may be in and which descriptor  *)
(* is the request's; then what the records and the snapshot, which were    *)
(* written or read on the way, may hold.                                   *)
(***************************************************************************)
EXTENDS RunProgress, TLAPS

\* Where the record still shows the request, and where it no longer does; while a
\* body is read, and after it, either may be.
Shown == Opening \cup {"writing", "sent", "awaiting", "headers"}
Either == {"reading", "over"}

Counting ==
    /\ pc \in Shown => request = current /\ completed = current - 1
    /\ pc \in Either => \/ request = current /\ completed = current - 1
                        \/ request = None /\ completed = current
    /\ pc \in {"uncounted", "early_uncounted"} => request = None /\ completed = current - 1
    /\ pc \in {"unphased", "unclosed", "early_unphased", "own", "storing", "done"}
            => request = None /\ completed = current
    /\ pc \notin {"own", "storing", "done"} => current >= 1

\* The phase while a request is under way, and after an early close.
Phasing ==
    /\ pc \in {"handshaking", "hung_up"} => phase = "tls_handshake"
    /\ pc \in Opening \cup Exchanging /\ pc # "assigned" /\ request # None
            => phase \notin {"between_requests", "storing_bodies"}
    /\ pc \in {"early_uncounted", "early_unphased"} => current \in CloseDelimited
    /\ pc = "reading" /\ request = None
            => phase = "between_requests" /\ current \in CloseDelimited

\* No socket yet, or none any more; one that the record has the descriptor of.
Unconnected == {"own", "assigned", "unsent", "resolving", "resolved", "hung_up",
                "storing", "done"}
Kept == {"connecting", "connect_failed", "connected", "handshaking"} \cup Exchanging
            \cup {"early_uncounted", "early_unphased"}

Owning ==
    /\ \A f \in Fds : sockets[f] \in {None, Other, current}
    /\ pc \in Unconnected => \A f \in Fds : sockets[f] \in {None, Other}
    /\ pc \in {"opened", "dialing"} \cup Kept
            => \A f, g \in Fds : Own(f) /\ Own(g) => f = g
    /\ pc \in Kept => fd[current] \in Fds /\ sockets[fd[current]] = current
    /\ pc \in {"assigned", "unsent", "resolving"} => tried = 0
    /\ pc = "resolved" => tried < MaxAddresses

\* The records of a request: none before its timer expired in a phase that is
\* recorded, then one, of that phase.
RecordsOf(r) == {i \in DOMAIN timeouts : timeouts[i].request = r}
Unrecorded(r) == RecordsOf(r) = {} /\ ~timed_out[r]
Recorded(r) ==
    /\ timed_out[r]
    /\ \E i \in RecordsOf(r) : RecordsOf(r) = {i} /\ timeouts[i].phase = Head(expiry[r])

Recording ==
    /\ RecordOfOwnConnection
    /\ \A r \in Requests :
          IF expiry[r] = <<>> \/ Head(expiry[r]) = "between_requests"
          THEN Unrecorded(r) ELSE Recorded(r)
    /\ \A r \in Requests : request = r /\ expiry[r] # <<>>
                               => Head(expiry[r]) # "between_requests"
    /\ \A r \in Requests : r > current => expiry[r] = <<>>

\* What the snapshot has read, against what has happened since.
Reading ==
    /\ snap.at # "none" /\ snap.phase \in {"between_requests", "storing_bodies"}
            => snap.inside \in {None} \cup CloseDelimited
    /\ snap.at # "done" => snap.verdict = "unknown"
    /\ snap.at = "done" => snap.verdict = Verdict(snap.phase, snap.tcp)
    /\ snap.request <= current
    /\ snap.at \notin {"read", "done"} \/ snap.request = None => snap.tcp = None
    /\ snap.at = "read" /\ snap.request = request
            => snap.tcp \in {None, Other, snap.request}
    /\ SnapshotNotOfAnotherRequest
    /\ snap.at # "fd" \/ snap.request = None => snap.fd = None
    /\ snap.at \in {"completed", "fd", "read", "done"} /\ snap.request # None
            => snap.completed + 1 >= snap.request
    /\ snap.at \in {"completed", "fd", "read"} /\ snap.request # None /\ snap.request = request
            => snap.completed + 1 = snap.request
    /\ NumberedRight

Inv == TypeOK /\ Counting /\ Phasing /\ Owning /\ Recording /\ Reading

---------------------------------------------------------------------------------
(* The initial state, and the steps of the run's thread and of other threads. *)

\* The invariant holds before anything was recorded.
LEMMA InitInv == Init => Inv
<1> SUFFICES ASSUME Init PROVE Inv
  OBVIOUS
<1> USE RequestsAssumption, KindsAssumption, FdsAssumption
        DEF Init, None, Other, Requests
<1>1. TypeOK
  BY DEF TypeOK, Phases, Positions, NoSnap
<1>2. Counting /\ Phasing
  BY DEF Counting, Phasing, Shown, Either, Opening, Exchanging
<1>3. Owning
  BY DEF Owning, Unconnected, Kept, Exchanging, Own
<1>4. Recording
  BY DEF Recording, RecordOfOwnConnection, Unrecorded, RecordsOf
<1>5. Reading
  BY DEF Reading, NoSnap, SnapshotNotOfAnotherRequest, NumberedRight
<1> QED
  BY <1>1, <1>2, <1>3, <1>4, <1>5 DEF Inv

Records == [request : Requests, phase : Phases, tcp : {None, Other} \cup Requests]

\* tcp_state.read gives a state of the declared type.
LEMMA TcpReadTyped ==
    ASSUME TypeOK, NEW f \in {None} \cup Fds
    PROVE  TcpRead(f) \in {None, Other} \cup Requests
BY DEF TypeOK, TcpRead

\* on_timeout keeps the types of records and marks.
LEMMA TimeoutTyped ==
    ASSUME TypeOK, on_timeout
    PROVE  /\ timeouts' \in Seq(Records)
           /\ fd' \in [Requests -> {None} \cup Fds]
           /\ timed_out' \in [Requests -> BOOLEAN]
<1>0. timeouts \in Seq(Records)
  BY DEF TypeOK, Records
<1>1. CASE request = None \/ timed_out[request]
  BY <1>0, <1>1 DEF TypeOK, on_timeout, marks
<1>2. CASE ~(request = None \/ timed_out[request])
  <2>1. request \in Requests /\ fd[request] \in {None} \cup Fds
    BY <1>2 DEF TypeOK
  <2>2. TcpRead(fd[request]) \in {None, Other} \cup Requests
    BY <2>1, TcpReadTyped
  <2>3. [request |-> request, phase |-> phase, tcp |-> TcpRead(fd[request])] \in Records
    BY <2>1, <2>2 DEF TypeOK, Records
  <2>4. timeouts' = Append(timeouts, [request |-> request, phase |-> phase,
                                      tcp |-> TcpRead(fd[request])])
    BY <1>2 DEF on_timeout
  <2>5. timeouts' \in Seq(Records)
    BY <1>0, <2>3, <2>4
  <2>6. fd' = fd /\ timed_out' = [timed_out EXCEPT ![request] = TRUE]
    BY <1>2 DEF on_timeout
  <2> QED
    BY <2>5, <2>6 DEF TypeOK
<1> QED
  BY <1>1, <1>2

\* A timer that expires in a phase adds a phase to the history.
LEMMA ExpiryTyped ==
    ASSUME TypeOK, current \in Requests, TimerExpires
    PROVE  expiry' \in [Requests -> Seq(Phases)]
<1>1. Append(expiry[current], phase) \in Seq(Phases)
  BY DEF TypeOK
<1> QED
  BY <1>1 DEF TypeOK, TimerExpires

\* Hanging up keeps the type of the descriptor table.
LEMMA HangUpTyped ==
    ASSUME TypeOK, HangUp
    PROVE  sockets' \in [Fds -> {None, Other} \cup Requests]
BY DEF TypeOK, HangUp

\* The types of what the run's thread writes.
RunTyped ==
    /\ phase \in Phases /\ completed \in 0..MaxRequests
    /\ request \in {None} \cup Requests
    /\ timeouts \in Seq(Records)
    /\ fd \in [Requests -> {None} \cup Fds] /\ timed_out \in [Requests -> BOOLEAN]
    /\ pc \in Positions /\ current \in 0..MaxRequests /\ tried \in 0..MaxAddresses
    /\ expiry \in [Requests -> Seq(Phases)]
    /\ sockets \in [Fds -> {None, Other} \cup Requests]

\* Each step of the process keeps the types.
LEMMA TypeStep ==
    ASSUME TypeOK, Counting, Owning, RequestStep \/ OtherThread
    PROVE  RunTyped'
<1>0. RunTyped
  BY DEF TypeOK, RunTyped, Records
<1>00. pc \notin {"own", "storing", "done"} => current \in Requests
  BY RequestsAssumption DEF TypeOK, Counting, Requests
<1> USE RequestsAssumption DEF Counting, Shown, Either, Opening, Exchanging,
        Positions, HookClosing, Step, Enter, None, Requests, record, marks, work, thread
<1>1. CASE NewRequest
  BY <1>1, <1>0 DEF NewRequest, RunTyped, Phases
<1>2. CASE FirstSend
  BY <1>2, <1>0 DEF FirstSend, RunTyped, Phases
<1>3. CASE Resolve
  BY <1>3, <1>0 DEF Resolve, RunTyped, Phases
<1>4. CASE Resolved
  BY <1>4, <1>0 DEF Resolved, RunTyped, Phases
<1>5. CASE OpenSocket
  BY <1>5, <1>0, <1>00 DEF OpenSocket, RunTyped, Owning
<1>6. CASE EnterConnect
  BY <1>6, <1>0 DEF EnterConnect, RunTyped, Phases
<1>7. CASE KeepDescriptor
  BY <1>7, <1>0, <1>00 DEF KeepDescriptor, RunTyped, Owning
<1>8. CASE Connected
  BY <1>8, <1>0 DEF Connected, RunTyped, Phases
<1>9. CASE ConnectRefused
  BY <1>9, <1>0 DEF ConnectRefused, RunTyped, Phases
<1>10. CASE ConnectTimesOut
  BY <1>10, <1>0, <1>00, TimeoutTyped, ExpiryTyped DEF ConnectTimesOut, RunTyped
<1>11. CASE NextAddress
  BY <1>11, <1>0, HangUpTyped DEF NextAddress, RunTyped
<1>12. CASE EnterHandshake
  BY <1>12, <1>0 DEF EnterHandshake, RunTyped, Phases
<1>13. CASE Handshaken
  BY <1>13, <1>0 DEF Handshaken, RunTyped, Phases
<1>14. CASE HandshakeFails
  BY <1>14, <1>0, HangUpTyped DEF HandshakeFails, RunTyped
<1>15. CASE RecordHandshakeTimeout
  BY <1>15, <1>0, <1>00, TimeoutTyped, ExpiryTyped DEF RecordHandshakeTimeout, RunTyped
<1>16. CASE SendBody
  BY <1>16, <1>0 DEF SendBody, RunTyped, Phases
<1>17. CASE Sent
  BY <1>17, <1>0 DEF Sent, RunTyped, Phases
<1>18. CASE Await
  BY <1>18, <1>0 DEF Await, RunTyped, Phases
<1>19. CASE ReceiveHeaders
  BY <1>19, <1>0 DEF ReceiveHeaders, RunTyped, Phases
<1>20. CASE ReadBody
  BY <1>20, <1>0 DEF ReadBody, RunTyped, Phases
<1>21. CASE ReceiveChunk
  BY <1>21, <1>0 DEF ReceiveChunk, RunTyped, Phases
<1>22. CASE CloseEarly
  BY <1>22, <1>0 DEF CloseEarly, RunTyped, Phases
<1>23. CASE CloseEarlyCount
  BY <1>23, <1>0 DEF CloseEarlyCount, RunTyped, Phases
<1>24. CASE CloseEarlyEnter
  BY <1>24, <1>0 DEF CloseEarlyEnter, RunTyped, Phases
<1>25. CASE BodyRead
  BY <1>25, <1>0 DEF BodyRead, RunTyped, Phases
<1>26. CASE ExchangeTimesOut
  BY <1>26, <1>0, <1>00, TimeoutTyped, ExpiryTyped DEF ExchangeTimesOut, RunTyped
<1>27. CASE CloseHook
  BY <1>27, <1>0 DEF CloseHook, RunTyped, Phases
<1>28. CASE CloseCount
  BY <1>28, <1>0 DEF CloseCount, RunTyped, Phases
<1>29. CASE CloseEnter
  BY <1>29, <1>0 DEF CloseEnter, RunTyped, Phases
<1>30. CASE CloseSocket
  BY <1>30, <1>0, HangUpTyped DEF CloseSocket, RunTyped
<1>31. CASE StoreBodies
  BY <1>31, <1>0 DEF StoreBodies, RunTyped, Phases
<1>32. CASE RunEnds
  BY <1>32, <1>0 DEF RunEnds, RunTyped, Phases
<1>33. CASE OtherThread
  BY <1>33, <1>0 DEF OtherThread, RunTyped, Phases
<1>34. CASE ExchangeFails
  BY <1>34, <1>0 DEF ExchangeFails, RunTyped, Phases
<1> QED
  BY <1>1, <1>2, <1>3, <1>4, <1>5, <1>6, <1>7, <1>8, <1>9, <1>10, <1>11, <1>12, <1>13,
     <1>14, <1>15, <1>16, <1>17, <1>18, <1>19, <1>20, <1>21, <1>22, <1>23, <1>24, <1>25,
     <1>26, <1>27, <1>28, <1>29, <1>30, <1>31, <1>32, <1>33, <1>34 DEF RequestStep

\* The request is shown and counted according to the position.
LEMMA CountingStep ==
    ASSUME TypeOK, Counting, RequestStep \/ OtherThread
    PROVE  Counting'
<1> USE RequestsAssumption DEF TypeOK, Counting, Shown, Either, Opening, Exchanging,
        Positions, HookClosing, Step, Enter, None, Requests, record, marks, work, thread
<1>1. CASE NewRequest
  BY <1>1 DEF NewRequest
<1>2. CASE FirstSend
  BY <1>2 DEF FirstSend
<1>3. CASE Resolve
  BY <1>3 DEF Resolve
<1>4. CASE Resolved
  BY <1>4 DEF Resolved
<1>5. CASE OpenSocket
  BY <1>5 DEF OpenSocket
<1>6. CASE EnterConnect
  BY <1>6 DEF EnterConnect
<1>7. CASE KeepDescriptor
  BY <1>7 DEF KeepDescriptor
<1>8. CASE Connected
  BY <1>8 DEF Connected
<1>9. CASE ConnectRefused
  BY <1>9 DEF ConnectRefused
<1>10. CASE ConnectTimesOut
  BY <1>10 DEF ConnectTimesOut
<1>11. CASE NextAddress
  BY <1>11 DEF NextAddress
<1>12. CASE EnterHandshake
  BY <1>12 DEF EnterHandshake
<1>13. CASE Handshaken
  BY <1>13 DEF Handshaken
<1>14. CASE HandshakeFails
  BY <1>14 DEF HandshakeFails
<1>15. CASE RecordHandshakeTimeout
  BY <1>15 DEF RecordHandshakeTimeout
<1>16. CASE SendBody
  BY <1>16 DEF SendBody
<1>17. CASE Sent
  BY <1>17 DEF Sent
<1>18. CASE Await
  BY <1>18 DEF Await
<1>19. CASE ReceiveHeaders
  BY <1>19 DEF ReceiveHeaders
<1>20. CASE ReadBody
  BY <1>20 DEF ReadBody
<1>21. CASE ReceiveChunk
  BY <1>21 DEF ReceiveChunk
<1>22. CASE CloseEarly
  BY <1>22 DEF CloseEarly
<1>23. CASE CloseEarlyCount
  BY <1>23 DEF CloseEarlyCount
<1>24. CASE CloseEarlyEnter
  BY <1>24 DEF CloseEarlyEnter
<1>25. CASE BodyRead
  BY <1>25 DEF BodyRead
<1>26. CASE ExchangeTimesOut
  BY <1>26 DEF ExchangeTimesOut
<1>27. CASE CloseHook
  BY <1>27 DEF CloseHook
<1>28. CASE CloseCount
  BY <1>28 DEF CloseCount
<1>29. CASE CloseEnter
  BY <1>29 DEF CloseEnter
<1>30. CASE CloseSocket
  BY <1>30 DEF CloseSocket
<1>31. CASE StoreBodies
  BY <1>31 DEF StoreBodies
<1>32. CASE RunEnds
  BY <1>32 DEF RunEnds
<1>33. CASE OtherThread
  BY <1>33 DEF OtherThread
<1>34. CASE ExchangeFails
  BY <1>34 DEF ExchangeFails
<1> QED
  BY <1>1, <1>2, <1>3, <1>4, <1>5, <1>6, <1>7, <1>8, <1>9, <1>10, <1>11, <1>12, <1>13,
     <1>14, <1>15, <1>16, <1>17, <1>18, <1>19, <1>20, <1>21, <1>22, <1>23, <1>24, <1>25,
     <1>26, <1>27, <1>28, <1>29, <1>30, <1>31, <1>32, <1>33, <1>34 DEF RequestStep

\* The phase follows the position; `between_requests` is seen inside a request only
\* after an early close.
LEMMA PhasingStep ==
    ASSUME TypeOK, Counting, Phasing, RequestStep \/ OtherThread
    PROVE  Phasing'
<1> USE RequestsAssumption DEF TypeOK, Counting, Shown, Either, Phasing, Opening, Exchanging,
        Positions, HookClosing, Step, Enter, None, Requests, record, marks, work, thread
<1>1. CASE NewRequest
  BY <1>1 DEF NewRequest
<1>2. CASE FirstSend
  BY <1>2 DEF FirstSend
<1>3. CASE Resolve
  BY <1>3 DEF Resolve
<1>4. CASE Resolved
  BY <1>4 DEF Resolved
<1>5. CASE OpenSocket
  BY <1>5 DEF OpenSocket
<1>6. CASE EnterConnect
  BY <1>6 DEF EnterConnect
<1>7. CASE KeepDescriptor
  BY <1>7 DEF KeepDescriptor
<1>8. CASE Connected
  BY <1>8 DEF Connected
<1>9. CASE ConnectRefused
  BY <1>9 DEF ConnectRefused
<1>10. CASE ConnectTimesOut
  BY <1>10 DEF ConnectTimesOut
<1>11. CASE NextAddress
  BY <1>11 DEF NextAddress
<1>12. CASE EnterHandshake
  BY <1>12 DEF EnterHandshake
<1>13. CASE Handshaken
  BY <1>13 DEF Handshaken
<1>14. CASE HandshakeFails
  BY <1>14 DEF HandshakeFails
<1>15. CASE RecordHandshakeTimeout
  BY <1>15 DEF RecordHandshakeTimeout
<1>16. CASE SendBody
  BY <1>16 DEF SendBody
<1>17. CASE Sent
  BY <1>17 DEF Sent
<1>18. CASE Await
  BY <1>18 DEF Await
<1>19. CASE ReceiveHeaders
  BY <1>19 DEF ReceiveHeaders
<1>20. CASE ReadBody
  BY <1>20 DEF ReadBody
<1>21. CASE ReceiveChunk
  BY <1>21 DEF ReceiveChunk
<1>22. CASE CloseEarly
  BY <1>22 DEF CloseEarly
<1>23. CASE CloseEarlyCount
  BY <1>23 DEF CloseEarlyCount
<1>24. CASE CloseEarlyEnter
  BY <1>24 DEF CloseEarlyEnter
<1>25. CASE BodyRead
  BY <1>25 DEF BodyRead
<1>26. CASE ExchangeTimesOut
  BY <1>26 DEF ExchangeTimesOut
<1>27. CASE CloseHook
  BY <1>27 DEF CloseHook
<1>28. CASE CloseCount
  BY <1>28 DEF CloseCount
<1>29. CASE CloseEnter
  BY <1>29 DEF CloseEnter
<1>30. CASE CloseSocket
  BY <1>30 DEF CloseSocket
<1>31. CASE StoreBodies
  BY <1>31 DEF StoreBodies
<1>32. CASE RunEnds
  BY <1>32 DEF RunEnds
<1>33. CASE OtherThread
  BY <1>33 DEF OtherThread
<1>34. CASE ExchangeFails
  BY <1>34 DEF ExchangeFails
<1> QED
  BY <1>1, <1>2, <1>3, <1>4, <1>5, <1>6, <1>7, <1>8, <1>9, <1>10, <1>11, <1>12, <1>13,
     <1>14, <1>15, <1>16, <1>17, <1>18, <1>19, <1>20, <1>21, <1>22, <1>23, <1>24, <1>25,
     <1>26, <1>27, <1>28, <1>29, <1>30, <1>31, <1>32, <1>33, <1>34 DEF RequestStep

\* The request has one socket, and the descriptor the record keeps is its own.
LEMMA OwningStep ==
    ASSUME TypeOK, Counting, Owning, RequestStep \/ OtherThread
    PROVE  Owning'
<1> USE RequestsAssumption, FdsAssumption DEF TypeOK, Counting, Shown, Either, Owning, Unconnected, Kept,
        Own, HangUp, Opening, Exchanging, Positions, HookClosing, Step, Enter, None, Other,
        Requests, record, marks, work, thread
<1>1. CASE NewRequest
  BY <1>1 DEF NewRequest
<1>2. CASE FirstSend
  BY <1>2 DEF FirstSend
<1>3. CASE Resolve
  BY <1>3 DEF Resolve
<1>4. CASE Resolved
  <2>1. pc = "resolving" /\ pc' \in {"resolved", "over"} /\ tried' = 0
        /\ UNCHANGED <<current, sockets, fd, request, completed>>
    BY <1>4 DEF Resolved
  <2> QED
    BY <2>1
<1>5. CASE OpenSocket
  BY <1>5 DEF OpenSocket
<1>6. CASE EnterConnect
  BY <1>6 DEF EnterConnect
<1>7. CASE KeepDescriptor
  BY <1>7 DEF KeepDescriptor
<1>8. CASE Connected
  BY <1>8 DEF Connected
<1>9. CASE ConnectRefused
  BY <1>9 DEF ConnectRefused
<1>10. CASE ConnectTimesOut
  BY <1>10 DEF ConnectTimesOut, on_timeout
<1>11. CASE NextAddress
  BY <1>11 DEF NextAddress
<1>12. CASE EnterHandshake
  BY <1>12 DEF EnterHandshake
<1>13. CASE Handshaken
  BY <1>13 DEF Handshaken
<1>14. CASE HandshakeFails
  BY <1>14 DEF HandshakeFails
<1>15. CASE RecordHandshakeTimeout
  BY <1>15 DEF RecordHandshakeTimeout, on_timeout
<1>16. CASE SendBody
  BY <1>16 DEF SendBody
<1>17. CASE Sent
  BY <1>17 DEF Sent
<1>18. CASE Await
  BY <1>18 DEF Await
<1>19. CASE ReceiveHeaders
  BY <1>19 DEF ReceiveHeaders
<1>20. CASE ReadBody
  BY <1>20 DEF ReadBody
<1>21. CASE ReceiveChunk
  BY <1>21 DEF ReceiveChunk
<1>22. CASE CloseEarly
  BY <1>22 DEF CloseEarly
<1>23. CASE CloseEarlyCount
  BY <1>23 DEF CloseEarlyCount
<1>24. CASE CloseEarlyEnter
  BY <1>24 DEF CloseEarlyEnter
<1>25. CASE BodyRead
  BY <1>25 DEF BodyRead
<1>26. CASE ExchangeTimesOut
  BY <1>26 DEF ExchangeTimesOut, on_timeout
<1>27. CASE CloseHook
  BY <1>27 DEF CloseHook
<1>28. CASE CloseCount
  BY <1>28 DEF CloseCount
<1>29. CASE CloseEnter
  BY <1>29 DEF CloseEnter
<1>30. CASE CloseSocket
  BY <1>30 DEF CloseSocket
<1>31. CASE StoreBodies
  BY <1>31 DEF StoreBodies
<1>32. CASE RunEnds
  BY <1>32 DEF RunEnds
<1>33. CASE OtherThread
  BY <1>33 DEF OtherThread
<1>34. CASE ExchangeFails
  BY <1>34 DEF ExchangeFails
<1> QED
  BY <1>1, <1>2, <1>3, <1>4, <1>5, <1>6, <1>7, <1>8, <1>9, <1>10, <1>11, <1>12, <1>13,
     <1>14, <1>15, <1>16, <1>17, <1>18, <1>19, <1>20, <1>21, <1>22, <1>23, <1>24, <1>25,
     <1>26, <1>27, <1>28, <1>29, <1>30, <1>31, <1>32, <1>33, <1>34 DEF RequestStep

---------------------------------------------------------------------------------
(* The records. *)

\* Where no timer expires, what is recorded stays true.
LEMMA RecordingKept ==
    ASSUME TypeOK, Recording, UNCHANGED <<timeouts, timed_out, expiry>>,
           \/ request' \in {request, None} /\ current' = current
           \/ request' = current + 1 /\ current' = current + 1
    PROVE  Recording'
<1> USE RequestsAssumption DEF TypeOK, Requests, None
<1>1. /\ RecordOfOwnConnection'
      /\ \A r \in Requests : IF expiry'[r] = <<>> \/ Head(expiry'[r]) = "between_requests"
                              THEN Unrecorded(r)' ELSE Recorded(r)'
  <2>1. RecordOfOwnConnection'
    BY DEF Recording, RecordOfOwnConnection
  <2>2. ASSUME NEW r \in Requests
        PROVE  IF expiry'[r] = <<>> \/ Head(expiry'[r]) = "between_requests"
               THEN Unrecorded(r)' ELSE Recorded(r)'
    <3>1. RecordsOf(r)' = RecordsOf(r)
      BY DEF RecordsOf
    <3> QED
      BY <3>1 DEF Recording, Unrecorded, Recorded
  <2> QED
    BY <2>1, <2>2
<1>2. \A r \in Requests : request' = r /\ expiry'[r] # <<>>
                               => Head(expiry'[r]) # "between_requests"
  BY DEF Recording
<1>3. \A r \in Requests : r > current' => expiry'[r] = <<>>
  BY DEF Recording
<1> QED
  BY <1>1, <1>2, <1>3 DEF Recording

\* What the record says when a timer expires: nothing, once the connection was
\* closed early; else the request, in a phase of its own, and a descriptor that is
\* its connection's unless ssl has closed it.
Expiring ==
    \/ request = None /\ phase = "between_requests"
    \/ /\ request = current /\ phase # "between_requests"
       /\ phase # "tls_handshake" => TcpRead(fd[current]) = current

\* The first element of a sequence that was appended to.
LEMMA HeadOfAppend ==
    ASSUME NEW S, NEW s \in Seq(S), NEW e \in S
    PROVE  /\ Append(s, e) # <<>>
           /\ Head(Append(s, e)) = IF s = <<>> THEN e ELSE Head(s)
<1>1. CASE s = <<>>
  BY <1>1
<1>2. CASE s # <<>>
  <2>1. Len(s) \in Nat \ {0} /\ 1 \in DOMAIN s
    BY <1>2
  <2>2. Append(s, e)[1] = s[1] /\ Append(s, e) # <<>>
    BY <2>1
  <2> QED
    BY <1>2, <2>1, <2>2
<1> QED
  BY <1>1, <1>2

\* on_timeout leaves a first expiry one record and a later one none.
LEMMA TimeoutRecorded ==
    ASSUME TypeOK, Recording, current \in Requests, Expiring, on_timeout, TimerExpires,
           UNCHANGED <<request, current>>
    PROVE  Recording'
<1> DEFINE Kind(r) == IF expiry[r] = <<>> \/ Head(expiry[r]) = "between_requests"
                      THEN Unrecorded(r) ELSE Recorded(r)
<1>1. /\ expiry'[current] = Append(expiry[current], phase)
      /\ \A r \in Requests \ {current} : expiry'[r] = expiry[r]
  BY DEF TypeOK, TimerExpires
<1>2. /\ expiry'[current] # <<>>
      /\ Head(expiry'[current]) = IF expiry[current] = <<>> THEN phase ELSE Head(expiry[current])
  BY <1>1, HeadOfAppend DEF TypeOK
<1>3. \A r \in Requests : r > current' => expiry'[r] = <<>>
  BY <1>1, RequestsAssumption DEF Recording, Requests
<1>4. \A r \in Requests : request' = r /\ expiry'[r] # <<>>
                               => Head(expiry'[r]) # "between_requests"
  BY <1>1, <1>2, RequestsAssumption DEF Recording, Expiring, Requests, None
<1>5. Kind(current)
  BY DEF Recording
<1>6. CASE request = None \/ timed_out[request]
  <2>1. UNCHANGED <<timeouts, timed_out>>
    BY <1>6 DEF on_timeout, marks
  <2>2. RecordOfOwnConnection'
    BY <2>1 DEF Recording, RecordOfOwnConnection
  <2>3. \A r \in Requests : RecordsOf(r)' = RecordsOf(r)
    BY <2>1 DEF RecordsOf
  <2>4. \A r \in Requests \ {current} : Kind(r)'
    BY <1>1, <2>1, <2>3 DEF Recording, Unrecorded, Recorded
  <2>5. Kind(current)'
    <3>1. CASE expiry[current] = <<>>
      <4>1. ~timed_out[current]
        BY <1>5, <3>1 DEF Unrecorded
      <4>2. phase = "between_requests"
        <5>1. CASE request = current
          BY <1>6, <4>1, <5>1, RequestsAssumption DEF Requests, None
        <5> QED
          BY <5>1 DEF Expiring
      <4> QED
        BY <1>2, <1>5, <2>1, <2>3, <3>1, <4>1, <4>2 DEF Unrecorded, RecordsOf
    <3>2. CASE expiry[current] # <<>>
      <4>1. Head(expiry'[current]) = Head(expiry[current])
        BY <1>2, <3>2
      <4> QED
        BY <1>2, <1>5, <2>1, <2>3, <3>2, <4>1 DEF Unrecorded, Recorded
    <3> QED
      BY <3>1, <3>2
  <2> QED
    BY <1>3, <1>4, <2>2, <2>4, <2>5 DEF Recording
<1>7. CASE ~(request = None \/ timed_out[request])
  <2> DEFINE rec == [request |-> current, phase |-> phase, tcp |-> TcpRead(fd[current])]
             n == Len(timeouts) + 1
  <2>1. request = current /\ phase # "between_requests"
    BY <1>7 DEF Expiring
  <2>2. timeouts' = Append(timeouts, rec) /\ timed_out' = [timed_out EXCEPT ![current] = TRUE]
    BY <1>7, <2>1 DEF on_timeout
  <2>3. /\ DOMAIN timeouts' = DOMAIN timeouts \cup {n} /\ n \notin DOMAIN timeouts
        /\ timeouts'[n] = rec /\ \A i \in DOMAIN timeouts : timeouts'[i] = timeouts[i]
    BY <2>2 DEF TypeOK
  <2>4. rec.request = current /\ rec.phase = phase /\ rec.tcp = TcpRead(fd[current])
    OBVIOUS
  <2>5. RecordOfOwnConnection'
    <3>1. phase # "tls_handshake" => TcpRead(fd[current]) = current
      BY <1>7 DEF Expiring
    <3> HIDE DEF rec, n
    <3> QED
      BY <2>3, <2>4, <3>1 DEF Recording, RecordOfOwnConnection
  <2>6. expiry[current] = <<>> /\ RecordsOf(current) = {}
    <3>1. expiry[current] # <<>> => Head(expiry[current]) # "between_requests"
      BY <2>1 DEF Recording
    <3> QED
      BY <1>5, <1>7, <2>1, <3>1 DEF Unrecorded, Recorded
  <2>7. Kind(current)'
    <3>1. RecordsOf(current)' = {n} /\ timeouts'[n].phase = phase
      <4> HIDE DEF rec, n
      <4> QED
        BY <2>3, <2>4, <2>6 DEF RecordsOf
    <3>2. Head(expiry'[current]) = phase
      BY <1>2, <2>6
    <3>3. timed_out'[current]
      BY <2>2 DEF TypeOK
    <3> HIDE DEF rec, n
    <3> QED
      BY <1>2, <2>1, <3>1, <3>2, <3>3 DEF Recorded
  <2>8. ASSUME NEW r \in Requests \ {current} PROVE Kind(r)'
    <3>1. RecordsOf(r)' = RecordsOf(r) /\ \A i \in RecordsOf(r) : timeouts'[i] = timeouts[i]
      <4> HIDE DEF rec, n
      <4> QED
        BY <2>3, <2>4 DEF RecordsOf
    <3>2. timed_out'[r] = timed_out[r] /\ expiry'[r] = expiry[r]
      BY <1>1, <2>2 DEF TypeOK
    <3>3. Kind(r)
      BY DEF Recording
    <3> QED
      BY <3>1, <3>2, <3>3 DEF Unrecorded, Recorded
  <2> QED
    BY <1>3, <1>4, <2>5, <2>7, <2>8 DEF Recording
<1> QED
  BY <1>6, <1>7

\* Every step of the process keeps the records right.
LEMMA RecordingStep ==
    ASSUME TypeOK, Counting, Phasing, Owning, Recording, RequestStep \/ OtherThread
    PROVE  Recording'
<1>0. pc \notin {"own", "storing", "done"} => current \in Requests
  BY RequestsAssumption DEF TypeOK, Counting, Requests
<1> USE RequestsAssumption, FdsAssumption DEF Counting, Shown, Either, Opening, Exchanging,
        Step, Enter, None, Requests, record, marks, work, thread
<1>1. CASE NewRequest
  BY <1>1, RecordingKept DEF NewRequest
<1>2. CASE FirstSend \/ Resolve \/ Resolved
  BY <1>2, RecordingKept DEF FirstSend, Resolve, Resolved
<1>3. CASE OpenSocket \/ EnterConnect \/ KeepDescriptor
  BY <1>3, RecordingKept DEF OpenSocket, EnterConnect, KeepDescriptor
<1>4. CASE Connected \/ ConnectRefused \/ NextAddress
  BY <1>4, RecordingKept DEF Connected, ConnectRefused, NextAddress
<1>5. CASE EnterHandshake \/ Handshaken \/ HandshakeFails
  BY <1>5, RecordingKept DEF EnterHandshake, Handshaken, HandshakeFails
<1>6. CASE SendBody \/ Sent \/ Await \/ ReceiveHeaders
  BY <1>6, RecordingKept DEF SendBody, Sent, Await, ReceiveHeaders
<1>7. CASE ReadBody \/ ReceiveChunk \/ BodyRead \/ ExchangeFails
  BY <1>7, RecordingKept DEF ReadBody, ReceiveChunk, BodyRead, ExchangeFails
<1>8. CASE CloseEarly \/ CloseEarlyCount \/ CloseEarlyEnter
  BY <1>8, RecordingKept DEF CloseEarly, CloseEarlyCount, CloseEarlyEnter
<1>9. CASE CloseHook \/ CloseCount \/ CloseEnter \/ CloseSocket
  BY <1>9, RecordingKept DEF CloseHook, CloseCount, CloseEnter, CloseSocket
<1>10. CASE StoreBodies \/ RunEnds \/ OtherThread
  BY <1>10, RecordingKept DEF StoreBodies, RunEnds, OtherThread
<1>11. CASE ConnectTimesOut
  <2>1. Expiring
    BY <1>11 DEF ConnectTimesOut, Expiring, Phasing, Owning, Kept, TcpRead
  <2> QED
    BY <1>11, <1>0, <2>1, TimeoutRecorded DEF ConnectTimesOut
<1>12. CASE RecordHandshakeTimeout
  <2>1. Expiring
    BY <1>12 DEF RecordHandshakeTimeout, Expiring, Phasing, Owning, Kept, TcpRead
  <2> QED
    BY <1>12, <1>0, <2>1, TimeoutRecorded DEF RecordHandshakeTimeout
<1>13. CASE ExchangeTimesOut
  <2>1. Expiring
    BY <1>13 DEF ExchangeTimesOut, Expiring, Phasing, Owning, Kept, TcpRead
  <2> QED
    BY <1>13, <1>0, <2>1, TimeoutRecorded DEF ExchangeTimesOut
<1> QED
  BY <1>1, <1>2, <1>3, <1>4, <1>5, <1>6, <1>7, <1>8, <1>9, <1>10, <1>11, <1>12, <1>13
     DEF RequestStep

---------------------------------------------------------------------------------
(* The snapshot. *)

\* What was read of a request stays true of it, or it is no longer the record's.
LEMMA ReadingKept ==
    ASSUME TypeOK, Reading, UNCHANGED snap,
           \/ request' \in {request, None} /\ current' = current
           \/ request' = current + 1 /\ current' = current + 1
    PROVE  Reading'
BY RequestsAssumption DEF TypeOK, Reading, SnapshotNotOfAnotherRequest, NumberedRight, Requests,
   None, Verdict

\* So the process may do what it likes while the snapshot is under way.
LEMMA ReadingStep ==
    ASSUME TypeOK, Counting, Reading, RequestStep \/ OtherThread, UNCHANGED snap
    PROVE  Reading'
<1> USE RequestsAssumption DEF Counting, Shown, Either, Opening, Exchanging, Step, Enter,
        record, marks, work, thread
<1>1. CASE NewRequest
  BY <1>1, ReadingKept DEF NewRequest
<1>2. CASE FirstSend \/ Resolve \/ Resolved
  BY <1>2, ReadingKept DEF FirstSend, Resolve, Resolved
<1>3. CASE OpenSocket \/ EnterConnect \/ KeepDescriptor
  BY <1>3, ReadingKept DEF OpenSocket, EnterConnect, KeepDescriptor
<1>4. CASE Connected \/ ConnectRefused \/ NextAddress
  BY <1>4, ReadingKept DEF Connected, ConnectRefused, NextAddress
<1>5. CASE EnterHandshake \/ Handshaken \/ HandshakeFails
  BY <1>5, ReadingKept DEF EnterHandshake, Handshaken, HandshakeFails
<1>6. CASE SendBody \/ Sent \/ Await \/ ReceiveHeaders
  BY <1>6, ReadingKept DEF SendBody, Sent, Await, ReceiveHeaders
<1>7. CASE ReadBody \/ ReceiveChunk \/ BodyRead \/ ExchangeFails
  BY <1>7, ReadingKept DEF ReadBody, ReceiveChunk, BodyRead, ExchangeFails
<1>8. CASE CloseEarly \/ CloseEarlyCount \/ CloseEarlyEnter
  BY <1>8, ReadingKept DEF CloseEarly, CloseEarlyCount, CloseEarlyEnter
<1>9. CASE ConnectTimesOut \/ RecordHandshakeTimeout \/ ExchangeTimesOut
  BY <1>9, ReadingKept DEF ConnectTimesOut, RecordHandshakeTimeout, ExchangeTimesOut
<1>10. CASE CloseHook \/ CloseCount \/ CloseEnter \/ CloseSocket
  BY <1>10, ReadingKept DEF CloseHook, CloseCount, CloseEnter, CloseSocket
<1>11. CASE StoreBodies \/ RunEnds \/ OtherThread
  BY <1>11, ReadingKept DEF StoreBodies, RunEnds, OtherThread
<1> QED
  BY <1>1, <1>2, <1>3, <1>4, <1>5, <1>6, <1>7, <1>8, <1>9, <1>10, <1>11 DEF RequestStep

\* Inside a request the record still shows, the phase is one of a request; inside
\* one that it does not, the connection was closed early.
LEMMA InsidePhase ==
    ASSUME TypeOK, Counting, Phasing, phase \in {"between_requests", "storing_bodies"}
    PROVE  Inside \in {None} \cup CloseDelimited
BY RequestsAssumption DEF TypeOK, Counting, Phasing, Inside, Shown, Either, Opening, Exchanging,
   Requests, None

\* Each read of the snapshot, and what it concludes.
LEMMA SnapshotReading ==
    ASSUME TypeOK, Counting, Phasing, Owning, Reading, Snapshot
    PROVE  Reading'
<1> USE RequestsAssumption, FdsAssumption DEF Reading, SnapshotNotOfAnotherRequest, NumberedRight
<1>0. UNCHANGED <<phase, request, current, completed, fd, sockets>>
  BY DEF Snapshot, record, marks, work, thread
<1>1. /\ request = None \/ (request = current /\ completed = current - 1)
      /\ completed + 1 >= current /\ current \in Nat /\ completed \in Nat
  BY DEF TypeOK, Counting, Shown, Either, Positions, Opening, Exchanging, HookClosing
<1>2. CASE ReadPhase
  <2>1. phase \in {"between_requests", "storing_bodies"}
            => Inside \in {None} \cup CloseDelimited
    BY InsidePhase
  <2>2. /\ snap'.at = "phase" /\ snap'.phase = phase /\ snap'.inside = Inside
        /\ snap'.request = snap.request /\ snap'.tcp = snap.tcp
        /\ snap'.verdict = snap.verdict
    BY <1>2 DEF TypeOK, ReadPhase
  <2> QED
    BY <1>0, <1>2, <2>1, <2>2 DEF ReadPhase
<1>3. CASE ReadRequest
  BY <1>0, <1>1, <1>3 DEF TypeOK, ReadRequest, Verdict, None, Requests
<1>4. CASE ReadNothing
  BY <1>0, <1>4 DEF TypeOK, ReadNothing, Verdict
<1>5. CASE ReadCompleted
  <2>1. /\ snap.at = "request" /\ snap'.at = "completed" /\ snap'.completed = completed
        /\ snap'.phase = snap.phase /\ snap'.inside = snap.inside /\ snap'.fd = snap.fd
        /\ snap'.request = snap.request /\ snap'.tcp = snap.tcp
        /\ snap'.verdict = snap.verdict
    BY <1>5 DEF TypeOK, ReadCompleted
  <2>2. snap.request \in Nat
    BY DEF TypeOK, Requests, None
  <2> QED
    BY <1>0, <1>1, <2>1, <2>2
<1>6. CASE ReadTcp
  <2>1. TcpRead(snap.fd) \in {None, Other, current} /\ (snap.fd = None => TcpRead(snap.fd) = None)
    BY DEF TypeOK, TcpRead, Owning
  <2> QED
    BY <1>0, <1>1, <1>6, <2>1 DEF TypeOK, ReadTcp, Verdict
<1>7. CASE ReadFd
  BY <1>0, <1>7 DEF TypeOK, ReadFd, Verdict
<1>8. CASE Confirm
  BY <1>0, <1>8 DEF TypeOK, Confirm, Verdict
<1> QED
  BY <1>2, <1>3, <1>4, <1>5, <1>6, <1>7, <1>8 DEF Snapshot

Snaps == [at : {"none", "phase", "request", "completed", "fd", "read", "done", "nothing"},
          phase : Phases, request : {None} \cup Requests, completed : 0..MaxRequests,
          fd : {None} \cup Fds, tcp : {None, Other} \cup Requests,
          verdict : {"agent", "network", "unknown", "by_tcp"},
          inside : {None} \cup Requests]

\* The snapshot is of the declared type.
LEMMA SnapshotTyped ==
    ASSUME TypeOK, Snapshot
    PROVE  snap' \in Snaps
<1>0. snap \in Snaps /\ Inside \in {None} \cup Requests
  <2>1. Inside \in 0..MaxRequests
    BY RequestsAssumption DEF TypeOK, Inside, None
  <2> QED
    BY <2>1, RequestsAssumption DEF TypeOK, Snaps, None, Requests
<1>1. \A f \in {None} \cup Fds : TcpRead(f) \in {None, Other} \cup Requests
  BY DEF TypeOK, TcpRead
<1>2. \A ph, tcp : Verdict(ph, tcp) \in {"agent", "network", "unknown", "by_tcp"}
  BY DEF Verdict
<1>3. CASE ReadPhase
  BY <1>0, <1>3 DEF TypeOK, ReadPhase, Snaps
<1>4. CASE ReadRequest
  BY <1>0, <1>4 DEF TypeOK, ReadRequest, Snaps
<1>5. CASE ReadNothing
  BY <1>0, <1>5 DEF ReadNothing, Snaps
<1>6. CASE ReadCompleted
  BY <1>0, <1>6 DEF TypeOK, ReadCompleted, Snaps
<1>7. CASE ReadFd
  BY <1>0, <1>7 DEF TypeOK, ReadFd, Snaps
<1>8. CASE ReadTcp
  <2>1. TcpRead(snap.fd) \in {None, Other} \cup Requests
    BY <1>0, <1>1 DEF Snaps
  <2> QED
    BY <1>0, <1>8, <2>1 DEF ReadTcp, Snaps
<1>9. CASE Confirm
  BY <1>0, <1>2, <1>9 DEF Confirm, Snaps
<1> QED
  BY <1>3, <1>4, <1>5, <1>6, <1>7, <1>8, <1>9 DEF Snapshot

---------------------------------------------------------------------------------
(* The theorems. *)

\* Every step keeps the invariant.
LEMMA NextInv == Inv /\ [Next]_vars => Inv'
<1> SUFFICES ASSUME Inv, [Next]_vars PROVE Inv'
  OBVIOUS
<1> USE DEF Inv
<1>1. CASE (RequestStep \/ OtherThread) /\ UNCHANGED snap
  <2>1. TypeOK'
    BY <1>1, TypeStep DEF TypeOK, RunTyped, Records
  <2> QED
    BY <1>1, <2>1, CountingStep, PhasingStep, OwningStep, RecordingStep, ReadingStep
<1>2. CASE Snapshot
  <2>1. UNCHANGED <<record, marks, thread, sockets>>
    BY <1>2 DEF Snapshot
  <2>2. TypeOK'
    BY <1>2, <2>1, SnapshotTyped DEF TypeOK, Snaps, record, marks, thread, work
  <2>3. Counting' /\ Phasing' /\ Owning'
    BY <2>1 DEF Counting, Phasing, Owning, Own, record, marks, thread, work
  <2>4. Recording'
    BY <2>1, RecordingKept DEF record, marks, thread, work
  <2> QED
    BY <1>2, <2>2, <2>3, <2>4, SnapshotReading
<1>3. CASE UNCHANGED vars
  <2>1. UNCHANGED <<record, marks, thread, sockets, snap>>
    BY <1>3 DEF vars
  <2>2. TypeOK'
    BY <2>1 DEF TypeOK, record, marks, thread, work
  <2>3. Counting' /\ Phasing' /\ Owning'
    BY <2>1 DEF Counting, Phasing, Owning, Own, record, marks, thread, work
  <2>4. Recording' /\ Reading'
    BY <2>1, RecordingKept, ReadingKept DEF record, marks, thread, work
  <2> QED
    BY <2>2, <2>3, <2>4
<1> QED
  BY <1>1, <1>2, <1>3 DEF Next

\* What holds at every position of the run's thread, and of the snapshot.
THEOREM Invariance == Spec => []Inv
<1>1. Init => Inv
  BY InitInv
<1>2. Inv /\ [Next]_vars => Inv'
  BY NextInv
<1> QED
  BY <1>1, <1>2, PTL DEF Spec

\* Record, marks, sockets and snapshot are of the declared types: count and
\* addresses stay within their bounds.
THEOREM TypeCorrect == Spec => []TypeOK
<1>1. Inv => TypeOK
  BY DEF Inv
<1> QED
  BY <1>1, Invariance, PTL

\* Counting is right however often close() runs, and the snapshot reads the count
\* after the request: the number it gives a request is never too low, and right
\* while it was the run's until the end of the reading.
THEOREM NumberNeverTooLow == Spec => []NumberedRight
<1>1. Inv => NumberedRight
  BY DEF Inv, Reading
<1> QED
  BY <1>1, Invariance, PTL

\* on_timeout reads the TCP state of its own request's connection, though
\* descriptors are closed behind the hooks and taken by others at once.
THEOREM OwnConnectionRecorded == Spec => []RecordOfOwnConnection
<1>1. Inv => RecordOfOwnConnection
  BY DEF Inv, Recording
<1> QED
  BY <1>1, Invariance, PTL

\* The first expiry of a request is what its one record says, whatever follows.
THEOREM FirstExpiryKept == Spec => []FirstExpiryRecorded
<1>1. Inv => FirstExpiryRecorded
  BY DEF Inv, Recording, FirstExpiryRecorded, Recorded, Unrecorded, RecordsOf
<1> QED
  BY <1>1, Invariance, PTL

\* Confirm() is enough: no lock is needed for a snapshot never to judge a request
\* by another request's connection.
THEOREM SnapshotOfOneRequest == Spec => []SnapshotNotOfAnotherRequest
<1>1. Inv => SnapshotNotOfAnotherRequest
  BY DEF Inv, Reading
<1> QED
  BY <1>1, Invariance, PTL

\* The agent takes the blame only between requests, or for a body read after an
\* early close.
THEOREM AgentBlamedBetweenRequests == Spec => []AgentVerdictUnlessClosedEarly
<1>1. Inv => AgentVerdictUnlessClosedEarly
  BY DEF Inv, Reading, AgentVerdictUnlessClosedEarly, Verdict
<1> QED
  BY <1>1, Invariance, PTL
=================================================================================
