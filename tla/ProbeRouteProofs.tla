---------------------------- MODULE ProbeRouteProofs ----------------------------
(***************************************************************************)
(* Theorems about ProbeRoute.  Under the route the runs behave as          *)
(* RunContext says (RunsBehave), so what RunContextProofs shows of the     *)
(* runs alone holds of them behind the route.  For the answers the         *)
(* invariant ties each to where its job stands: an answer that names a     *)
(* cause is given only in the stages that cause belongs to, and a sealed   *)
(* dispatch becomes a job only on an agent that holds its key.             *)
(***************************************************************************)
EXTENDS ProbeRoute, RunContextProofs

AnswerAt(r) ==
    /\ reply[r] \in {"payload_undecryptable", "payload_encryption_unavailable"}
           => stage[r] = "new"
    /\ reply[r] = "at_capacity" => stage[r] = "refused"
    /\ stage[r] = "refused" => reply[r] = "at_capacity"
    /\ reply[r] \in {"result", "sealed_result"} => stage[r] \in {"running", "ok", "error"}
    /\ reply[r] \in {"result", "sealed_result"} /\ budget[r] = 0 => stage[r] = "ok"
    /\ reply[r] = "result" => ~request[r].sealed
    /\ reply[r] = "sealed_result" => request[r].sealed
    /\ stage[r] # "new" /\ request[r].sealed => keyHeld
    /\ budget[r] # 0 => budget[r] \in MinBudget .. MaxBudget

RouteTypeOK ==
    /\ keyHeld \in BOOLEAN
    /\ request \in [Runs -> Requests]
    /\ budget \in [Runs -> 0 .. MaxBudget]
    /\ reply \in [Runs -> Replies]

RouteInv == RouteTypeOK /\ \A r \in Runs : AnswerAt(r)

---------------------------------------------------------------------------------
(* The runs behind the route. *)

\* A step of the route is a step of the runs beneath it, or leaves the runs alone.
LEMMA RunsStep == [Next]_vars => [RunNext]_runVars
<1> SUFFICES ASSUME [Next]_vars PROVE [RunNext]_runVars
  OBVIOUS
<1>1. CASE ThreadStep
  BY <1>1 DEF RunNext
<1>2. ASSUME NEW r \in Runs, NEW q \in Dispatches[r], NEW raw \in RawBudgets, Receive(r, q, raw)
      PROVE  [RunNext]_runVars
  BY <1>2 DEF Receive, RunNext
<1>3. ASSUME NEW r \in Runs, AnswerResult(r) \/ AnswerError(r)
      PROVE  [RunNext]_runVars
  BY <1>3 DEF AnswerResult, AnswerError
<1>4. ASSUME NEW r \in Runs, AnswerAtCapacity(r)
      PROVE  [RunNext]_runVars
  BY <1>4 DEF AnswerAtCapacity, RunNext
<1>5. CASE UNCHANGED vars
  BY <1>5 DEF vars
<1> QED
  BY <1>1, <1>2, <1>3, <1>4, <1>5 DEF Next

\* The route drives the runs as RunContext allows: it submits a job once, refuses
\* only one that no thread took, and touches nothing else of a run.
THEOREM RunsBehave == Spec => RunSpec
<1>1. Init => RunInit
  BY DEF Init
<1> QED
  BY <1>1, RunsStep, PTL DEF Spec, RunSpec

---------------------------------------------------------------------------------
(* The answers. *)

\* What a step of the pools may do to a job's stage.
LEMMA StagesMove ==
    ASSUME RunInv, ThreadStep
    PROVE  \A r \in Runs : \/ stage'[r] = stage[r]
                           \/ stage[r] = "submitted" /\ stage'[r] = "running"
                           \/ stage[r] = "running" /\ stage'[r] \in {"ok", "error"}
<1>1. RunTypeOK /\ ThreadInv
  BY DEF RunInv
<1>2. ASSUME NEW t \in PoolThreads, NEW r \in Runs, BeginRun(t, r)
      PROVE  \A q \in Runs : \/ stage'[q] = stage[q]
                             \/ stage[q] = "submitted" /\ stage'[q] = "running"
  BY <1>1, <1>2 DEF BeginRun, RunTypeOK
<1>3. ASSUME NEW t \in PoolThreads, EndRun(t)
      PROVE  \A q \in Runs : \/ stage'[q] = stage[q]
                             \/ stage[q] = "running" /\ stage'[q] \in {"ok", "error"}
  <2>1. t \in Threads /\ ThreadAt(t)
    BY <1>1 DEF ThreadInv, Threads
  <2>2. run[t] \in Runs /\ stage[run[t]] = "running"
    BY <1>1, <1>3, <2>1 DEF EndRun, ThreadAt, RunTypeOK, Free
  <2>3. stage' = [stage EXCEPT ![run[t]] = IF pc[t] = "raised" THEN "error" ELSE "ok"]
    BY <1>3 DEF EndRun
  <2> QED
    BY <1>1, <2>2, <2>3 DEF RunTypeOK
<1>4. ASSUME NEW t \in PoolThreads, PoolStep(t), ~EndRun(t)
      PROVE  stage' = stage
  BY <1>4 DEF PoolStep, SetupRaises, EnterContexts, LeaveContexts, Call, Connect,
              ConnectFails, Respond, Redirect, UploadBody, UploadRaises, jobVars
<1>5. ASSUME NEW t \in DefaultThreads, DefaultStep(t)
      PROVE  stage' = stage
  BY <1>5 DEF DefaultStep, HealthChallenge, BeginReach, ReachConnects, EndReach, jobVars
<1> QED
  BY <1>2, <1>3, <1>4, <1>5 DEF ThreadStep

\* Whatever number is sent, the budget is none or in the range.
LEMMA Clamped ==
    ASSUME NEW raw \in RawBudgets
    PROVE  /\ sanitise_run_budget(raw) \in 0 .. MaxBudget
           /\ sanitise_run_budget(raw) # 0
                  => sanitise_run_budget(raw) \in MinBudget .. MaxBudget
<1>1. raw.half \in Int
  <2>1. CASE raw \in [is : {"number"}, half : Halves]
    BY <2>1, RouteAssumption
  <2>2. CASE raw \in [is : {"absent", "infinite", "other"}, half : {0}]
    BY <2>2
  <2> QED
    BY <2>1, <2>2 DEF RawBudgets
<1>2. as_int(raw) \in Int
  BY <1>1 DEF as_int
<1> QED
  BY <1>2, RouteAssumption DEF sanitise_run_budget

\* Before any request arrives the route owes nobody an answer.
LEMMA RouteInit == Init => RouteInv
<1> SUFFICES ASSUME Init PROVE RouteInv
  OBVIOUS
<1>1. NoRequest \in Requests
  BY DEF NoRequest, Requests
<1>2. RouteTypeOK
  BY <1>1, RouteAssumption DEF Init, RouteTypeOK, Replies
<1>3. \A r \in Runs : AnswerAt(r)
  BY DEF Init, RunInit, AnswerAt
<1> QED
  BY <1>2, <1>3 DEF RouteInv

\* Reading, unsealing and clamping a dispatch keeps the route consistent.
LEMMA ReceiveKeeps ==
    ASSUME RouteInv, RunTypeOK, NEW r \in Runs, NEW q \in Dispatches[r],
           NEW raw \in RawBudgets, Receive(r, q, raw)
    PROVE  RouteInv'
<1>1. q \in Requests
  BY RouteAssumption
<1>2. /\ stage[r] = "new" /\ reply[r] = "none"
      /\ request' = [request EXCEPT ![r] = q] /\ keyHeld' = keyHeld
  BY DEF Receive
<1>3. CASE Rejection(q, raw) = "none"
  <2>1. /\ stage' = [stage EXCEPT ![r] = "submitted"]
        /\ budget' = [budget EXCEPT ![r] = sanitise_run_budget(raw)]
        /\ reply' = reply
    BY <1>3 DEF Receive, Submit
  <2>2. q.sealed => keyHeld
    BY <1>3 DEF Rejection
  <2>3. RouteTypeOK'
    BY <1>1, <1>2, <2>1, Clamped DEF RouteInv, RouteTypeOK
  <2>4. AnswerAt(r)'
    BY <1>2, <2>1, <2>2, Clamped DEF RouteInv, RouteTypeOK, RunTypeOK, AnswerAt
  <2>5. ASSUME NEW u \in Runs, u # r PROVE AnswerAt(u)'
    BY <1>2, <2>1, <2>5 DEF RouteInv, RouteTypeOK, RunTypeOK, AnswerAt
  <2> QED
    BY <2>3, <2>4, <2>5 DEF RouteInv
<1>4. CASE Rejection(q, raw) # "none"
  <2>1. /\ reply' = [reply EXCEPT ![r] = Rejection(q, raw)]
        /\ stage' = stage /\ budget' = budget
    BY <1>4 DEF Receive, runVars, jobVars
  <2>2. Rejection(q, raw) \in {"payload_encryption_unavailable", "payload_undecryptable",
                               "server_error"}
    BY <1>4 DEF Rejection
  <2>3. RouteTypeOK'
    BY <1>1, <1>2, <2>1, <2>2 DEF RouteInv, RouteTypeOK, Replies
  <2>4. AnswerAt(r)'
    BY <1>2, <2>1, <2>2 DEF RouteInv, RouteTypeOK, RunTypeOK, AnswerAt
  <2>5. ASSUME NEW u \in Runs, u # r PROVE AnswerAt(u)'
    BY <1>2, <2>1, <2>5 DEF RouteInv, RouteTypeOK, RunTypeOK, AnswerAt
  <2> QED
    BY <2>3, <2>4, <2>5 DEF RouteInv
<1> QED
  BY <1>3, <1>4

\* Each of the three ways to answer a request keeps the route consistent.
LEMMA AnswerKeeps ==
    ASSUME RouteInv, RunTypeOK, NEW r \in Runs,
           AnswerResult(r) \/ AnswerError(r) \/ AnswerAtCapacity(r)
    PROVE  RouteInv'
<1>1. /\ reply[r] = "none" /\ stage[r] # "new"
      /\ keyHeld' = keyHeld /\ request' = request /\ budget' = budget
  BY DEF AnswerResult, AnswerError, AnswerAtCapacity, Waiting
<1>2. PICK a : /\ reply' = [reply EXCEPT ![r] = a]
               /\ \/ /\ a = Answered(request[r]) /\ stage' = stage
                     /\ stage[r] = "ok" \/ (budget[r] # 0 /\ stage[r] \in {"running", "error"})
                  \/ a = "server_error" /\ stage' = stage /\ stage[r] = "error"
                  \/ /\ a = "at_capacity" /\ stage[r] = "submitted"
                     /\ stage' = [stage EXCEPT ![r] = "refused"]
  BY DEF AnswerResult, AnswerError, AnswerAtCapacity, Refuse, runVars, jobVars
<1>3. /\ Answered(request[r]) \in {"result", "missing_reply_certificate", "server_error",
                                   "sealed_result"}
      /\ Answered(request[r]) = "result" => ~request[r].sealed
      /\ Answered(request[r]) = "sealed_result" => request[r].sealed
  BY DEF Answered
<1>4. RouteTypeOK'
  BY <1>1, <1>2, <1>3 DEF RouteInv, RouteTypeOK, Replies
<1>5. AnswerAt(r)'
  BY <1>1, <1>2, <1>3 DEF RouteInv, RouteTypeOK, RunTypeOK, AnswerAt
<1>6. ASSUME NEW u \in Runs, u # r PROVE AnswerAt(u)'
  BY <1>1, <1>2, <1>6 DEF RouteInv, RouteTypeOK, RunTypeOK, AnswerAt
<1> QED
  BY <1>4, <1>5, <1>6 DEF RouteInv

\* What the pools do between requests leaves every answer valid.
LEMMA PoolsKeep ==
    ASSUME RouteInv, RunInv, ThreadStep, UNCHANGED routeVars
    PROVE  RouteInv'
<1>1. /\ keyHeld' = keyHeld /\ request' = request /\ budget' = budget /\ reply' = reply
  BY DEF routeVars
<1>2. RouteTypeOK'
  BY <1>1 DEF RouteInv, RouteTypeOK
<1>3. ASSUME NEW r \in Runs PROVE AnswerAt(r)'
  BY <1>1, StagesMove DEF RouteInv, AnswerAt
<1> QED
  BY <1>2, <1>3 DEF RouteInv

\* The route's invariant is inductive, given that of the runs.
LEMMA RouteStep == RouteInv /\ RunInv /\ [Next]_vars => RouteInv'
<1> SUFFICES ASSUME RouteInv, RunInv, [Next]_vars PROVE RouteInv'
  OBVIOUS
<1>1. RunTypeOK
  BY DEF RunInv
<1>2. CASE UNCHANGED vars
  BY <1>2 DEF vars, runVars, jobVars, routeVars, RouteInv, RouteTypeOK, AnswerAt
<1>3. CASE Next
  BY <1>1, <1>3, ReceiveKeeps, AnswerKeeps, PoolsKeep DEF Next
<1> QED
  BY <1>2, <1>3

---------------------------------------------------------------------------------
\* Runs and answers together: every claim below follows from this invariant.
THEOREM Invariant == Spec => [](RunInv /\ StoredBodiesMasked /\ RouteInv)
<1>1. Spec => [](RunInv /\ StoredBodiesMasked)
  BY RunsBehave, Isolated, PTL
<1>2. Spec => []RouteInv
  BY <1>1, RouteInit, RouteStep, PTL DEF Spec
<1> QED
  BY <1>1, <1>2, PTL

\* Types: the variables of runs and route, of any number of jobs and threads.
THEOREM TypeCorrect == Spec => []TypeOK
<1>1. RunInv /\ RouteInv => TypeOK
  BY DEF RunInv, RouteInv, RouteTypeOK, TypeOK
<1> QED
  BY <1>1, Invariant, PTL

\* _run_sync and wire_metrics: no run is billed another run's bytes, nor an
\* upload's or a challenge's.
THEOREM BytesAreTheRunsOwn == Spec => []CountsOwnBytes
  BY ContextClaims, Invariant, PTL

\* egress_guard: a guarded script is connected to public addresses only.
THEOREM NoWayInside == Spec => []GuardedRunsStayOutside
  BY ContextClaims, Invariant, PTL

\* egress_guard.active: the flag never outlives its run on a reused thread, so the
\* agent's own connections to internal hosts are not refused.
THEOREM GuardEndsWithRun == Spec => []AgentTrafficUnguarded
  BY ContextClaims, Invariant, PTL

\* _upload_bodies: a path in a result that is returned leads to its call's body.
THEOREM PathsAreOwn == Spec => []PathsLeadToOwnBodies
  BY ContextClaims, Invariant, PTL

\* _redact_body_bytes, _upload_bodies: whatever the bodies and the secrets, nothing that
\* is stored holds a secret, and nothing but secrets is masked in it.
THEOREM BodiesMasked == Spec => []StoredBodiesMasked
  BY Invariant, PTL

\* routes/probe.py: what arrived sealed is answered sealed, or without a result.
THEOREM AnswersInKind == Spec => []AnsweredInKind
<1>1. RunInv /\ RouteInv => AnsweredInKind
  BY DEF RouteInv, AnswerAt, AnsweredInKind
<1> QED
  BY <1>1, Invariant, PTL

\* at_capacity and the refusals of an envelope: the job has not run and will not.
THEOREM RefusalsAreFinal == Spec => []RefusedJobsNeverRun
<1>1. RunInv /\ RouteInv => RefusedJobsNeverRun
  BY DEF RouteInv, AnswerAt, RefusedJobsNeverRun, Began
<1> QED
  BY <1>1, Invariant, PTL

\* sanitise_run_budget: for every number, floor and ceiling.
THEOREM BudgetsInRange == Spec => []BudgetInRange
<1>1. RunInv /\ RouteInv => BudgetInRange
  BY DEF RouteInv, AnswerAt, BudgetInRange
<1> QED
  BY <1>1, Invariant, PTL
=================================================================================
