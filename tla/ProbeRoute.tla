------------------------------- MODULE ProbeRoute -------------------------------
(***************************************************************************)
(* POST /probe (routes/probe.py) over the runs of RunContext: a dispatch   *)
(* arrives plain or sealed (mtls/envelope.py), becomes a JobPayload        *)
(* (models/job.py), waits for execute_probe and is answered.  What         *)
(* execute_probe may say, and when, is DispatchContract, which             *)
(* ProbeDispatch implements: a refusal only of a job that no thread took,  *)
(* which then none takes; a timeout of one that a thread has.  The         *)
(* cryptography is a library's: an envelope opens or it does not.          *)
(***************************************************************************)
EXTENDS Integers, RunContext

CONSTANTS MinBudget, MaxBudget,   \* MIN_RUN_TIMEOUT_MS, MAX_RUN_TIMEOUT_MS
          Halves,                 \* the numbers sent as requestTimeoutMs, in halves
                                  \* of a millisecond: JSON numbers have fractions
          Dispatches              \* what may be sent for each job

\* A dispatch: `opens` if version, algorithm and key fit; replyCert is a certificate
\* with an RSA key, none, or one nothing can be sealed to.
Requests == [sealed : {FALSE}, opens : {TRUE}, replyCert : {"none"}]
              \cup [sealed : {TRUE}, opens : BOOLEAN, replyCert : {"rsa", "none", "unusable"}]
NoRequest == [sealed |-> FALSE, opens |-> TRUE, replyCert |-> "none"]

ASSUME RouteAssumption ==
    /\ MinBudget \in Nat \ {0} /\ MaxBudget \in Nat /\ MinBudget <= MaxBudget
    /\ Halves \subseteq Int
    /\ Dispatches \in [Runs -> SUBSET Requests]

VARIABLES keyHeld,    \* app.state.agent_private_key is set
          request,    \* what arrived
          budget,     \* request_timeout_ms of the JobPayload, 0 for None
          reply       \* what the scheduler got

routeVars == <<keyHeld, request, budget, reply>>
vars == <<runVars, routeVars>>

---------------------------------------------------------------------------------
(* models/job.py *)

\* requestTimeoutMs as it is in the body: absent, a number, an infinite one (1e999
\* is JSON), or anything that is no number.
RawBudgets == [is : {"number"}, half : Halves]
                \cup [is : {"absent", "infinite", "other"}, half : {0}]

\* int(): towards zero.  OverflowError is not caught.
as_int(raw) == IF raw.half >= 0 THEN raw.half \div 2 ELSE -((-raw.half) \div 2)
Interpretable(raw) == raw.is # "infinite"

\* A value below the floor is taken as it is (mutant of sanitise_run_budget).
sanitise_run_budget_NoFloor(raw) ==
    IF raw.is # "number" \/ as_int(raw) <= 0 THEN 0
    ELSE IF as_int(raw) > MaxBudget THEN MaxBudget ELSE as_int(raw)

\* No ceiling (mutant of sanitise_run_budget).
sanitise_run_budget_NoCeiling(raw) ==
    IF raw.is # "number" \/ as_int(raw) <= 0 THEN 0
    ELSE IF as_int(raw) < MinBudget THEN MinBudget ELSE as_int(raw)

sanitise_run_budget(raw) ==
    IF raw.is # "number" \/ as_int(raw) <= 0 THEN 0
    ELSE IF as_int(raw) < MinBudget THEN MinBudget
    ELSE IF as_int(raw) > MaxBudget THEN MaxBudget ELSE as_int(raw)

---------------------------------------------------------------------------------
(* The route. *)

Replies == {"none", "result", "sealed_result",
            "payload_encryption_unavailable", "payload_undecryptable",
            "missing_reply_certificate", "at_capacity", "server_error"}

Init ==
    /\ RunInit
    /\ keyHeld \in BOOLEAN
    /\ request = [r \in Runs |-> NoRequest]
    /\ budget = [r \in Runs |-> 0]
    /\ reply = [r \in Runs |-> "none"]

\* The answer to a request that never becomes a job, or "none".
Rejection(q, raw) ==
    IF q.sealed /\ ~keyHeld THEN "payload_encryption_unavailable"
    ELSE IF q.sealed /\ ~q.opens THEN "payload_undecryptable"
    ELSE IF ~Interpretable(raw) THEN "server_error"
    ELSE "none"

Receive(r, q, raw) ==
    /\ stage[r] = "new" /\ reply[r] = "none"
    /\ request' = [request EXCEPT ![r] = q]
    /\ IF Rejection(q, raw) = "none"
       THEN /\ Submit(r)
            /\ budget' = [budget EXCEPT ![r] = sanitise_run_budget(raw)]
            /\ UNCHANGED reply
       ELSE /\ reply' = [reply EXCEPT ![r] = Rejection(q, raw)]
            /\ UNCHANGED <<runVars, budget>>
    /\ UNCHANGED keyHeld

\* What cannot be sealed is sent as it is (mutant of Answered).
Answered_InTheClear(q) ==
    IF ~q.sealed \/ q.replyCert = "unusable" THEN "result"
    ELSE IF q.replyCert = "none" THEN "missing_reply_certificate"
    ELSE "sealed_result"

\* The answer once execute_probe has returned a result.
Answered(q) ==
    IF ~q.sealed THEN "result"
    ELSE IF q.replyCert = "none" THEN "missing_reply_certificate"
    ELSE IF q.replyCert = "unusable" THEN "server_error"
    ELSE "sealed_result"

Waiting(r) == stage[r] # "new" /\ reply[r] = "none"

\* execute_probe returns: the run's result, or the stand-in for one over budget.
AnswerResult(r) ==
    /\ Waiting(r)
    /\ stage[r] = "ok" \/ (budget[r] # 0 /\ stage[r] \in {"running", "error"})
    /\ reply' = [reply EXCEPT ![r] = Answered(request[r])]
    /\ UNCHANGED <<runVars, keyHeld, request, budget>>

\* execute_probe raises what the run raised.
AnswerError(r) ==
    /\ Waiting(r) /\ stage[r] = "error"
    /\ reply' = [reply EXCEPT ![r] = "server_error"]
    /\ UNCHANGED <<runVars, keyHeld, request, budget>>

\* The job is refused although a thread has it (mutant of AnswerAtCapacity).
AnswerAtCapacity_Running(r) ==
    /\ Waiting(r) /\ budget[r] # 0 /\ stage[r] \in {"submitted", "running"}
    /\ reply' = [reply EXCEPT ![r] = "at_capacity"]
    /\ UNCHANGED <<runVars, keyHeld, request, budget>>

\* AgentAtCapacity, plain for a sealed dispatch too.
AnswerAtCapacity(r) ==
    /\ Waiting(r) /\ budget[r] # 0
    /\ Refuse(r)
    /\ reply' = [reply EXCEPT ![r] = "at_capacity"]
    /\ UNCHANGED <<keyHeld, request, budget>>

Next ==
    \/ ThreadStep /\ UNCHANGED routeVars
    \/ \E r \in Runs : \/ \E q \in Dispatches[r], raw \in RawBudgets : Receive(r, q, raw)
                       \/ AnswerResult(r) \/ AnswerError(r) \/ AnswerAtCapacity(r)

Spec == Init /\ [][Next]_vars

---------------------------------------------------------------------------------
(* Properties. *)

Began(r) == stage[r] \notin {"new", "submitted", "refused"}

\* Types of the variables.
TypeOK ==
    /\ RunTypeOK
    /\ keyHeld \in BOOLEAN
    /\ request \in [Runs -> Requests]
    /\ budget \in [Runs -> 0 .. MaxBudget]
    /\ reply \in [Runs -> Replies]

\* What is said of a run is in the shape the request came in: nothing of a sealed
\* one's result, stand-in or not, is answered in the clear, and a plain one is
\* never answered with an envelope.
AnsweredInKind ==
    \A r \in Runs : /\ reply[r] = "result" => ~request[r].sealed
                    /\ reply[r] = "sealed_result" => request[r].sealed /\ keyHeld

\* A refusal (503), and a 400 of a dispatch that could not be opened, mean that
\* the script did not run and will not; the scheduler may hand the job on.
RefusedJobsNeverRun ==
    \A r \in Runs : reply[r] \in {"at_capacity", "payload_undecryptable",
                                  "payload_encryption_unavailable"} => ~Began(r)

\* A budget the agent acts on is within its range, whatever number was sent; and
\* without one a dispatch is never answered before its script is over.
BudgetInRange ==
    \A r \in Runs : /\ budget[r] # 0 => budget[r] \in MinBudget .. MaxBudget
                    /\ (budget[r] = 0 /\ reply[r] \in {"result", "sealed_result"})
                           => stage[r] = "ok"

\* models/job.py: "a scheduler that sends a number the agent dislikes must still
\* get its probe run".
EveryNumberRuns == \A r \in Runs : stage[r] = "new" => reply[r] # "server_error"
=================================================================================
