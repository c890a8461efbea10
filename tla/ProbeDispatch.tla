----------------------------- MODULE ProbeDispatch ------------------------------
(***************************************************************************)
(* `execute_probe` (services/executor.py): every dispatch is submitted to  *)
(* the bounded probe pool as a concurrent future, wrapped in an asyncio    *)
(* future, and awaited on the one event loop under its run budget.         *)
(*                                                                         *)
(* Three kinds of process interleave: the pool's threads, the wall clock,  *)
(* and the event loop, whose callbacks (deliver a result, fire a timer,    *)
(* cancel the source, wake the task) are separate steps -- but no loop     *)
(* callback runs while some handler blocks the loop in `started.wait(0.1)` *)
(* (LoopFree).  The asyncio and thread-pool steps are those of Python      *)
(* 3.12 and later, which the Dockerfile ships (3.13): `wait_for` is a      *)
(* `timeout()` scope whose timer cancels the waiting task.                 *)
(*                                                                         *)
(* Abstracted: the ProbeResult's contents, the script (a run ends well,    *)
(* with an error, or with a TimeoutError of its own), wall-clock amounts.  *)
(***************************************************************************)
EXTENDS Naturals, Sequences

CONSTANTS
    Dispatches,          \* calls of execute_probe
    Budgeted,            \* those whose payload.request_timeout_ms is not None
    Workers,             \* threads of the probe pool
    None,                \* no job in a worker's hands
    StartsWithinGrace    \* a worker that marked a job running sets `started`
                         \* before a 0.1 s grace period it meets can end

ASSUME BudgetedAssumption == Budgeted \subseteq Dispatches
ASSUME NoneAssumption == None \notin Dispatches
ASSUME GraceAssumption == StartsWithinGrace \in BOOLEAN

VARIABLES
    queue,     \* the pool's work queue
    worker,    \* per thread: the job it holds and how far its work item is
    future,    \* per dispatch: the concurrent.futures.Future of the pool
    started,   \* per dispatch: the threading.Event set by run()
    outcome,   \* per dispatch: how the run ended
    afut,      \* per dispatch: the asyncio future wrapping `future`
    expired,   \* per dispatch: the budget's wall clock has run out
    inTime,    \* per dispatch: the run ended before that (history)
    task,      \* per dispatch: where execute_probe's coroutine is
    answer     \* per dispatch: what the caller of execute_probe got

loopVars == <<afut, task, answer>>
poolVars == <<queue, worker, future, started, outcome>>
vars == <<queue, worker, future, started, outcome, afut, expired, inTime, task, answer>>

Outcomes == {"ok", "error", "timeout_error"}
Idle == [job |-> None, pc |-> "idle"]

TypeOK ==
    /\ queue \in Seq(Dispatches)
    /\ worker \in [Workers -> {Idle} \cup
                    [job : Dispatches, pc : {"took", "starting", "running"}]]
    /\ future \in [Dispatches -> {"none", "queued", "running", "cancelled", "finished"}]
    /\ started \in [Dispatches -> BOOLEAN]
    /\ outcome \in [Dispatches -> {"none"} \cup Outcomes]
    /\ afut \in [Dispatches -> {"none", "pending", "done", "cancelled"}]
    /\ expired \in [Dispatches -> BOOLEAN]
    /\ inTime \in [Dispatches -> BOOLEAN]
    /\ task \in [Dispatches -> {"new", "waiting", "expiring", "woken", "grace", "answered"}]
    /\ answer \in [Dispatches -> {"none", "result", "error", "timeout", "refused"}]

Init ==
    /\ queue = <<>>
    /\ worker = [w \in Workers |-> Idle]
    /\ future = [d \in Dispatches |-> "none"]
    /\ started = [d \in Dispatches |-> FALSE]
    /\ outcome = [d \in Dispatches |-> "none"]
    /\ afut = [d \in Dispatches |-> "none"]
    /\ expired = [d \in Dispatches |-> FALSE]
    /\ inTime = [d \in Dispatches |-> FALSE]
    /\ task = [d \in Dispatches |-> "new"]
    /\ answer = [d \in Dispatches |-> "none"]

-----------------------------------------------------------------------------
(* The pool's threads *)

\* A thread takes the oldest work item.
TakeJob(w) ==
    /\ worker[w] = Idle
    /\ queue # <<>>
    /\ worker' = [worker EXCEPT ![w] = [job |-> Head(queue), pc |-> "took"]]
    /\ queue' = Tail(queue)
    /\ UNCHANGED <<future, started, outcome, expired, inTime, loopVars>>

\* set_running_or_notify_cancel: a future not cancelled by now will run.
BeginRun(w) ==
    LET d == worker[w].job IN
    /\ worker[w].pc = "took"
    /\ future[d] = "queued"
    /\ future' = [future EXCEPT ![d] = "running"]
    /\ worker' = [worker EXCEPT ![w] = [job |-> d, pc |-> "starting"]]
    /\ UNCHANGED <<queue, started, outcome, expired, inTime, loopVars>>

\* The same call on a cancelled future: the item is dropped, the thread free.
DropCancelled(w) ==
    /\ worker[w].pc = "took"
    /\ future[worker[w].job] = "cancelled"
    /\ worker' = [worker EXCEPT ![w] = Idle]
    /\ UNCHANGED <<queue, future, started, outcome, expired, inTime, loopVars>>

\* run(): started.set(), then the script is under way.
SetStarted(w) ==
    LET d == worker[w].job IN
    /\ worker[w].pc = "starting"
    /\ started' = [started EXCEPT ![d] = TRUE]
    /\ worker' = [worker EXCEPT ![w] = [job |-> d, pc |-> "running"]]
    /\ UNCHANGED <<queue, future, outcome, expired, inTime, loopVars>>

\* Mutant of FinishRun: the thread lets go of the job but stays in its middle.
FinishRun_StaysRunning(w, how) ==
    LET d == worker[w].job IN
    /\ worker[w].pc = "running"
    /\ outcome' = [outcome EXCEPT ![d] = how]
    /\ future' = [future EXCEPT ![d] = "finished"]
    /\ inTime' = [inTime EXCEPT ![d] = ~expired[d]]
    /\ worker' = [worker EXCEPT ![w].job = None]
    /\ UNCHANGED <<queue, started, expired, loopVars>>

\* Mutant of FinishRun: a run that fails leaves its item with the thread.
FinishRun_HoldsOnError(w, how) ==
    LET d == worker[w].job IN
    /\ worker[w].pc = "running"
    /\ outcome' = [outcome EXCEPT ![d] = how]
    /\ future' = [future EXCEPT ![d] = "finished"]
    /\ inTime' = [inTime EXCEPT ![d] = ~expired[d]]
    /\ worker' = [worker EXCEPT ![w] = IF how = "ok" THEN Idle ELSE [job |-> d, pc |-> "took"]]
    /\ UNCHANGED <<queue, started, expired, loopVars>>

\* _run_sync returns or raises: the thread stores the outcome in the future,
\* posts it to the loop (call_soon_threadsafe) and is free for the next job.
FinishRun(w, how) ==
    LET d == worker[w].job IN
    /\ worker[w].pc = "running"
    /\ outcome' = [outcome EXCEPT ![d] = how]
    /\ future' = [future EXCEPT ![d] = "finished"]
    /\ inTime' = [inTime EXCEPT ![d] = ~expired[d]]
    /\ worker' = [worker EXCEPT ![w] = Idle]
    /\ UNCHANGED <<queue, started, expired, loopVars>>

-----------------------------------------------------------------------------
(* The wall clock *)

\* The budget starts when the handler begins to wait and runs out on its own.
BudgetElapses(d) ==
    /\ d \in Budgeted
    /\ task[d] = "waiting"
    /\ ~expired[d]
    /\ expired' = [expired EXCEPT ![d] = TRUE]
    /\ UNCHANGED <<inTime, poolVars, loopVars>>

-----------------------------------------------------------------------------
(* The event loop.  It runs no callback while a handler blocks it. *)

LoopFree == \A d \in Dispatches : task[d] # "grace"

\* A request arrives: submit run() to the pool, then await the result.
ExecuteProbe(d) ==
    /\ LoopFree
    /\ task[d] = "new"
    /\ queue' = Append(queue, d)
    /\ future' = [future EXCEPT ![d] = "queued"]
    /\ afut' = [afut EXCEPT ![d] = "pending"]
    /\ task' = [task EXCEPT ![d] = "waiting"]
    /\ UNCHANGED <<worker, started, outcome, expired, inTime, answer>>

\* The posted callback copies the outcome into the asyncio future, which
\* schedules the task; on a future cancelled meanwhile it does nothing.
DeliverResult(d) ==
    /\ LoopFree
    /\ future[d] = "finished"
    /\ afut[d] = "pending"
    /\ afut' = [afut EXCEPT ![d] = "done"]
    /\ UNCHANGED <<task, answer, expired, inTime, poolVars>>

\* The same callback in a pass of the loop that has also collected the
\* expired timer: the timer cancels a task whose future is already done, so
\* the task wakes to CancelledError and the delivered outcome is lost.
DeliverThenExpire(d) ==
    /\ LoopFree
    /\ d \in Budgeted /\ expired[d]
    /\ future[d] = "finished"
    /\ afut[d] = "pending" /\ task[d] = "waiting"
    /\ afut' = [afut EXCEPT ![d] = "done"]
    /\ task' = [task EXCEPT ![d] = "woken"]
    /\ UNCHANGED <<answer, expired, inTime, poolVars>>

\* Mutant of TimerFires: any wait may be cut short.
TimerFires_TooSoon(d) ==
    /\ LoopFree
    /\ d \in Budgeted
    /\ task[d] = "waiting"
    /\ afut[d] = "pending"
    /\ ~inTime[d]
    /\ afut' = [afut EXCEPT ![d] = "cancelled"]
    /\ task' = [task EXCEPT ![d] = "expiring"]
    /\ UNCHANGED <<answer, expired, inTime, poolVars>>

\* Mutant of TimerFires: the budget covers only a run that has started.
TimerFires_StartedOnly(d) ==
    /\ LoopFree
    /\ d \in Budgeted /\ expired[d] /\ started[d]
    /\ task[d] = "waiting"
    /\ afut[d] = "pending"
    /\ ~inTime[d]
    /\ afut' = [afut EXCEPT ![d] = "cancelled"]
    /\ task' = [task EXCEPT ![d] = "expiring"]
    /\ UNCHANGED <<answer, expired, inTime, poolVars>>

\* Mutant of TimerFires: the cancelled future does not wake its task.
TimerFires_NoWakeup(d) ==
    /\ LoopFree
    /\ d \in Budgeted /\ expired[d]
    /\ task[d] = "waiting"
    /\ afut[d] = "pending"
    /\ ~inTime[d]
    /\ afut' = [afut EXCEPT ![d] = "cancelled"]
    /\ UNCHANGED <<task, answer, expired, inTime, poolVars>>

\* The timer alone: cancels the task, which cancels the pending asyncio
\* future.  An outcome posted before the deadline is ahead of the timer in
\* the loop's queue, so this is then DeliverThenExpire instead.
TimerFires(d) ==
    /\ LoopFree
    /\ d \in Budgeted /\ expired[d]
    /\ task[d] = "waiting"
    /\ afut[d] = "pending"
    /\ ~inTime[d]
    /\ afut' = [afut EXCEPT ![d] = "cancelled"]
    /\ task' = [task EXCEPT ![d] = "expiring"]
    /\ UNCHANGED <<answer, expired, inTime, poolVars>>

\* The cancelled asyncio future's callbacks: Future.cancel on its source
\* (which succeeds only while no thread runs it), then the task's wakeup.
CancelSource(d) ==
    /\ LoopFree
    /\ task[d] = "expiring"
    /\ future' = [future EXCEPT ![d] = IF @ = "queued" THEN "cancelled" ELSE @]
    /\ task' = [task EXCEPT ![d] = "woken"]
    /\ UNCHANGED <<queue, worker, started, outcome, afut, answer, expired, inTime>>

\* except TimeoutError: the handler blocks the loop in started.wait(0.1).
EnterGrace(d) ==
    /\ LoopFree
    /\ task[d] = "woken"
    /\ task' = [task EXCEPT ![d] = "grace"]
    /\ UNCHANGED <<afut, answer, expired, inTime, poolVars>>

\* Mutant of AnswerTimeout: the answer gives the run's slot back.
AnswerTimeout_FreesSlot(d) ==
    /\ task[d] = "grace"
    /\ started[d]
    /\ answer' = [answer EXCEPT ![d] = "timeout"]
    /\ task' = [task EXCEPT ![d] = "answered"]
    /\ worker' = [w \in Workers |-> IF worker[w].job = d THEN Idle ELSE worker[w]]
    /\ UNCHANGED <<queue, future, started, outcome, afut, expired, inTime>>

\* Mutant of AnswerTimeout: a script that never started has timed out.
AnswerTimeout_Unasked(d) ==
    /\ task[d] = "grace"
    /\ answer' = [answer EXCEPT ![d] = "timeout"]
    /\ task' = [task EXCEPT ![d] = "answered"]
    /\ UNCHANGED <<afut, expired, inTime, poolVars>>

\* The flag is set: the run is under way (or over) and outlived its budget.
AnswerTimeout(d) ==
    /\ task[d] = "grace"
    /\ started[d]
    /\ answer' = [answer EXCEPT ![d] = "timeout"]
    /\ task' = [task EXCEPT ![d] = "answered"]
    /\ UNCHANGED <<afut, expired, inTime, poolVars>>

\* Mutant of Refuse: the flag is not looked at.
Refuse_Unasked(d) ==
    /\ task[d] = "grace"
    /\ answer' = [answer EXCEPT ![d] = "refused"]
    /\ task' = [task EXCEPT ![d] = "answered"]
    /\ UNCHANGED <<afut, expired, inTime, poolVars>>

\* The grace period ends with the flag unset: AgentAtCapacity, a 503.
Refuse(d) ==
    /\ task[d] = "grace"
    /\ ~started[d]
    /\ StartsWithinGrace => future[d] # "running"
    /\ answer' = [answer EXCEPT ![d] = "refused"]
    /\ task' = [task EXCEPT ![d] = "answered"]
    /\ UNCHANGED <<afut, expired, inTime, poolVars>>

\* The task resumes with the outcome: a result is returned, an exception is
\* raised to the route.
ReturnOutcome(d) ==
    /\ LoopFree
    /\ task[d] = "waiting"
    /\ afut[d] = "done"
    /\ outcome[d] = "timeout_error" => d \notin Budgeted
    /\ answer' = [answer EXCEPT ![d] = IF outcome[d] = "ok" THEN "result" ELSE "error"]
    /\ task' = [task EXCEPT ![d] = "answered"]
    /\ UNCHANGED <<afut, expired, inTime, poolVars>>

\* A TimeoutError raised by the run itself lands in the same except branch
\* as the budget's own.
CatchRunsTimeoutError(d) ==
    /\ LoopFree
    /\ task[d] = "waiting"
    /\ afut[d] = "done"
    /\ outcome[d] = "timeout_error" /\ d \in Budgeted
    /\ task' = [task EXCEPT ![d] = "grace"]
    /\ UNCHANGED <<afut, answer, expired, inTime, poolVars>>

-----------------------------------------------------------------------------
PoolStep(w) ==
    \/ TakeJob(w)
    \/ BeginRun(w)
    \/ DropCancelled(w)
    \/ SetStarted(w)

LoopStep(d) ==
    \/ DeliverResult(d)
    \/ DeliverThenExpire(d)
    \/ TimerFires(d)
    \/ CancelSource(d)
    \/ EnterGrace(d)
    \/ AnswerTimeout(d)
    \/ Refuse(d)
    \/ ReturnOutcome(d)
    \/ CatchRunsTimeoutError(d)

Next ==
    \/ \E w \in Workers : PoolStep(w) \/ \E how \in Outcomes : FinishRun(w, how)
    \/ \E d \in Dispatches : ExecuteProbe(d) \/ BudgetElapses(d) \/ LoopStep(d)

Spec == Init /\ [][Next]_vars

(***************************************************************************)
(* Fairness.  The loop keeps running callbacks, time passes, and threads   *)
(* get scheduled.  That a script ever ends is not assumed here: the        *)
(* executor has no ceiling of its own.  Where a property needs it, RunsEnd *)
(* says so: the per-call timeouts every script is capped by.               *)
(***************************************************************************)
Fairness ==
    /\ \A w \in Workers : WF_vars(PoolStep(w))
    /\ \A d \in Dispatches : WF_vars(BudgetElapses(d)) /\ WF_vars(LoopStep(d))

RunsEnd == \A w \in Workers : WF_vars(\E how \in Outcomes : FinishRun(w, how))

FairSpec == Spec /\ Fairness

-----------------------------------------------------------------------------
(* Safety *)

\* A running script holds exactly one pool slot until it ends, whatever was
\* answered meanwhile: no more scripts run than the pool has threads, and no
\* job is in two threads' hands (execute_probe: "It holds a pool slot").
RunningHoldsOneSlot ==
    \A d \in Dispatches :
        future[d] = "running" => \E w \in Workers :
            /\ worker[w].job = d
            /\ \A v \in Workers : worker[v].job = d => v = w

\* A refused dispatch never runs, then or later: the scheduler may hand it
\* to another agent (AgentAtCapacity: "the script never started").
RefusedNeverRuns ==
    \A d \in Dispatches :
        answer[d] = "refused" => /\ future[d] = "cancelled"
                                 /\ ~started[d]
                                 /\ \A w \in Workers :
                                       worker[w].job = d => worker[w].pc = "took"

\* A run's own outcome is dropped for a stand-in only past its deadline,
\* unless that outcome is itself a TimeoutError.
DiscardOnlyPastDeadline ==
    \A d \in Dispatches :
        answer[d] \in {"timeout", "refused"} /\ outcome[d] # "timeout_error"
            => expired[d]

\* A job leaves the queue once: no dispatch is queued twice, nor queued while
\* a thread holds it or after it ended (no target is probed twice).
QueuedOnce ==
    \A i \in DOMAIN queue :
        /\ future[queue[i]] \in {"queued", "cancelled"}
        /\ \A j \in DOMAIN queue : queue[i] = queue[j] => i = j
        /\ \A w \in Workers : worker[w].job # queue[i]

\* What execute_probe promises the scheduler (DispatchContract).
ContractStage(d) ==
    CASE future[d] = "running"  -> "running"
      [] future[d] = "finished" -> outcome[d]
      [] OTHER                  -> "not_begun"

Contract == INSTANCE DispatchContract WITH
                stage <- [d \in Dispatches |-> ContractStage(d)]

\* Every step of the dispatcher is a step of the contract or changes nothing
\* the scheduler can tell.
ImplementsContract == Contract!Spec

(* Liveness *)

\* A budgeted dispatch is answered even when every script hangs for ever and
\* the pool is full of them: that is what the budget is for.
BudgetedAnswered ==
    \A d \in Budgeted : task[d] # "new" ~> answer[d] # "none"

\* If scripts do end, every dispatch is answered, budget or none...
EveryDispatchAnswered ==
    RunsEnd => \A d \in Dispatches : task[d] # "new" ~> answer[d] # "none"

\* ... and a slot held by an over-budget run or a cancelled job comes back.
SlotsReturn ==
    RunsEnd => \A w \in Workers : worker[w] # Idle ~> worker[w] = Idle
=================================================================================
