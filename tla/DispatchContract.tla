---------------------------- MODULE DispatchContract ----------------------------
(***************************************************************************)
(* What the agent promises the scheduler for one dispatch: the docstrings  *)
(* of `execute_probe` and `AgentAtCapacity` (services/executor.py) in four *)
(* steps.  A script begins at most once and never after the dispatch was   *)
(* refused; the answer is given once; a result or an error is the run's    *)
(* own; a `timeout` is said only of a script that began; a refusal only of *)
(* one that did not.  Nothing is said of pools, futures or event loops:    *)
(* ProbeDispatch implements this.                                          *)
(***************************************************************************)
CONSTANTS Dispatches,   \* the jobs the scheduler sends
          Budgeted      \* those that carry requestTimeoutMs

VARIABLES stage,        \* where the script is: not begun, running, how it ended
          answer        \* what the scheduler was told, or "none"

Ends == {"ok", "error", "timeout_error"}
Stages == {"not_begun", "running"} \cup Ends

Init == /\ stage = [d \in Dispatches |-> "not_begun"]
        /\ answer = [d \in Dispatches |-> "none"]

Begin(d) ==
    /\ stage[d] = "not_begun"
    /\ answer[d] = "none"
    /\ stage' = [stage EXCEPT ![d] = "running"]
    /\ UNCHANGED answer

End(d, how) ==
    /\ stage[d] = "running"
    /\ stage' = [stage EXCEPT ![d] = how]
    /\ UNCHANGED answer

MayAnswer(d, a) ==
    \/ a = "result"  /\ stage[d] = "ok"
    \/ a = "error"   /\ stage[d] \in {"error", "timeout_error"}
    \/ a = "timeout" /\ stage[d] # "not_begun" /\ d \in Budgeted
    \/ a = "refused" /\ stage[d] = "not_begun" /\ d \in Budgeted

Answer(d, a) ==
    /\ answer[d] = "none"
    /\ MayAnswer(d, a)
    /\ answer' = [answer EXCEPT ![d] = a]
    /\ UNCHANGED stage

Next == \E d \in Dispatches :
            \/ Begin(d)
            \/ \E how \in Ends : End(d, how)
            \/ \E a \in {"result", "error", "timeout", "refused"} : Answer(d, a)

Spec == Init /\ [][Next]_<<stage, answer>>
=================================================================================
