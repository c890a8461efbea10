-------------------------- MODULE ProbeDispatchProofs ---------------------------
(***************************************************************************)
(* Theorems about ProbeDispatch, for every set of dispatches and any pool. *)
(*                                                                         *)
(* None of the safety properties is inductive: that a refused dispatch     *)
(* never runs needs that a job is in one place only (the queue or one      *)
(* thread's hands), that the future's state agrees with that place, and    *)
(* that the coroutine's position agrees with both futures.  Inv says so in *)
(* four parts; RefusedDropped adds the one fact that needs the assumption  *)
(* StartsWithinGrace.                                                      *)
(***************************************************************************)
EXTENDS ProbeDispatch, TLAPS

\* No job is in two threads' hands.
HeldOnce ==
    \A v, w \in Workers :
        worker[v].job = worker[w].job /\ worker[v].job # None => v = w

\* The future agrees with the thread that holds the job.
HandsAgree ==
    \A w \in Workers :
        LET d == worker[w].job IN
        /\ worker[w].pc = "took"     => future[d] \in {"queued", "cancelled"}
        /\ worker[w].pc = "starting" => future[d] = "running" /\ ~started[d]
        /\ worker[w].pc = "running"  => future[d] = "running" /\ started[d]

\* The future agrees with the run's own traces.
FutureAgrees ==
    \A d \in Dispatches :
        /\ future[d] = "running" => \E w \in Workers : worker[w].job = d
        /\ started[d] => future[d] \in {"running", "finished"}
        /\ future[d] = "finished" => started[d] /\ outcome[d] \in Outcomes
        /\ outcome[d] # "none" => future[d] = "finished"

\* The coroutine agrees with both futures and with the clock.
TaskAgrees ==
    \A d \in Dispatches :
        /\ task[d] = "new" => future[d] = "none"
        /\ task[d] # "new" => future[d] # "none"
        /\ afut[d] = "done" => future[d] = "finished"
        /\ afut[d] = "pending" => task[d] = "waiting"
        /\ task[d] \in {"expiring", "woken", "grace"} => d \in Budgeted
        /\ task[d] \in {"expiring", "woken"} => expired[d]
        /\ task[d] \in {"woken", "grace", "answered"} =>
              future[d] \in {"cancelled", "running", "finished"}
        /\ task[d] = "grace" => expired[d] \/ outcome[d] = "timeout_error"
        /\ answer[d] # "none" => task[d] = "answered"

Inv == TypeOK /\ QueuedOnce /\ HeldOnce /\ HandsAgree /\ FutureAgrees /\ TaskAgrees

\* What a refusal leaves behind.
RefusedDropped ==
    \A d \in Dispatches : answer[d] = "refused" => future[d] = "cancelled"

-----------------------------------------------------------------------------
(* What every proof below expands: the actions of the three processes. *)

USE DEF Idle, Outcomes

\* The initial state satisfies the invariant: nothing is queued or held.
LEMMA InitInv == Init => Inv
<1> SUFFICES ASSUME Init PROVE Inv
  OBVIOUS
<1>1. TypeOK
  BY DEF Init, TypeOK
<1>2. QueuedOnce
  BY DEF Init, QueuedOnce
<1>3. HeldOnce /\ HandsAgree
  BY DEF Init, HeldOnce, HandsAgree
<1>4. FutureAgrees /\ TaskAgrees
  BY DEF Init, FutureAgrees, TaskAgrees
<1> QED
  BY <1>1, <1>2, <1>3, <1>4 DEF Inv

\* Every variable keeps its type: the step of each process in turn.
LEMMA TypeStep == ASSUME TypeOK, Next PROVE TypeOK'
<1>1. ASSUME NEW w \in Workers, TakeJob(w) PROVE TypeOK'
  <2>1. Head(queue) \in Dispatches /\ Tail(queue) \in Seq(Dispatches)
    BY <1>1 DEF TakeJob, TypeOK
  <2> QED
    BY <1>1, <2>1 DEF TakeJob, TypeOK, loopVars
<1>2. ASSUME NEW w \in Workers, BeginRun(w) PROVE TypeOK'
  BY <1>2 DEF BeginRun, TypeOK, loopVars
<1>3. ASSUME NEW w \in Workers, DropCancelled(w) PROVE TypeOK'
  BY <1>3 DEF DropCancelled, TypeOK, loopVars
<1>4. ASSUME NEW w \in Workers, SetStarted(w) PROVE TypeOK'
  BY <1>4 DEF SetStarted, TypeOK, loopVars
<1>5. ASSUME NEW w \in Workers, NEW how \in Outcomes, FinishRun(w, how) PROVE TypeOK'
  BY <1>5 DEF FinishRun, TypeOK, loopVars
<1>6. ASSUME NEW d \in Dispatches, ExecuteProbe(d) PROVE TypeOK'
  BY <1>6 DEF ExecuteProbe, TypeOK
<1>7. ASSUME NEW d \in Dispatches, BudgetElapses(d) PROVE TypeOK'
  BY <1>7 DEF BudgetElapses, TypeOK, loopVars, poolVars
<1>8. ASSUME NEW d \in Dispatches, LoopStep(d) PROVE TypeOK'
  BY <1>8 DEF LoopStep, DeliverResult, DeliverThenExpire, TimerFires, CancelSource,
       EnterGrace, AnswerTimeout, Refuse, ReturnOutcome, CatchRunsTimeoutError,
       TypeOK, poolVars
<1> QED
  BY <1>1, <1>2, <1>3, <1>4, <1>5, <1>6, <1>7, <1>8 DEF Next, PoolStep

\* Steps that leave the pool alone keep what is said about the pool.
LEMMA PoolUntouched ==
    ASSUME Inv, UNCHANGED poolVars
    PROVE  (QueuedOnce /\ HeldOnce /\ HandsAgree /\ FutureAgrees)'
<1>1. QueuedOnce'
  BY DEF Inv, QueuedOnce, poolVars
<1>2. HeldOnce' /\ HandsAgree'
  BY DEF Inv, HeldOnce, HandsAgree, poolVars
<1>3. FutureAgrees'
  BY DEF Inv, FutureAgrees, poolVars
<1> QED
  BY <1>1, <1>2, <1>3

\* The queue gives up its head to one thread, and only that thread.
LEMMA TakeJobStep ==
    ASSUME Inv, NEW w \in Workers, TakeJob(w)
    PROVE  (QueuedOnce /\ HeldOnce /\ HandsAgree /\ FutureAgrees /\ TaskAgrees)'
<1> DEFINE d == Head(queue)
<1>1. /\ d \in Dispatches /\ d # None
      /\ 1 \in DOMAIN queue /\ d = queue[1]
      /\ \A i \in DOMAIN Tail(queue) : /\ i + 1 \in DOMAIN queue
                                       /\ Tail(queue)[i] = queue[i + 1]
                                       /\ i + 1 # 1
  BY NoneAssumption DEF TakeJob, Inv, TypeOK
<1>2. worker' = [worker EXCEPT ![w] = [job |-> d, pc |-> "took"]] /\ queue' = Tail(queue)
  BY DEF TakeJob
<1>3. /\ future[d] \in {"queued", "cancelled"}
      /\ \A v \in Workers : worker[v].job # d
  BY <1>1 DEF Inv, QueuedOnce
<1>4. UNCHANGED <<future, started, outcome, expired, afut, task, answer>>
  BY DEF TakeJob, loopVars
<1>5. \A v \in Workers : /\ worker'[v].job = IF v = w THEN d ELSE worker[v].job
                        /\ worker'[v].pc = IF v = w THEN "took" ELSE worker[v].pc
  BY <1>2 DEF Inv, TypeOK
<1>6. QueuedOnce'
  <2> SUFFICES ASSUME NEW i \in DOMAIN Tail(queue)
               PROVE  /\ future[Tail(queue)[i]] \in {"queued", "cancelled"}
                      /\ \A j \in DOMAIN Tail(queue) : Tail(queue)[i] = Tail(queue)[j] => i = j
                      /\ \A v \in Workers : worker'[v].job # Tail(queue)[i]
    BY <1>2, <1>4 DEF QueuedOnce
  <2>1. Tail(queue)[i] = queue[i + 1] /\ i + 1 \in DOMAIN queue /\ queue[i + 1] # d
    BY <1>1 DEF Inv, QueuedOnce
  <2>2. \A j \in DOMAIN Tail(queue) : Tail(queue)[i] = Tail(queue)[j] => i = j
    <3> SUFFICES ASSUME NEW j \in DOMAIN Tail(queue), queue[i + 1] = queue[j + 1]
                 PROVE  i = j
      BY <1>1
    <3>1. i + 1 = j + 1
      BY <1>1 DEF Inv, QueuedOnce
    <3>2. i \in Nat /\ j \in Nat
      BY DEF Inv, TypeOK
    <3> QED
      BY <3>1, <3>2
  <2>3. \A v \in Workers : worker'[v].job # Tail(queue)[i]
    BY <1>5, <2>1 DEF Inv, QueuedOnce
  <2> QED
    BY <2>1, <2>2, <2>3 DEF Inv, QueuedOnce
<1>7. HeldOnce'
  BY <1>3, <1>5 DEF Inv, HeldOnce
<1>8. HandsAgree'
  BY <1>3, <1>4, <1>5 DEF Inv, HandsAgree
<1>9. FutureAgrees'
  <2>1. worker[w].job = None
    BY DEF TakeJob
  <2>2. \A e \in Dispatches : (\E v \in Workers : worker[v].job = e)
                                 => (\E v \in Workers : worker'[v].job = e)
    BY <1>5, <2>1, NoneAssumption
  <2> QED
    BY <1>4, <2>2 DEF Inv, FutureAgrees
<1>10. TaskAgrees'
  BY <1>4 DEF Inv, TaskAgrees
<1> QED
  BY <1>6, <1>7, <1>8, <1>9, <1>10

\* A future a thread marks running was not cancelled: from here it cannot be.
LEMMA BeginRunStep ==
    ASSUME Inv, NEW w \in Workers, BeginRun(w)
    PROVE  (QueuedOnce /\ HeldOnce /\ HandsAgree /\ FutureAgrees /\ TaskAgrees)'
<1> DEFINE d == worker[w].job
<1>1. d \in Dispatches /\ d # None
  BY NoneAssumption DEF BeginRun, Inv, TypeOK
<1>2. /\ worker[w].pc = "took" /\ future[d] = "queued"
      /\ future' = [future EXCEPT ![d] = "running"]
      /\ UNCHANGED <<queue, started, outcome, expired, afut, task, answer>>
  BY DEF BeginRun, loopVars
<1>3. \A v \in Workers : /\ worker'[v].job = worker[v].job
                        /\ worker'[v].pc = IF v = w THEN "starting" ELSE worker[v].pc
  BY DEF BeginRun, Inv, TypeOK
<1>4. \A e \in Dispatches : future'[e] = IF e = d THEN "running" ELSE future[e]
  BY <1>1, <1>2 DEF Inv, TypeOK
<1>5. QueuedOnce'
  <2>1. \A i \in DOMAIN queue : queue[i] \in Dispatches /\ queue[i] # d
    BY DEF Inv, TypeOK, QueuedOnce
  <2> QED
    BY <1>2, <1>3, <1>4, <2>1 DEF Inv, QueuedOnce
<1>6. HeldOnce'
  BY <1>3 DEF Inv, HeldOnce
<1>7. HandsAgree'
  <2> SUFFICES ASSUME NEW v \in Workers
               PROVE  /\ worker'[v].pc = "took" => future'[worker'[v].job] \in {"queued", "cancelled"}
                      /\ worker'[v].pc = "starting" =>
                            future'[worker'[v].job] = "running" /\ ~started'[worker'[v].job]
                      /\ worker'[v].pc = "running" =>
                            future'[worker'[v].job] = "running" /\ started'[worker'[v].job]
    BY DEF HandsAgree
  <2>1. CASE v = w
    BY <2>1, <1>1, <1>2, <1>3, <1>4 DEF Inv, FutureAgrees
  <2>2. CASE v # w
    <3>1. worker[v].job # d
      BY <1>1, <2>2 DEF Inv, HeldOnce
    <3>2. worker[v].pc = "idle" \/ worker[v].job \in Dispatches
      BY DEF Inv, TypeOK
    <3> QED
      BY <1>2, <1>3, <1>4, <2>2, <3>1, <3>2 DEF Inv, HandsAgree
  <2> QED
    BY <2>1, <2>2
<1>8. FutureAgrees'
  BY <1>1, <1>2, <1>3, <1>4 DEF Inv, FutureAgrees
<1>9. TaskAgrees'
  BY <1>2, <1>4 DEF Inv, TaskAgrees
<1> QED
  BY <1>5, <1>6, <1>7, <1>8, <1>9

\* Dropping a cancelled job frees the thread; the job was not running.
LEMMA DropCancelledStep ==
    ASSUME Inv, NEW w \in Workers, DropCancelled(w)
    PROVE  (QueuedOnce /\ HeldOnce /\ HandsAgree /\ FutureAgrees /\ TaskAgrees)'
<1>1. /\ worker[w].pc = "took" /\ future[worker[w].job] = "cancelled"
      /\ UNCHANGED <<queue, future, started, outcome, expired, afut, task, answer>>
  BY DEF DropCancelled, loopVars
<1>2. \A v \in Workers : /\ worker'[v].job = IF v = w THEN None ELSE worker[v].job
                        /\ worker'[v].pc = IF v = w THEN "idle" ELSE worker[v].pc
  BY DEF DropCancelled, Inv, TypeOK
<1>3. QueuedOnce'
  <2>1. \A i \in DOMAIN queue : queue[i] # None
    BY NoneAssumption DEF Inv, TypeOK
  <2> QED
    BY <1>1, <1>2, <2>1 DEF Inv, QueuedOnce
<1>4. HeldOnce'
  BY <1>2 DEF Inv, HeldOnce
<1>5. HandsAgree'
  BY <1>1, <1>2 DEF Inv, HandsAgree
<1>6. FutureAgrees'
  BY <1>1, <1>2 DEF Inv, FutureAgrees
<1>7. TaskAgrees'
  BY <1>1 DEF Inv, TaskAgrees
<1> QED
  BY <1>3, <1>4, <1>5, <1>6, <1>7

\* The flag is set by the one thread that holds the job.
LEMMA SetStartedStep ==
    ASSUME Inv, NEW w \in Workers, SetStarted(w)
    PROVE  (QueuedOnce /\ HeldOnce /\ HandsAgree /\ FutureAgrees /\ TaskAgrees)'
<1> DEFINE d == worker[w].job
<1>1. d \in Dispatches /\ d # None
  BY NoneAssumption DEF SetStarted, Inv, TypeOK
<1>2. /\ worker[w].pc = "starting" /\ future[d] = "running"
      /\ UNCHANGED <<queue, future, outcome, expired, afut, task, answer>>
  BY DEF SetStarted, loopVars, Inv, HandsAgree
<1>3. \A v \in Workers : /\ worker'[v].job = worker[v].job
                        /\ worker'[v].pc = IF v = w THEN "running" ELSE worker[v].pc
  BY DEF SetStarted, Inv, TypeOK
<1>4. \A e \in Dispatches : started'[e] = IF e = d THEN TRUE ELSE started[e]
  BY <1>1 DEF SetStarted, Inv, TypeOK
<1>5. QueuedOnce'
  BY <1>2, <1>3 DEF Inv, QueuedOnce
<1>6. HeldOnce'
  BY <1>3 DEF Inv, HeldOnce
<1>7. HandsAgree'
  <2> SUFFICES ASSUME NEW v \in Workers
               PROVE  /\ worker'[v].pc = "took" => future'[worker'[v].job] \in {"queued", "cancelled"}
                      /\ worker'[v].pc = "starting" =>
                            future'[worker'[v].job] = "running" /\ ~started'[worker'[v].job]
                      /\ worker'[v].pc = "running" =>
                            future'[worker'[v].job] = "running" /\ started'[worker'[v].job]
    BY DEF HandsAgree
  <2>1. CASE v = w
    BY <2>1, <1>1, <1>2, <1>3, <1>4
  <2>2. CASE v # w
    <3>1. worker[v].job # d
      BY <1>1, <2>2 DEF Inv, HeldOnce
    <3>2. worker[v].pc = "idle" \/ worker[v].job \in Dispatches
      BY DEF Inv, TypeOK
    <3> QED
      BY <1>2, <1>3, <1>4, <2>2, <3>1, <3>2 DEF Inv, HandsAgree
  <2> QED
    BY <2>1, <2>2
<1>8. FutureAgrees'
  <2>1. \A e \in Dispatches : (\E v \in Workers : worker[v].job = e)
                                 => (\E v \in Workers : worker'[v].job = e)
    BY <1>3
  <2> QED
    BY <1>2, <1>4, <2>1 DEF Inv, FutureAgrees
<1>9. TaskAgrees'
  BY <1>2 DEF Inv, TaskAgrees
<1> QED
  BY <1>5, <1>6, <1>7, <1>8, <1>9

\* The end of a run frees its thread and settles its future.
LEMMA FinishRunStep ==
    ASSUME Inv, NEW w \in Workers, NEW how \in Outcomes, FinishRun(w, how)
    PROVE  (QueuedOnce /\ HeldOnce /\ HandsAgree /\ FutureAgrees /\ TaskAgrees)'
<1> DEFINE d == worker[w].job
<1>1. d \in Dispatches /\ d # None
  BY NoneAssumption DEF FinishRun, Inv, TypeOK
<1>2. /\ worker[w].pc = "running" /\ future[d] = "running" /\ started[d]
      /\ UNCHANGED <<queue, started, expired, afut, task, answer>>
  BY DEF FinishRun, loopVars, Inv, HandsAgree
<1>3. \A v \in Workers : /\ worker'[v].job = IF v = w THEN None ELSE worker[v].job
                        /\ worker'[v].pc = IF v = w THEN "idle" ELSE worker[v].pc
  BY DEF FinishRun, Inv, TypeOK
<1>4. \A e \in Dispatches :
          /\ future'[e] = IF e = d THEN "finished" ELSE future[e]
          /\ outcome'[e] = IF e = d THEN how ELSE outcome[e]
  BY <1>1 DEF FinishRun, Inv, TypeOK
<1>5. QueuedOnce'
  <2>1. \A i \in DOMAIN queue : queue[i] \in Dispatches /\ queue[i] # d /\ queue[i] # None
    BY NoneAssumption DEF Inv, TypeOK, QueuedOnce
  <2> QED
    BY <1>2, <1>3, <1>4, <2>1 DEF Inv, QueuedOnce
<1>6. HeldOnce'
  BY <1>3 DEF Inv, HeldOnce
<1>7. HandsAgree'
  <2> SUFFICES ASSUME NEW v \in Workers, v # w
               PROVE  /\ worker'[v].pc = "took" => future'[worker'[v].job] \in {"queued", "cancelled"}
                      /\ worker'[v].pc = "starting" =>
                            future'[worker'[v].job] = "running" /\ ~started'[worker'[v].job]
                      /\ worker'[v].pc = "running" =>
                            future'[worker'[v].job] = "running" /\ started'[worker'[v].job]
    BY <1>3 DEF HandsAgree
  <2>1. worker[v].job # d
    BY <1>1 DEF Inv, HeldOnce
  <2>2. worker[v].pc = "idle" \/ worker[v].job \in Dispatches
    BY DEF Inv, TypeOK
  <2> QED
    BY <1>2, <1>3, <1>4, <2>1, <2>2 DEF Inv, HandsAgree
<1>8. FutureAgrees'
  <2> SUFFICES ASSUME NEW e \in Dispatches
               PROVE  /\ future'[e] = "running" => \E v \in Workers : worker'[v].job = e
                      /\ started'[e] => future'[e] \in {"running", "finished"}
                      /\ future'[e] = "finished" => started'[e] /\ outcome'[e] \in Outcomes
                      /\ outcome'[e] # "none" => future'[e] = "finished"
    BY DEF FutureAgrees
  <2>1. CASE e = d
    BY <1>2, <1>4, <2>1
  <2>2. CASE e # d
    <3>1. (\E v \in Workers : worker[v].job = e) => (\E v \in Workers : worker'[v].job = e)
      BY <1>3, <2>2
    <3> QED
      BY <1>2, <1>4, <2>2, <3>1 DEF Inv, FutureAgrees
  <2> QED
    BY <2>1, <2>2
<1>9. TaskAgrees'
  BY <1>2, <1>4 DEF Inv, TaskAgrees, FutureAgrees
<1> QED
  BY <1>5, <1>6, <1>7, <1>8, <1>9

\* A new dispatch is queued at the end; it was nowhere before.
LEMMA ExecuteProbeStep ==
    ASSUME Inv, NEW d \in Dispatches, ExecuteProbe(d)
    PROVE  (QueuedOnce /\ HeldOnce /\ HandsAgree /\ FutureAgrees /\ TaskAgrees)'
<1>1. /\ task[d] = "new" /\ future[d] = "none"
      /\ queue' = Append(queue, d)
      /\ UNCHANGED <<worker, started, outcome, expired, answer>>
  BY DEF ExecuteProbe, Inv, TaskAgrees
<1>2. \A e \in Dispatches :
          /\ future'[e] = IF e = d THEN "queued" ELSE future[e]
          /\ afut'[e] = IF e = d THEN "pending" ELSE afut[e]
          /\ task'[e] = IF e = d THEN "waiting" ELSE task[e]
  BY DEF ExecuteProbe, Inv, TypeOK
<1>3. \A w \in Workers : worker[w].job # d
  BY <1>1, NoneAssumption DEF Inv, TypeOK, HandsAgree
<1>4. QueuedOnce'
  <2>1. \A i \in DOMAIN queue : queue[i] # d /\ queue[i] \in Dispatches
    BY <1>1 DEF Inv, TypeOK, QueuedOnce
  <2>2. \A i \in DOMAIN Append(queue, d) :
            \/ i = Len(queue) + 1 /\ Append(queue, d)[i] = d
            \/ i \in DOMAIN queue /\ Append(queue, d)[i] = queue[i]
    BY DEF Inv, TypeOK
  <2>3. \A i, j \in DOMAIN Append(queue, d) :
            Append(queue, d)[i] = Append(queue, d)[j] => i = j
    BY <2>1, <2>2 DEF Inv, QueuedOnce
  <2>4. \A i \in DOMAIN Append(queue, d) :
            /\ future'[Append(queue, d)[i]] \in {"queued", "cancelled"}
            /\ \A w \in Workers : worker[w].job # Append(queue, d)[i]
    BY <1>2, <1>3, <2>1, <2>2 DEF Inv, QueuedOnce
  <2> QED
    BY <1>1, <2>3, <2>4 DEF QueuedOnce
<1>5. HeldOnce'
  BY <1>1 DEF Inv, HeldOnce
<1>6. HandsAgree'
  <2>1. \A w \in Workers : worker[w].pc = "idle" \/ worker[w].job \in Dispatches
    BY DEF Inv, TypeOK
  <2> QED
    BY <1>1, <1>2, <1>3, <2>1 DEF Inv, HandsAgree
<1>7. FutureAgrees'
  BY <1>1, <1>2 DEF Inv, FutureAgrees
<1>8. TaskAgrees'
  BY <1>1, <1>2 DEF Inv, TaskAgrees, TypeOK
<1> QED
  BY <1>4, <1>5, <1>6, <1>7, <1>8

\* Future.cancel succeeds only while no thread runs the job.
LEMMA CancelSourceStep ==
    ASSUME Inv, NEW d \in Dispatches, CancelSource(d)
    PROVE  (QueuedOnce /\ HeldOnce /\ HandsAgree /\ FutureAgrees /\ TaskAgrees)'
<1>1. /\ task[d] = "expiring" /\ expired[d] /\ d \in Budgeted
      /\ UNCHANGED <<queue, worker, started, outcome, afut, answer, expired>>
  BY DEF CancelSource, Inv, TaskAgrees
<1>2. \A e \in Dispatches :
          /\ future'[e] = IF e = d /\ future[d] = "queued" THEN "cancelled" ELSE future[e]
          /\ task'[e] = IF e = d THEN "woken" ELSE task[e]
  BY DEF CancelSource, Inv, TypeOK
<1>3. QueuedOnce'
  <2>1. \A i \in DOMAIN queue : queue[i] \in Dispatches
    BY DEF Inv, TypeOK
  <2> QED
    BY <1>1, <1>2, <2>1 DEF Inv, QueuedOnce
<1>4. HeldOnce'
  BY <1>1 DEF Inv, HeldOnce
<1>5. HandsAgree'
  <2>1. \A w \in Workers : worker[w].pc = "idle" \/ worker[w].job \in Dispatches
    BY DEF Inv, TypeOK
  <2> QED
    BY <1>1, <1>2, <2>1 DEF Inv, HandsAgree
<1>6. FutureAgrees'
  BY <1>1, <1>2 DEF Inv, FutureAgrees
<1>7. TaskAgrees'
  BY <1>1, <1>2 DEF Inv, TaskAgrees, TypeOK
<1> QED
  BY <1>3, <1>4, <1>5, <1>6, <1>7

\* The other loop callbacks and the clock leave the pool alone.
LEMMA CallbackStep ==
    ASSUME Inv, NEW d \in Dispatches,
           \/ BudgetElapses(d) \/ DeliverResult(d) \/ DeliverThenExpire(d)
           \/ TimerFires(d) \/ EnterGrace(d) \/ AnswerTimeout(d) \/ Refuse(d)
           \/ ReturnOutcome(d) \/ CatchRunsTimeoutError(d)
    PROVE  TaskAgrees' /\ UNCHANGED poolVars
<1>1. CASE BudgetElapses(d)
  BY <1>1 DEF BudgetElapses, Inv, TaskAgrees, TypeOK, loopVars, poolVars
<1>2. CASE DeliverResult(d)
  BY <1>2 DEF DeliverResult, Inv, TaskAgrees, TypeOK, poolVars
<1>3. CASE DeliverThenExpire(d)
  BY <1>3 DEF DeliverThenExpire, Inv, TaskAgrees, TypeOK, poolVars
<1>4. CASE TimerFires(d)
  BY <1>4 DEF TimerFires, Inv, TaskAgrees, TypeOK, poolVars
<1>5. CASE EnterGrace(d)
  BY <1>5 DEF EnterGrace, Inv, TaskAgrees, TypeOK, poolVars
<1>6. CASE AnswerTimeout(d)
  BY <1>6 DEF AnswerTimeout, Inv, TaskAgrees, TypeOK, poolVars
<1>7. CASE Refuse(d)
  BY <1>7 DEF Refuse, Inv, TaskAgrees, TypeOK, poolVars
<1>8. CASE ReturnOutcome(d)
  BY <1>8 DEF ReturnOutcome, Inv, TaskAgrees, TypeOK, poolVars
<1>9. CASE CatchRunsTimeoutError(d)
  BY <1>9 DEF CatchRunsTimeoutError, Inv, TaskAgrees, TypeOK, poolVars
<1> QED
  BY <1>1, <1>2, <1>3, <1>4, <1>5, <1>6, <1>7, <1>8, <1>9

\* Every step keeps the invariant.
LEMMA InvStep == Inv /\ [Next]_vars => Inv'
<1> SUFFICES ASSUME Inv, [Next]_vars PROVE Inv'
  OBVIOUS
<1>1. CASE UNCHANGED vars
  <2>1. TypeOK' /\ TaskAgrees' /\ UNCHANGED poolVars
    BY <1>1 DEF vars, poolVars, Inv, TypeOK, TaskAgrees
  <2> QED
    BY <2>1, PoolUntouched DEF Inv
<1>2. CASE Next
  <2>1. TypeOK'
    BY <1>2, TypeStep DEF Inv
  <2>2. ASSUME NEW w \in Workers, PoolStep(w) PROVE Inv'
    BY <2>1, <2>2, TakeJobStep, BeginRunStep, DropCancelledStep, SetStartedStep
       DEF PoolStep, Inv
  <2>3. ASSUME NEW w \in Workers, NEW how \in Outcomes, FinishRun(w, how) PROVE Inv'
    BY <2>1, <2>3, FinishRunStep DEF Inv
  <2>4. ASSUME NEW d \in Dispatches, ExecuteProbe(d) PROVE Inv'
    BY <2>1, <2>4, ExecuteProbeStep DEF Inv
  <2>5. ASSUME NEW d \in Dispatches, BudgetElapses(d) \/ LoopStep(d) PROVE Inv'
    <3>1. CASE CancelSource(d)
      BY <2>1, <3>1, CancelSourceStep DEF Inv
    <3>2. CASE ~CancelSource(d)
      <4>1. TaskAgrees' /\ UNCHANGED poolVars
        BY <2>5, <3>2, CallbackStep DEF LoopStep
      <4> QED
        BY <2>1, <4>1, PoolUntouched DEF Inv
    <3> QED
      BY <3>1, <3>2
  <2> QED
    BY <1>2, <2>2, <2>3, <2>4, <2>5 DEF Next
<1> QED
  BY <1>1, <1>2

\* The invariant holds in every state the dispatcher reaches.
THEOREM Invariance == Spec => []Inv
<1>1. Init => Inv
  BY InitInv
<1>2. Inv /\ [Next]_vars => Inv'
  BY InvStep
<1> QED
  BY <1>1, <1>2, PTL DEF Spec

\* Type correctness of the dispatcher's state.
THEOREM TypeCorrect == Spec => []TypeOK
<1>1. Inv => TypeOK
  BY DEF Inv
<1> QED
  BY <1>1, Invariance, PTL

\* A job is queued once and is never both queued and in a thread's hands.
THEOREM NeverQueuedTwice == Spec => []QueuedOnce
<1>1. Inv => QueuedOnce
  BY DEF Inv
<1> QED
  BY <1>1, Invariance, PTL

\* A running script holds exactly one slot of the probe pool.
THEOREM OneSlotPerRun == Spec => []RunningHoldsOneSlot
<1>1. Inv => RunningHoldsOneSlot
  <2> SUFFICES ASSUME Inv, NEW d \in Dispatches, future[d] = "running"
               PROVE  \E w \in Workers :
                          /\ worker[w].job = d
                          /\ \A v \in Workers : worker[v].job = d => v = w
    BY DEF RunningHoldsOneSlot
  <2>1. PICK w \in Workers : worker[w].job = d
    BY DEF Inv, FutureAgrees
  <2> QED
    BY <2>1, NoneAssumption DEF Inv, HeldOnce
<1> QED
  BY <1>1, Invariance, PTL

\* A run's own outcome is replaced only past its deadline.
THEOREM OutcomeKeptBeforeDeadline == Spec => []DiscardOnlyPastDeadline
<1>1. Init => DiscardOnlyPastDeadline
  BY DEF Init, DiscardOnlyPastDeadline
<1>2. Inv /\ DiscardOnlyPastDeadline /\ [Next]_vars => DiscardOnlyPastDeadline'
  <2> SUFFICES ASSUME Inv, DiscardOnlyPastDeadline, [Next]_vars
               PROVE  DiscardOnlyPastDeadline'
    OBVIOUS
  <2>1. CASE UNCHANGED <<answer, outcome, expired>>
    BY <2>1 DEF DiscardOnlyPastDeadline
  <2>2. ASSUME NEW w \in Workers, NEW how \in Outcomes, FinishRun(w, how)
        PROVE  DiscardOnlyPastDeadline'
    <3>1. outcome[worker[w].job] = "none"
      BY <2>2 DEF FinishRun, Inv, HandsAgree, FutureAgrees, TypeOK
    <3> QED
      BY <2>2, <3>1 DEF FinishRun, loopVars, DiscardOnlyPastDeadline, Inv, TypeOK
  <2>3. ASSUME NEW d \in Dispatches, BudgetElapses(d) PROVE DiscardOnlyPastDeadline'
    BY <2>3 DEF BudgetElapses, loopVars, poolVars, DiscardOnlyPastDeadline, Inv, TypeOK
  <2>4. ASSUME NEW d \in Dispatches, AnswerTimeout(d) \/ Refuse(d)
        PROVE  DiscardOnlyPastDeadline'
    BY <2>4 DEF AnswerTimeout, Refuse, poolVars, DiscardOnlyPastDeadline,
                Inv, TypeOK, TaskAgrees
  <2>5. ASSUME NEW d \in Dispatches, ReturnOutcome(d) PROVE DiscardOnlyPastDeadline'
    BY <2>5 DEF ReturnOutcome, poolVars, DiscardOnlyPastDeadline, Inv, TypeOK
  <2> QED
    BY <2>1, <2>2, <2>3, <2>4, <2>5
       DEF Next, PoolStep, TakeJob, BeginRun, DropCancelled, SetStarted, loopVars, poolVars,
           vars, ExecuteProbe, LoopStep, DeliverResult, DeliverThenExpire, TimerFires,
           CancelSource, EnterGrace, CatchRunsTimeoutError
<1> QED
  BY <1>1, <1>2, Invariance, PTL DEF Spec

\* When a thread that took a job sets the flag within the grace period, a
\* refusal leaves the future cancelled for good.
LEMMA RefusalStep ==
    ASSUME StartsWithinGrace
    PROVE  Inv /\ RefusedDropped /\ [Next]_vars => RefusedDropped'
<1> SUFFICES ASSUME Inv, RefusedDropped, [Next]_vars PROVE RefusedDropped'
  OBVIOUS
<1>1. CASE UNCHANGED <<answer, future>>
  BY <1>1 DEF RefusedDropped
<1>2. ASSUME NEW w \in Workers, BeginRun(w) PROVE RefusedDropped'
  BY <1>2 DEF BeginRun, loopVars, RefusedDropped, Inv, TypeOK
<1>3. ASSUME NEW w \in Workers, NEW how \in Outcomes, FinishRun(w, how)
      PROVE  RefusedDropped'
  <2>1. future[worker[w].job] = "running"
    BY <1>3 DEF FinishRun, Inv, HandsAgree
  <2> QED
    BY <1>3, <2>1 DEF FinishRun, loopVars, RefusedDropped, Inv, TypeOK
<1>4. ASSUME NEW d \in Dispatches, ExecuteProbe(d) \/ CancelSource(d)
      PROVE  RefusedDropped'
  BY <1>4 DEF ExecuteProbe, CancelSource, RefusedDropped, Inv, TypeOK, TaskAgrees
<1>5. ASSUME NEW d \in Dispatches, Refuse(d) PROVE RefusedDropped'
  <2>1. future[d] = "cancelled"
    BY <1>5 DEF Refuse, Inv, TaskAgrees, FutureAgrees
  <2> QED
    BY <1>5, <2>1 DEF Refuse, poolVars, RefusedDropped, Inv, TypeOK
<1>6. ASSUME NEW d \in Dispatches, AnswerTimeout(d) \/ ReturnOutcome(d)
      PROVE  RefusedDropped'
  BY <1>6 DEF AnswerTimeout, ReturnOutcome, poolVars, RefusedDropped, Inv, TypeOK
<1> QED
  BY <1>1, <1>2, <1>3, <1>4, <1>5, <1>6
     DEF Next, PoolStep, TakeJob, DropCancelled, SetStarted, loopVars, poolVars, vars,
         BudgetElapses, LoopStep, DeliverResult, DeliverThenExpire, TimerFires,
         EnterGrace, CatchRunsTimeoutError

\* Once a refused dispatch is dropped it stays dropped, in every reachable state.
THEOREM RefusalInvariance == ASSUME StartsWithinGrace PROVE Spec => []RefusedDropped
<1>1. Init => RefusedDropped
  BY DEF Init, RefusedDropped
<1>2. Inv /\ RefusedDropped /\ [Next]_vars => RefusedDropped'
  BY RefusalStep
<1> QED
  BY <1>1, <1>2, Invariance, PTL DEF Spec

\* A refused dispatch never runs: the scheduler may hand it to another agent.
THEOREM RefusalIsFinal == ASSUME StartsWithinGrace PROVE Spec => []RefusedNeverRuns
<1>1. Inv /\ RefusedDropped => RefusedNeverRuns
  <2> SUFFICES ASSUME Inv, RefusedDropped, NEW d \in Dispatches, answer[d] = "refused"
               PROVE  /\ future[d] = "cancelled" /\ ~started[d]
                      /\ \A w \in Workers : worker[w].job = d => worker[w].pc = "took"
    BY DEF RefusedNeverRuns
  <2>1. future[d] = "cancelled" /\ ~started[d]
    BY DEF RefusedDropped, Inv, FutureAgrees
  <2>2. ASSUME NEW w \in Workers, worker[w].job = d PROVE worker[w].pc = "took"
    <3>1. worker[w].pc \in {"took", "starting", "running"}
      BY <2>2, NoneAssumption DEF Inv, TypeOK
    <3> QED
      BY <2>1, <2>2, <3>1 DEF Inv, HandsAgree
  <2> QED
    BY <2>1, <2>2
<1> QED
  BY <1>1, Invariance, RefusalInvariance, PTL

-----------------------------------------------------------------------------
(* ProbeDispatch implements DispatchContract. *)


Stage == [d \in Dispatches |-> ContractStage(d)]

\* The stage a scheduler may attribute to a dispatch, case by case.
LEMMA StageCases ==
    /\ DOMAIN Stage = Dispatches
    /\ \A d \in Dispatches :
           /\ future[d] = "running" => Stage[d] = "running"
           /\ future[d] = "finished" => Stage[d] = outcome[d]
           /\ future[d] \notin {"running", "finished"} => Stage[d] = "not_begun"
  BY DEF Stage, ContractStage

\* The same after a step.
LEMMA StageCasesNext ==
    /\ DOMAIN Stage' = Dispatches
    /\ \A d \in Dispatches :
           /\ future'[d] = "running" => Stage'[d] = "running"
           /\ future'[d] = "finished" => Stage'[d] = outcome'[d]
           /\ future'[d] \notin {"running", "finished"} => Stage'[d] = "not_begun"
           /\ future'[d] = future[d] /\ outcome'[d] = outcome[d] => Stage'[d] = Stage[d]
  BY DEF Stage, ContractStage

\* A step that changes one dispatch's stage updates the mapped function there.
LEMMA StageUpdate ==
    ASSUME NEW d \in Dispatches,
           \A e \in Dispatches \ {d} : future'[e] = future[e] /\ outcome'[e] = outcome[e]
    PROVE  Stage' = [Stage EXCEPT ![d] = Stage'[d]]
  BY DEF Stage, ContractStage

\* Every step of the dispatcher is a step of the contract or a stutter.
LEMMA ContractStep ==
    ASSUME StartsWithinGrace, Inv, [Next]_vars
    PROVE  [Contract!Next]_<<Stage, answer>>
<1>1. CASE UNCHANGED <<future, outcome, answer>>
  BY <1>1 DEF Stage, ContractStage
<1>2. ASSUME NEW w \in Workers, BeginRun(w) PROVE Contract!Next
  <2> DEFINE d == worker[w].job
  <2>1. /\ d \in Dispatches /\ future[d] = "queued" /\ future'[d] = "running"
        /\ \A e \in Dispatches \ {d} : future'[e] = future[e]
        /\ UNCHANGED <<outcome, answer>>
    BY <1>2, NoneAssumption DEF BeginRun, loopVars, Inv, TypeOK
  <2>2. answer[d] = "none"
    BY <2>1 DEF Inv, TaskAgrees
  <2>3. Stage[d] = "not_begun" /\ Stage' = [Stage EXCEPT ![d] = "running"]
    BY <2>1, StageCases, StageCasesNext, StageUpdate
  <2> QED
    BY <2>1, <2>2, <2>3 DEF Contract!Next, Contract!Begin, Stage
<1>3. ASSUME NEW w \in Workers, NEW how \in Outcomes, FinishRun(w, how)
      PROVE  Contract!Next
  <2> DEFINE d == worker[w].job
  <2>1. /\ d \in Dispatches /\ future[d] = "running"
        /\ future'[d] = "finished" /\ outcome'[d] = how
        /\ \A e \in Dispatches \ {d} : future'[e] = future[e] /\ outcome'[e] = outcome[e]
        /\ UNCHANGED answer
    BY <1>3, NoneAssumption DEF FinishRun, loopVars, Inv, TypeOK, HandsAgree
  <2>2. Stage[d] = "running" /\ Stage' = [Stage EXCEPT ![d] = how]
    BY <2>1, StageCases, StageCasesNext, StageUpdate
  <2> QED
    BY <2>1, <2>2 DEF Contract!Next, Contract!End, Contract!Ends, Stage
<1>4. ASSUME NEW d \in Dispatches, ExecuteProbe(d) \/ CancelSource(d)
      PROVE  UNCHANGED <<Stage, answer>>
  <2>1. \A e \in Dispatches :
            \/ future'[e] = future[e]
            \/ {future[e], future'[e]} \cap {"running", "finished"} = {}
    BY <1>4 DEF ExecuteProbe, CancelSource, Inv, TypeOK, TaskAgrees
  <2>2. UNCHANGED <<outcome, answer>>
    BY <1>4 DEF ExecuteProbe, CancelSource
  <2>3. \A e \in Dispatches : ContractStage(e)' = ContractStage(e)
    BY <2>1, <2>2 DEF ContractStage
  <2> QED
    BY <2>2, <2>3 DEF Stage
<1>5. ASSUME NEW d \in Dispatches, AnswerTimeout(d) \/ Refuse(d) \/ ReturnOutcome(d)
      PROVE  Contract!Next
  <2>1. /\ UNCHANGED <<future, outcome>>
        /\ answer[d] = "none"
        /\ answer' = [answer EXCEPT ![d] = answer'[d]]
    BY <1>5 DEF AnswerTimeout, Refuse, ReturnOutcome, poolVars, Inv, TypeOK, TaskAgrees
  <2>2. Contract!MayAnswer(d, answer'[d])
    <3>1. CASE AnswerTimeout(d)
      <4>1. answer'[d] = "timeout" /\ d \in Budgeted /\ future[d] \in {"running", "finished"}
        BY <3>1 DEF AnswerTimeout, Inv, TypeOK, TaskAgrees, FutureAgrees
      <4>2. Stage[d] # "not_begun"
        BY <4>1, StageCases DEF Inv, FutureAgrees
      <4> QED
        BY <4>1, <4>2 DEF Contract!MayAnswer, Stage
    <3>2. CASE Refuse(d)
      <4>1. answer'[d] = "refused" /\ d \in Budgeted /\ future[d] \notin {"running", "finished"}
        BY <3>2 DEF Refuse, Inv, TypeOK, TaskAgrees, FutureAgrees
      <4>2. Stage[d] = "not_begun"
        BY <4>1, StageCases
      <4> QED
        BY <4>1, <4>2 DEF Contract!MayAnswer, Stage
    <3>3. CASE ReturnOutcome(d)
      <4>1. /\ future[d] = "finished" /\ outcome[d] \in Outcomes
            /\ answer'[d] = IF outcome[d] = "ok" THEN "result" ELSE "error"
        BY <3>3 DEF ReturnOutcome, Inv, TypeOK, TaskAgrees, FutureAgrees
      <4>2. Stage[d] = outcome[d]
        BY <4>1, StageCases
      <4> QED
        BY <4>1, <4>2 DEF Contract!MayAnswer, Stage
    <3> QED
      BY <1>5, <3>1, <3>2, <3>3
  <2>3. answer'[d] \in {"result", "error", "timeout", "refused"}
    BY <2>2 DEF Contract!MayAnswer
  <2>4. UNCHANGED Stage
    BY <2>1 DEF Stage, ContractStage
  <2> QED
    BY <2>1, <2>2, <2>3, <2>4 DEF Contract!Next, Contract!Answer, Stage
<1> QED
  BY <1>1, <1>2, <1>3, <1>4, <1>5
     DEF Next, PoolStep, TakeJob, DropCancelled, SetStarted, loopVars, poolVars, vars,
         BudgetElapses, LoopStep, DeliverResult, DeliverThenExpire, TimerFires,
         EnterGrace, CatchRunsTimeoutError

\* What execute_probe promises the scheduler, it does.
THEOREM ContractImplemented == ASSUME StartsWithinGrace PROVE Spec => ImplementsContract
<1>1. Init => Contract!Init
  BY DEF Init, Contract!Init, ContractStage
<1>2. Inv /\ [Next]_vars => [Contract!Next]_<<[d \in Dispatches |-> ContractStage(d)], answer>>
  BY ContractStep DEF Stage
<1> QED
  BY <1>1, <1>2, Invariance, PTL DEF Spec, ImplementsContract, Contract!Spec
=================================================================================
