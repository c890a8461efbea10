---------------------------- MODULE RunContextProofs ----------------------------
(***************************************************************************)
(* Theorems about RunContext, for any number of jobs, threads, calls and   *)
(* exchanges, any hosts, bodies and secrets.  The invariant says that what *)
(* hangs on a thread is a function of where the thread is (Hangs): nothing *)
(* of an earlier run is left on it.  It needs that a job is in one thread's *)
(* hands, that a job no thread took has exchanged nothing, and that the    *)
(* contexts always find a bare thread (saved).                             *)
(***************************************************************************)
EXTENDS RunContext, RedactionProofs

Tracking == {"script", "resolved", "connected"}

\* Where a thread has no job.
Free == {"idle", "reach"}

USE DEF Free

\* What hangs on a witness's thread.
Witnessing == [assigned |-> None, counting |-> FALSE, bytes |-> 0,
               guarded |-> EgressEnabled, tracked |-> None]

\* A thread with a job's record assigned and no context entered.
Bare(r) == [assigned |-> r, counting |-> FALSE, bytes |-> 0,
            guarded |-> FALSE, tracked |-> None]

\* One inside the contexts, n bytes into its run.
Full(r, n) == [assigned |-> r, counting |-> TRUE, bytes |-> n,
               guarded |-> EgressEnabled, tracked |-> r]

\* What hangs on a thread.
Hangs(t) ==
    IF pc[t] = "idle" THEN AtRest
    ELSE IF pc[t] = "reach" THEN Witnessing
    ELSE IF pc[t] \in Tracking THEN Full(run[t], wire[run[t]])
    ELSE Bare(run[t])

ThreadAt(t) ==
    /\ saved[t] = AtRest
    /\ local[t] = Hangs(t)
    /\ t \in DefaultThreads => pc[t] \in Free
    /\ pc[t] \in Free <=> run[t] = None
    /\ run[t] # None => stage[run[t]] = "running"
    /\ pc[t] = "setup" => wire[run[t]] = 0
    /\ pc[t] = "storing" => counted[run[t]] = wire[run[t]]

ThreadInv == \A t \in Threads : ThreadAt(t)

\* No job is in two threads' hands.
HeldOnce == \A t, u \in Threads : run[t] = run[u] /\ run[t] # None => t = u

JobInv ==
    \A r \in Runs :
        /\ recorded[r] = wire[r]
        /\ stage[r] \in {"new", "submitted", "refused"} => wire[r] = 0
        /\ stage[r] = "ok" => counted[r] = wire[r]

\* A path that leads to storage leads to the object of its own call.
PathInv ==
    \A r \in Runs, c \in Calls :
        path[r][c] \notin {NoPath, LocalPath}
            => /\ path[r][c] = Key(r, c)
               /\ storage[Key(r, c)].run = r /\ storage[Key(r, c)].call = c

\* A thread with a connection is in one of its script's calls.
CallInv == \A t \in Threads : pc[t] \in {"resolved", "connected"} => call[t] \in Calls

RunInv == /\ RunTypeOK /\ ThreadInv /\ HeldOnce /\ JobInv /\ PathInv
          /\ GuardedRunsStayOutside /\ AgentTrafficUnguarded

---------------------------------------------------------------------------------
(* The ends of a run. *)

\* A thread at rest holds well-formed thread-local state.
LEMMA AtRestIsLocal == AtRest \in Locals
  BY ContextAssumption DEF AtRest, Locals

\* So does a thread that has only been handed its run's record.
LEMMA BareIsLocal == \A r \in Runs : Bare(r) \in Locals
  BY DEF Bare, Locals

\* Two that differ in `assigned` at most.
LEMMA Reassigned ==
    ASSUME NEW x \in Locals, NEW y \in Locals,
           x.counting = y.counting, x.bytes = y.bytes,
           x.guarded = y.guarded, x.tracked = y.tracked
    PROVE  [x EXCEPT !.assigned = y.assigned] = y
  BY DEF Locals

\* assign() and its end.
LEMMA Dressed ==
    /\ [AtRest EXCEPT !.assigned = AtRest.assigned] = AtRest
    /\ \A r \in Runs : [AtRest EXCEPT !.assigned = r] = Bare(r)
    /\ \A r \in Runs : [Bare(r) EXCEPT !.assigned = AtRest.assigned] = AtRest
<1>1. ASSUME NEW r \in Runs
      PROVE  /\ Bare(r).assigned = r
             /\ Bare(r).counting = AtRest.counting /\ Bare(r).bytes = AtRest.bytes
             /\ Bare(r).guarded = AtRest.guarded /\ Bare(r).tracked = AtRest.tracked
  BY DEF Bare, AtRest
<1> QED
  BY <1>1, AtRestIsLocal, BareIsLocal, Reassigned

\* With every thread at rest and nothing stored, the run invariant holds.
LEMMA InitHolds == RunInit => RunInv
<1> SUFFICES ASSUME RunInit PROVE RunInv
  OBVIOUS
<1>1. RunTypeOK
  <2>1. storage \in [Keys -> Objects]
    BY ContextAssumption DEF RunInit, Objects, NoObject
  <2> QED
    BY <2>1, ContextAssumption, AtRestIsLocal DEF RunInit, RunTypeOK, Stages, Keys
<1>2. ThreadInv /\ HeldOnce
  BY ContextAssumption DEF RunInit, ThreadInv, ThreadAt, HeldOnce, Hangs
<1>3. JobInv /\ PathInv
  BY DEF RunInit, JobInv, PathInv
<1> QED
  BY <1>1, <1>2, <1>3 DEF RunInv, RunInit, GuardedRunsStayOutside, AgentTrafficUnguarded

\* Submitting or refusing a job touches no thread.
LEMMA SubmitStep ==
    ASSUME RunInv, NEW r \in Runs, Submit(r) \/ Refuse(r)
    PROVE  RunInv'
<1> USE DEF RunInv, Submit, Refuse, threadVars, history
<1>1. RunTypeOK'
  BY DEF RunTypeOK, Stages
<1>2. ThreadInv'
  <2>1. \A t \in Threads : Hangs(t)' = Hangs(t)
    BY DEF Hangs
  <2>2. \A t \in Threads : run[t] # None => stage'[run[t]] = "running"
    BY DEF RunTypeOK, ThreadInv, ThreadAt
  <2> QED
    BY <2>1, <2>2 DEF ThreadInv, ThreadAt
<1>3. HeldOnce'
  BY DEF HeldOnce
<1>4. JobInv' /\ PathInv'
  BY DEF RunTypeOK, JobInv, PathInv, Key
<1> QED
  BY <1>1, <1>2, <1>3, <1>4 DEF GuardedRunsStayOutside, AgentTrafficUnguarded

\* A step of one thread that touches no other thread's variables, and of the jobs
\* only its own, leaves the other threads as they should be.
LEMMA Others ==
    ASSUME RunInv, NEW t \in Threads, NEW r \in Runs,
           r = run[t] \/ \A v \in Threads : run[v] # r,
           \A u \in Threads : u # t => /\ pc'[u] = pc[u] /\ run'[u] = run[u]
                                      /\ local'[u] = local[u] /\ saved'[u] = saved[u],
           \A q \in Runs : q # r => /\ stage'[q] = stage[q] /\ wire'[q] = wire[q]
                                   /\ counted'[q] = counted[q]
    PROVE  \A u \in Threads : u # t => ThreadAt(u)'
<1> SUFFICES ASSUME NEW u \in Threads, u # t PROVE ThreadAt(u)'
  OBVIOUS
<1>1. ThreadAt(u) /\ ThreadAt(t)
  BY DEF RunInv, ThreadInv
<1>2. run[u] # r
  BY ContextAssumption DEF RunInv, HeldOnce
<1>3. run[u] # None => run[u] \in Runs
  BY DEF RunInv, RunTypeOK
<1>4. Hangs(u)' = Hangs(u)
  BY <1>1, <1>2, <1>3 DEF Hangs, ThreadAt
<1> QED
  BY <1>1, <1>2, <1>3, <1>4 DEF ThreadAt

\* A pool thread takes up a run from rest.
LEMMA BeginStep ==
    ASSUME RunInv, NEW t \in PoolThreads, NEW r \in Runs, BeginRun(t, r)
    PROVE  RunInv'
<1>0. /\ RunTypeOK /\ t \in Threads /\ t \notin DefaultThreads
      /\ local[t] = AtRest /\ saved[t] = AtRest /\ run[t] = None
  BY ContextAssumption DEF RunInv, Threads, ThreadInv, ThreadAt, Hangs, BeginRun
<1>1. /\ stage[r] = "submitted"
      /\ stage' = [stage EXCEPT ![r] = "running"]
      /\ pc' = [pc EXCEPT ![t] = "setup"] /\ run' = [run EXCEPT ![t] = r]
      /\ UNCHANGED <<call, results, files, path, counted, recorded, storage, wire,
                     reached, caught>>
  BY DEF BeginRun, history
<1>2. /\ saved' = [saved EXCEPT ![t] = AtRest]
      /\ local' = [local EXCEPT ![t] = Bare(r)]
  BY <1>0, Dressed DEF RunTypeOK, BeginRun
<1>3. RunTypeOK'
  <2>1. local' \in [Threads -> Locals] /\ saved' \in [Threads -> Locals]
    BY <1>0, <1>2, AtRestIsLocal, BareIsLocal DEF RunTypeOK
  <2> QED
    BY <1>0, <1>1, <2>1 DEF RunTypeOK, Stages
<1>4. \A u \in Threads : run[u] # r
  <2> SUFFICES ASSUME NEW u \in Threads, run[u] = r PROVE FALSE
    OBVIOUS
  <2>1. r # None
    BY ContextAssumption
  <2>2. stage[r] = "running"
    BY <2>1 DEF RunInv, ThreadInv, ThreadAt
  <2> QED
    BY <1>1, <2>2
<1>5. ThreadInv'
  <2>1. \A u \in Threads : u # t => ThreadAt(u)'
    BY <1>0, <1>1, <1>2, <1>4, Others DEF RunTypeOK
  <2>2. /\ pc'[t] = "setup" /\ run'[t] = r /\ stage'[r] = "running" /\ wire'[r] = 0
        /\ saved'[t] = AtRest /\ local'[t] = Bare(r)
    BY <1>0, <1>1, <1>2 DEF RunTypeOK, RunInv, JobInv
  <2>3. local'[t] = Hangs(t)'
    BY <2>2 DEF Hangs, Tracking
  <2> QED
    BY <1>0, <2>1, <2>2, <2>3, ContextAssumption DEF ThreadInv, ThreadAt
<1>6. HeldOnce'
  BY <1>0, <1>1, <1>4 DEF RunInv, HeldOnce, RunTypeOK
<1>7. JobInv' /\ PathInv'
  BY <1>0, <1>1 DEF RunInv, RunTypeOK, JobInv, PathInv, Key
<1> QED
  BY <1>1, <1>3, <1>5, <1>6, <1>7 DEF RunInv, GuardedRunsStayOutside, AgentTrafficUnguarded

\* A thread that is not idle has a running job, and on it what its place says.
LEMMA Holding ==
    ASSUME RunInv, NEW t \in Threads, pc[t] \notin Free
    PROVE  /\ run[t] \in Runs /\ run[t] # None /\ stage[run[t]] = "running"
           /\ saved[t] = AtRest
           /\ pc[t] \in Tracking => local[t] = Full(run[t], wire[run[t]])
           /\ pc[t] \notin Tracking => local[t] = Bare(run[t])
           /\ pc[t] = "setup" => wire[run[t]] = 0
           /\ pc[t] = "storing" => counted[run[t]] = wire[run[t]]
<1>1. ThreadAt(t) /\ run[t] \in Runs \cup {None}
  BY DEF RunInv, ThreadInv, RunTypeOK
<1> QED
  BY <1>1, ContextAssumption DEF ThreadAt, Hangs

\* A run that returns or raises leaves its thread at rest, whatever is left of its files.
LEMMA EndStep ==
    ASSUME RunInv, NEW t \in PoolThreads, EndRun(t)
    PROVE  RunInv'
<1> DEFINE r == run[t]
<1>0. /\ RunTypeOK /\ t \in Threads /\ t \notin DefaultThreads
      /\ pc[t] \in {"raised", "storing"}
  BY ContextAssumption DEF RunInv, Threads, EndRun
<1>1. /\ r \in Runs /\ r # None /\ stage[r] = "running"
      /\ local[t] = Bare(r) /\ saved[t] = AtRest
      /\ pc[t] = "storing" => counted[r] = wire[r]
  BY <1>0, Holding DEF Tracking
<1>2. /\ stage' = [stage EXCEPT ![r] = IF pc[t] = "raised" THEN "error" ELSE "ok"]
      /\ pc' = [pc EXCEPT ![t] = "idle"] /\ run' = [run EXCEPT ![t] = None]
      /\ call' = [call EXCEPT ![t] = 0]
      /\ \E left \in SUBSET files[r] : files' = [files EXCEPT ![r] = left]
      /\ UNCHANGED <<results, saved, path, counted, recorded, storage, wire,
                     reached, caught>>
  BY DEF EndRun, Rmtree, history
<1>3. local' = [local EXCEPT ![t] = AtRest]
  <2>1. local \in [Threads -> Locals]
    BY <1>0 DEF RunTypeOK
  <2>2. local' = [local EXCEPT ![t].assigned = AtRest.assigned]
    BY <1>1 DEF EndRun
  <2> QED
    BY <1>0, <1>1, <2>1, <2>2, Dressed
<1> HIDE DEF r
<1>4. RunTypeOK'
  <2>1. local' \in [Threads -> Locals]
    BY <1>0, <1>3, AtRestIsLocal DEF RunTypeOK
  <2>2. call' \in [Threads -> 0 .. MaxCalls]
    BY <1>0, <1>2, ContextAssumption DEF RunTypeOK
  <2> QED
    BY <1>0, <1>1, <1>2, <2>1, <2>2 DEF RunTypeOK, Stages
<1>5. ThreadInv'
  <2>1. \A u \in Threads : u # t => ThreadAt(u)'
    BY <1>0, <1>1, <1>2, <1>3, Others DEF RunTypeOK, r
  <2>2. pc'[t] = "idle" /\ run'[t] = None /\ saved'[t] = AtRest /\ local'[t] = AtRest
    BY <1>0, <1>1, <1>2, <1>3 DEF RunTypeOK
  <2> QED
    BY <2>1, <2>2 DEF ThreadInv, ThreadAt, Hangs
<1>6. HeldOnce'
  BY <1>0, <1>2 DEF RunInv, HeldOnce, RunTypeOK
<1>7. JobInv' /\ PathInv'
  BY <1>0, <1>1, <1>2 DEF RunInv, RunTypeOK, JobInv, PathInv, Key
<1> QED
  BY <1>2, <1>4, <1>5, <1>6, <1>7 DEF RunInv, GuardedRunsStayOutside, AgentTrafficUnguarded

---------------------------------------------------------------------------------
(* The contexts. *)

\* Inside both contexts a thread's state is well formed, whatever it has counted.
LEMMA FullIsLocal == \A r \in Runs, n \in Nat : Full(r, n) \in Locals
  BY ContextAssumption DEF Full, Locals

\* A step of a thread within its run that leaves the jobs alone.
LEMMA WithinRun ==
    ASSUME RunInv, NEW t \in Threads, pc[t] \notin Free, NEW next,
           next \in {"setup", "script", "resolved", "connected", "storing", "raised"},
           pc' = [pc EXCEPT ![t] = next],
           NEW l \in Locals, local' = [local EXCEPT ![t] = l],
           l = Hangs(t)', run' = run, stage' = stage, wire' = wire, saved' = saved,
           \A q \in Runs : q # run[t] => counted'[q] = counted[q],
           next = "setup" => wire[run[t]] = 0,
           next = "storing" => counted'[run[t]] = wire[run[t]]
    PROVE  ThreadInv' /\ HeldOnce'
<1>0. RunTypeOK /\ run[t] \in Runs /\ run[t] # None /\ stage[run[t]] = "running" /\ saved[t] = AtRest
  BY Holding DEF RunInv
<1>1. \A u \in Threads : u # t => ThreadAt(u)'
  BY <1>0, Others DEF RunTypeOK
<1>2. pc'[t] = next /\ local'[t] = l
  BY <1>0 DEF RunTypeOK
<1>3. t \notin DefaultThreads
  BY DEF RunInv, ThreadInv, ThreadAt
<1>4. ThreadAt(t)'
  BY <1>0, <1>2, <1>3 DEF ThreadAt
<1> QED
  BY <1>1, <1>4 DEF ThreadInv, RunInv, HeldOnce

\* Entering the counter and the guard puts both on this thread and no other.
LEMMA EnterStep ==
    ASSUME RunInv, NEW t \in PoolThreads, EnterContexts(t)
    PROVE  RunInv'
<1> DEFINE r == run[t]
<1>0. RunTypeOK /\ t \in Threads /\ pc[t] = "setup"
  BY DEF RunInv, Threads, EnterContexts
<1>1. /\ r \in Runs /\ r # None /\ local[t] = Bare(r) /\ saved[t] = AtRest /\ wire[r] = 0
  BY <1>0, Holding DEF Tracking
<1>2. /\ pc' = [pc EXCEPT ![t] = "script"]
      /\ UNCHANGED <<stage, run, call, results, files, path, counted, recorded, storage,
                     wire, reached, caught>>
  BY DEF EnterContexts, jobVars, history
<1>3. saved' = saved
  <2>1. [local[t] EXCEPT !.assigned = saved[t].assigned] = saved[t]
    BY <1>1, Dressed
  <2>2. saved' = [saved EXCEPT ![t] = saved[t]]
    BY <2>1 DEF EnterContexts
  <2> QED
    BY <1>0, <2>2 DEF RunTypeOK
<1>4. local' = [local EXCEPT ![t] = Full(r, 0)]
  <2>1. local[t].assigned = r /\ local[t].guarded = FALSE
    BY <1>1 DEF Bare
  <2>2. (EgressEnabled \/ local[t].guarded) = EgressEnabled
    BY <2>1, ContextAssumption, Zenon
  <2> QED
    BY <2>1, <2>2, Zenon DEF EnterContexts, Full
<1>5. ThreadInv' /\ HeldOnce'
  <2>1. Hangs(t)' = Full(r, 0)
    BY <1>0, <1>1, <1>2 DEF Hangs, Tracking, RunTypeOK
  <2>2. Full(r, 0) \in Locals
    BY <1>1, FullIsLocal
  <2> HIDE DEF r
  <2> QED
    BY <1>0, <1>2, <1>3, <1>4, <2>1, <2>2, WithinRun
<1>6. RunTypeOK'
  <2>1. local' \in [Threads -> Locals]
    BY <1>0, <1>1, <1>4, FullIsLocal DEF RunTypeOK
  <2> QED
    BY <1>0, <1>2, <1>3, <2>1 DEF RunTypeOK
<1>7. JobInv' /\ PathInv'
  BY <1>2 DEF RunInv, JobInv, PathInv, Key
<1> QED
  BY <1>2, <1>5, <1>6, <1>7 DEF RunInv, GuardedRunsStayOutside, AgentTrafficUnguarded

\* A step that only moves a thread within the same contexts.
LEMMA MoveStep ==
    ASSUME RunInv, NEW t \in Threads, pc[t] \notin Free, NEW next,
           pc' = [pc EXCEPT ![t] = next],
           \/ next = "raised" /\ pc[t] \notin Tracking
           \/ next \in Tracking /\ pc[t] \in Tracking,
           UNCHANGED <<run, local, saved, stage, counted, recorded, wire>>
    PROVE  pc' \in [Threads -> {"idle", "setup", "script", "resolved", "connected",
                                "storing", "raised", "reach"}]
           /\ ThreadInv' /\ HeldOnce'
<1>0. RunTypeOK /\ next \in {"setup", "script", "resolved", "connected", "storing", "raised"}
  BY DEF RunInv, Tracking
<1>1. local[t] = Hangs(t) /\ local[t] \in Locals
  BY <1>0 DEF RunInv, ThreadInv, ThreadAt, RunTypeOK
<1>2. Hangs(t)' = Hangs(t)
  BY <1>0 DEF Hangs, Tracking, RunTypeOK
<1>3. local' = [local EXCEPT ![t] = local[t]]
  BY <1>0 DEF RunTypeOK
<1>4. next # "setup" /\ next # "storing"
  BY DEF Tracking
<1>5. ThreadInv' /\ HeldOnce'
  BY <1>0, <1>1, <1>2, <1>3, <1>4, WithinRun
<1> QED
  BY <1>0, <1>5 DEF RunTypeOK

\* A failure before the contexts or in the uploads leaves no context behind.
LEMMA RaiseStep ==
    ASSUME RunInv, NEW t \in PoolThreads, SetupRaises(t) \/ UploadRaises(t)
    PROVE  RunInv'
<1>1. /\ RunTypeOK /\ t \in Threads /\ pc[t] \in {"setup", "storing"}
      /\ pc' = [pc EXCEPT ![t] = "raised"]
      /\ UNCHANGED <<run, call, results, local, saved, stage, files, path, counted,
                     recorded, storage, wire, reached, caught>>
  BY DEF RunInv, Threads, SetupRaises, UploadRaises, jobVars, history
<1>2. RunTypeOK' /\ ThreadInv' /\ HeldOnce'
  BY <1>1, MoveStep DEF RunTypeOK, Tracking
<1>3. JobInv' /\ PathInv'
  BY <1>1 DEF RunInv, JobInv, PathInv, Key
<1> QED
  BY <1>1, <1>2, <1>3 DEF RunInv, GuardedRunsStayOutside, AgentTrafficUnguarded

\* Leaving the contexts puts back what was saved and fixes the bytes counted.
LEMMA LeaveStep ==
    ASSUME RunInv, NEW t \in PoolThreads, NEW next \in {"storing", "raised"},
           LeaveContexts(t, next)
    PROVE  RunInv'
<1> DEFINE r == run[t]
<1>0. RunTypeOK /\ t \in Threads /\ pc[t] = "script"
  BY DEF RunInv, Threads, LeaveContexts
<1>1. /\ r \in Runs /\ r # None /\ stage[r] = "running"
      /\ local[t] = Full(r, wire[r]) /\ saved[t] = AtRest
  BY <1>0, Holding DEF Tracking
<1>2. /\ pc' = [pc EXCEPT ![t] = next]
      /\ counted' = IF next = "storing" THEN [counted EXCEPT ![r] = wire[r]] ELSE counted
      /\ UNCHANGED <<stage, run, call, results, saved, files, path, recorded, storage,
                     wire, reached, caught>>
  BY <1>1 DEF LeaveContexts, history, Full
<1>3. local' = [local EXCEPT ![t] = Bare(r)]
  <2>1. local[t].assigned = r
    BY <1>1 DEF Full
  <2>2. Restored(t, next) = Bare(r)
    BY <1>1, <2>1, Dressed DEF Restored
  <2> QED
    BY <2>2 DEF LeaveContexts
<1> HIDE DEF r
<1>4. ThreadInv' /\ HeldOnce'
  <2>1. Hangs(t)' = Bare(r)
    BY <1>0, <1>2 DEF Hangs, Tracking, RunTypeOK, r
  <2>2. Bare(r) \in Locals
    BY <1>1, BareIsLocal
  <2>3. /\ \A q \in Runs : q # r => counted'[q] = counted[q]
        /\ next = "storing" => counted'[r] = wire[r]
    BY <1>0, <1>1, <1>2 DEF RunTypeOK
  <2> QED
    BY <1>0, <1>2, <1>3, <2>1, <2>2, <2>3, WithinRun DEF r
<1>5. RunTypeOK'
  <2>1. local' \in [Threads -> Locals]
    BY <1>0, <1>1, <1>3, BareIsLocal DEF RunTypeOK
  <2>2. wire[r] \in Nat
    BY <1>0, <1>1 DEF RunTypeOK
  <2>3. counted' \in [Runs -> Nat]
    BY <1>0, <1>1, <1>2, <2>2 DEF RunTypeOK
  <2> QED
    BY <1>0, <1>2, <2>1, <2>3 DEF RunTypeOK
<1>6. JobInv'
  BY <1>0, <1>1, <1>2 DEF RunInv, JobInv, RunTypeOK
<1>7. PathInv'
  BY <1>2 DEF RunInv, PathInv, Key
<1> QED
  BY <1>2, <1>4, <1>5, <1>6, <1>7 DEF RunInv, GuardedRunsStayOutside, AgentTrafficUnguarded

---------------------------------------------------------------------------------
(* The script's calls. *)

\* An address the guard lets through is public.
LEMMA NotBlocked ==
    ASSUME NEW a, ~ip_is_blocked(a)
    PROVE  a.range = "public"
  BY DEF ip_is_blocked

\* A resolution keeps the thread in its script and its results among the addresses.
LEMMA ResolveMoves ==
    ASSUME RunInv, NEW t \in Threads, NEW host \in Hosts, Resolve(t, host)
    PROVE  /\ \E next \in Tracking : pc' = [pc EXCEPT ![t] = next]
           /\ results' \in [Threads -> SUBSET Addresses]
<1>1. host.results \in SUBSET Addresses /\ results \in [Threads -> SUBSET Addresses]
  BY ContextAssumption DEF RunInv, RunTypeOK
<1> QED
  BY <1>1 DEF Resolve, Tracking

\* Starting a call touches the call counter and the resolver's results only.
LEMMA CallStep ==
    ASSUME RunInv, NEW t \in PoolThreads, NEW host \in Hosts, Call(t, host)
    PROVE  RunInv'
<1>0. RunTypeOK /\ t \in Threads /\ pc[t] = "script"
  BY DEF RunInv, Threads, Call
<1>1. /\ call[t] < CallsOf[run[t]] /\ call' = [call EXCEPT ![t] = call[t] + 1]
      /\ UNCHANGED <<run, local, saved, stage, files, path, counted, recorded,
                     storage, wire, reached, caught>>
  BY <1>0 DEF Call, jobVars, history, RunTypeOK
<1>2. PICK next \in Tracking : pc' = [pc EXCEPT ![t] = next]
  BY <1>0, ResolveMoves DEF Call
<1>3. results' \in [Threads -> SUBSET Addresses]
  BY <1>0, ResolveMoves DEF Call
<1>4. call' \in [Threads -> 0 .. MaxCalls]
  <2>1. CallsOf[run[t]] \in 0 .. MaxCalls /\ call[t] \in 0 .. MaxCalls
    <3>1. run[t] \in Runs
      BY <1>0, Holding
    <3>2. CallsOf[run[t]] \in 0 .. MaxCalls
      BY <3>1, ContextAssumption
    <3>3. call[t] \in 0 .. MaxCalls
      BY <1>0 DEF RunTypeOK
    <3> QED
      BY <3>2, <3>3
  <2>2. call[t] + 1 \in 0 .. MaxCalls
    BY <1>1, <2>1, ContextAssumption
  <2> QED
    BY <1>0, <1>1, <2>2 DEF RunTypeOK
<1>5. RunTypeOK' /\ ThreadInv' /\ HeldOnce'
  BY <1>0, <1>1, <1>2, <1>3, <1>4, MoveStep DEF RunTypeOK, Tracking
<1>6. JobInv' /\ PathInv'
  BY <1>1 DEF RunInv, JobInv, PathInv, Key
<1> QED
  BY <1>1, <1>5, <1>6 DEF RunInv, GuardedRunsStayOutside, AgentTrafficUnguarded

\* Connecting reaches one address that the guard let through.
LEMMA ConnectStep ==
    ASSUME RunInv, NEW t \in PoolThreads, NEW a \in Addresses, Connect(t, a)
    PROVE  RunInv'
<1>0. RunTypeOK /\ t \in Threads /\ pc[t] = "resolved"
  BY DEF RunInv, Threads, Connect
<1>1. run[t] \in Runs /\ local[t] = Full(run[t], wire[run[t]])
  BY <1>0, Holding DEF Tracking
<1>2. /\ pc' = [pc EXCEPT ![t] = "connected"] /\ results' = [results EXCEPT ![t] = {}]
      /\ reached' = reached \cup {a}
      /\ UNCHANGED <<run, call, local, saved, stage, files, path, counted, recorded,
                     storage, wire, caught>>
  BY DEF Connect, jobVars
<1>3. EgressEnabled => a.range = "public"
  <2>1. local[t].guarded = EgressEnabled
    BY <1>1 DEF Full
  <2> QED
    BY <2>1, NotBlocked DEF Connect, ConnectBlocked
<1>4. RunTypeOK' /\ ThreadInv' /\ HeldOnce'
  <2>1. reached' \subseteq Addresses /\ results' \in [Threads -> SUBSET Addresses]
    BY <1>0, <1>1, <1>2 DEF RunTypeOK
  <2>2. /\ pc' \in [Threads -> {"idle", "setup", "script", "resolved", "connected",
                                "storing", "raised", "reach"}]
        /\ ThreadInv' /\ HeldOnce'
    BY <1>0, <1>2, MoveStep DEF Tracking
  <2> QED
    BY <1>0, <1>2, <2>1, <2>2 DEF RunTypeOK
<1>5. GuardedRunsStayOutside'
  BY <1>2, <1>3 DEF RunInv, GuardedRunsStayOutside
<1>6. JobInv' /\ PathInv'
  BY <1>2 DEF RunInv, JobInv, PathInv, Key
<1> QED
  BY <1>2, <1>4, <1>5, <1>6 DEF RunInv, AgentTrafficUnguarded

\* A failed connection returns to the script with nothing counted.
LEMMA ConnectFailsStep ==
    ASSUME RunInv, NEW t \in PoolThreads, ConnectFails(t)
    PROVE  RunInv'
<1>0. RunTypeOK /\ t \in Threads /\ pc[t] = "resolved"
  BY DEF RunInv, Threads, ConnectFails
<1>1. /\ pc' = [pc EXCEPT ![t] = "script"] /\ results' = [results EXCEPT ![t] = {}]
      /\ UNCHANGED <<run, call, local, saved, stage, files, path, counted, recorded,
                     storage, wire, reached, caught>>
  BY DEF ConnectFails, jobVars, history
<1>2. RunTypeOK' /\ ThreadInv' /\ HeldOnce'
  BY <1>0, <1>1, MoveStep DEF RunTypeOK, Tracking
<1>3. JobInv' /\ PathInv'
  BY <1>1 DEF RunInv, JobInv, PathInv, Key
<1> QED
  BY <1>1, <1>2, <1>3 DEF RunInv, GuardedRunsStayOutside, AgentTrafficUnguarded

\* What an exchange inside the contexts adds: one byte to the thread's counter,
\* one to the record.
LEMMA Counted ==
    ASSUME RunInv, NEW t \in Threads, pc[t] \in Tracking, CountBytes(t)
    PROVE  /\ local' = [local EXCEPT ![t] = Full(run[t], wire[run[t]] + 1)]
           /\ recorded' = [recorded EXCEPT ![run[t]] = wire[run[t]] + 1]
<1> DEFINE r == run[t]  n == wire[r]
<1>0. RunTypeOK /\ r \in Runs /\ r # None /\ local[t] = Full(r, n) /\ n \in Nat /\ recorded[r] = n
  BY Holding DEF RunInv, RunTypeOK, JobInv, Tracking
<1> HIDE DEF r, n
<1>1. local[t].counting = TRUE /\ local[t].tracked = r /\ local[t].bytes = n
  BY <1>0 DEF Full
<1>2. [local[t] EXCEPT !.bytes = n + 1] = Full(r, n + 1)
  <2>1. Full(r, n) \in Locals /\ Full(r, n + 1) \in Locals
    BY <1>0, FullIsLocal
  <2>2. /\ Full(r, n).assigned = Full(r, n + 1).assigned
        /\ Full(r, n).counting = Full(r, n + 1).counting
        /\ Full(r, n).guarded = Full(r, n + 1).guarded
        /\ Full(r, n).tracked = Full(r, n + 1).tracked
        /\ Full(r, n + 1).bytes = n + 1
    BY DEF Full
  <2> QED
    BY <1>0, <2>1, <2>2 DEF Locals
<1>3. local' = [local EXCEPT ![t] = [local[t] EXCEPT !.bytes = local[t].bytes + 1]]
  BY <1>0, <1>1 DEF CountBytes, RunTypeOK
<1>4. recorded' = [recorded EXCEPT ![r] = recorded[r] + 1]
  BY <1>0, <1>1 DEF CountBytes, RunTypeOK
<1>5. local' = [local EXCEPT ![t] = Full(r, n + 1)] /\ recorded' = [recorded EXCEPT ![r] = n + 1]
  BY <1>0, <1>1, <1>2, <1>3, <1>4
<1> QED
  BY <1>5 DEF r, n

\* The invariant over an exchange, whatever becomes of the response.
LEMMA ExchangeStep ==
    ASSUME RunInv, NEW t \in PoolThreads, pc[t] = "connected",
           NEW next \in Tracking, pc' = [pc EXCEPT ![t] = next],
           CountBytes(t), wire' = [wire EXCEPT ![run[t]] = wire[run[t]] + 1],
           UNCHANGED <<run, saved, stage, counted>>,
           files' = files \/ (\E F : files' = [files EXCEPT ![run[t]] = F])
    PROVE  /\ local' \in [Threads -> Locals]
           /\ recorded' \in [Runs -> Nat] /\ wire' \in [Runs -> Nat]
           /\ pc' \in [Threads -> {"idle", "setup", "script", "resolved", "connected",
                                   "storing", "raised", "reach"}]
           /\ ThreadInv' /\ HeldOnce' /\ JobInv'
<1> DEFINE r == run[t]  n == wire[r]
<1>0. /\ RunTypeOK /\ t \in Threads /\ t \notin DefaultThreads
      /\ r \in Runs /\ r # None /\ stage[r] = "running" /\ saved[t] = AtRest
  BY Holding, ContextAssumption DEF RunInv, Threads
<1>1. n \in Nat /\ n + 1 \in Nat
  BY <1>0 DEF RunTypeOK
<1>2. /\ local' = [local EXCEPT ![t] = Full(r, n + 1)]
      /\ recorded' = [recorded EXCEPT ![r] = n + 1]
      /\ wire' = [wire EXCEPT ![r] = n + 1]
  BY <1>0, Counted DEF Tracking, RunTypeOK
<1>3. Full(r, n + 1) \in Locals
  BY <1>0, <1>1, FullIsLocal
<1> HIDE DEF r, n
<1>4. /\ local' \in [Threads -> Locals]
      /\ recorded' \in [Runs -> Nat] /\ wire' \in [Runs -> Nat]
  <2>1. local \in [Threads -> Locals] /\ recorded \in [Runs -> Nat] /\ wire \in [Runs -> Nat]
    BY <1>0 DEF RunTypeOK
  <2>2. local' \in [Threads -> Locals]
    BY <1>2, <1>3, <2>1
  <2>3. recorded' \in [Runs -> Nat]
    BY <1>1, <1>2, <2>1
  <2>4. wire' \in [Runs -> Nat]
    BY <1>1, <1>2, <2>1
  <2> QED
    BY <2>2, <2>3, <2>4
<1>5. pc' \in [Threads -> {"idle", "setup", "script", "resolved", "connected",
                           "storing", "raised", "reach"}]
  BY <1>0 DEF RunTypeOK, Tracking
<1>6. ThreadInv'
  <2>1. \A u \in Threads : u # t => ThreadAt(u)'
    BY <1>0, <1>2, Others DEF RunTypeOK, r
  <2>2. /\ pc'[t] = next /\ run'[t] = r /\ stage'[r] = "running" /\ wire'[r] = n + 1
        /\ saved'[t] = AtRest /\ local'[t] = Full(r, n + 1)
    BY <1>0, <1>2 DEF RunTypeOK, r
  <2>3. local'[t] = Hangs(t)'
    BY <2>2 DEF Hangs, Tracking
  <2> QED
    BY <1>0, <2>1, <2>2, <2>3 DEF ThreadInv, ThreadAt, Tracking
<1>7. HeldOnce'
  BY DEF RunInv, HeldOnce
<1>8. JobInv'
  <2>1. \A q \in Runs : q # r => recorded'[q] = recorded[q] /\ wire'[q] = wire[q] /\ files'[q] = files[q]
    BY <1>0, <1>2 DEF RunTypeOK, r
  <2>2. recorded'[r] = wire'[r]
    BY <1>0, <1>2 DEF RunTypeOK
  <2> QED
    BY <1>0, <2>1, <2>2 DEF RunInv, JobInv
<1> QED
  BY <1>4, <1>5, <1>6, <1>7, <1>8

\* A response counts on its own run and leaves its body, if any, there.
LEMMA RespondStep ==
    ASSUME RunInv, CallInv, NEW t \in PoolThreads, NEW body \in {"none", "kept", "absent"},
           Respond(t, body)
    PROVE  RunInv'
<1> DEFINE r == run[t]  c == call[t]
<1>0. RunTypeOK /\ t \in Threads /\ pc[t] = "connected" /\ c \in Calls
  BY DEF RunInv, CallInv, Threads, Respond
<1>1. r \in Runs /\ stage[r] = "running"
  BY <1>0, Holding
<1>2. /\ pc' = [pc EXCEPT ![t] = "script"] /\ CountBytes(t)
      /\ wire' = [wire EXCEPT ![r] = wire[r] + 1]
      /\ files' = files \/ files' = [files EXCEPT ![r] = files[r] \cup {c}]
      /\ path' = path \/ path' = [path EXCEPT ![r] = [path[r] EXCEPT ![c] = LocalPath]]
      /\ UNCHANGED <<run, call, results, saved, stage, counted, storage,
                     reached, caught>>
  BY <1>0, <1>1 DEF Respond, RunTypeOK
<1>3. /\ local' \in [Threads -> Locals]
      /\ recorded' \in [Runs -> Nat] /\ wire' \in [Runs -> Nat]
      /\ pc' \in [Threads -> {"idle", "setup", "script", "resolved", "connected",
                              "storing", "raised", "reach"}]
      /\ ThreadInv' /\ HeldOnce' /\ JobInv'
  <2>1. "script" \in Tracking
    BY DEF Tracking
  <2>2. files' = files \/ (\E F : files' = [files EXCEPT ![run[t]] = F])
    BY <1>2
  <2>3. /\ pc[t] = "connected" /\ pc' = [pc EXCEPT ![t] = "script"] /\ CountBytes(t)
        /\ wire' = [wire EXCEPT ![run[t]] = wire[run[t]] + 1]
        /\ UNCHANGED <<run, saved, stage, counted>>
    BY <1>0, <1>2
  <2> QED
    BY <2>1, <2>2, <2>3, ExchangeStep
<1> HIDE DEF r, c
<1>4. files' \in [Runs -> SUBSET Calls]
  <2>1. files \in [Runs -> SUBSET Calls]
    BY <1>0 DEF RunTypeOK
  <2>2. files[r] \cup {c} \in SUBSET Calls
    BY <1>0, <1>1, <2>1
  <2> QED
    BY <1>2, <2>1, <2>2
<1>5. path' \in [Runs -> [Calls -> Keys \cup {NoPath, LocalPath}]]
  <2>1. path \in [Runs -> [Calls -> Keys \cup {NoPath, LocalPath}]]
    BY <1>0 DEF RunTypeOK
  <2>2. [path[r] EXCEPT ![c] = LocalPath] \in [Calls -> Keys \cup {NoPath, LocalPath}]
    BY <1>1, <2>1
  <2> QED
    BY <1>2, <2>1, <2>2
<1>6. RunTypeOK'
  BY <1>0, <1>2, <1>3, <1>4, <1>5 DEF RunTypeOK
<1>7. PathInv'
  <2>1. \A q \in Runs, d \in Calls : path'[q][d] \in {path[q][d], LocalPath}
    <3>1. path \in [Runs -> [Calls -> Keys \cup {NoPath, LocalPath}]]
      BY <1>0 DEF RunTypeOK
    <3>2. path' = path \/ path' = [path EXCEPT ![r][c] = LocalPath]
      BY <1>2
    <3>3. CASE path' = path
      BY <3>3
    <3>4. CASE path' = [path EXCEPT ![r][c] = LocalPath]
      BY <3>1, <3>4
    <3> QED
      BY <3>2, <3>3, <3>4
  <2> QED
    BY <1>2, <2>1 DEF RunInv, PathInv, Key
<1> QED
  BY <1>2, <1>3, <1>6, <1>7 DEF RunInv, GuardedRunsStayOutside, AgentTrafficUnguarded

\* A redirect is counted before its target is resolved afresh.
LEMMA RedirectStep ==
    ASSUME RunInv, NEW t \in PoolThreads, NEW host \in Hosts, Redirect(t, host)
    PROVE  RunInv'
<1>0. RunTypeOK /\ t \in Threads /\ pc[t] = "connected"
  BY DEF RunInv, Threads, Redirect
<1>1. /\ CountBytes(t) /\ wire' = [wire EXCEPT ![run[t]] = wire[run[t]] + 1]
      /\ UNCHANGED <<run, call, saved, stage, files, path, counted, storage,
                     reached, caught>>
  BY <1>0, Holding DEF Redirect, RunTypeOK
<1>2. PICK next \in Tracking : pc' = [pc EXCEPT ![t] = next]
  BY <1>0, ResolveMoves DEF Redirect
<1>3. results' \in [Threads -> SUBSET Addresses]
  BY <1>0, ResolveMoves DEF Redirect
<1>4. /\ local' \in [Threads -> Locals]
      /\ recorded' \in [Runs -> Nat] /\ wire' \in [Runs -> Nat]
      /\ pc' \in [Threads -> {"idle", "setup", "script", "resolved", "connected",
                              "storing", "raised", "reach"}]
      /\ ThreadInv' /\ HeldOnce' /\ JobInv'
  BY <1>0, <1>1, <1>2, ExchangeStep
<1>5. RunTypeOK'
  BY <1>0, <1>1, <1>3, <1>4 DEF RunTypeOK
<1>6. PathInv'
  BY <1>1 DEF RunInv, PathInv, Key
<1> QED
  BY <1>1, <1>4, <1>5, <1>6 DEF RunInv, GuardedRunsStayOutside, AgentTrafficUnguarded

---------------------------------------------------------------------------------
(* The agent's own traffic. *)

\* Outside the contexts the hooks neither count nor refuse.
LEMMA Unnoticed ==
    ASSUME RunInv, NEW t \in Threads, pc[t] \notin Tracking \cup {"reach"}
    PROVE  /\ ~local[t].guarded
           /\ CountBytes(t) => UNCHANGED <<local, recorded>>
<1>1. local[t] = AtRest \/ local[t] = Bare(run[t])
  BY DEF RunInv, ThreadInv, ThreadAt, Hangs
<1>2. ~local[t].guarded /\ ~local[t].counting
  BY <1>1 DEF AtRest, Bare
<1> QED
  BY <1>2 DEF CountBytes

\* An upload stores a body of its own run under that run's key.
LEMMA UploadStep ==
    ASSUME RunInv, NEW t \in PoolThreads, NEW c \in Calls, NEW data \in Bodies,
           UploadBody(t, c, data)
    PROVE  RunInv'
<1> DEFINE r == run[t]
           object == [run |-> r, call |-> c,
                      masked |-> WellMasked(data, Secrets[r], redact_body_bytes(data, Secrets[r]))]
<1>0. RunTypeOK /\ t \in Threads /\ pc[t] = "storing"
  BY DEF RunInv, Threads, UploadBody
<1>1. r \in Runs
  BY <1>0, Holding
<1>2. ~local[t].guarded /\ (CountBytes(t) => UNCHANGED <<local, recorded>>)
  BY <1>0, Unnoticed DEF Tracking
<1>3. /\ storage' = [storage EXCEPT ![Key(r, c)] = object]
      /\ path' = [path EXCEPT ![r] = [path[r] EXCEPT ![c] = Key(r, c)]]
      /\ UNCHANGED <<pc, run, call, results, local, saved, stage, files, counted,
                     recorded, wire, reached, caught>>
  BY <1>0, <1>1, <1>2 DEF UploadBody, RunTypeOK
<1>4. object \in Objects /\ object.run = r /\ object.call = c
  <2>1. WellMasked(data, Secrets[r], redact_body_bytes(data, Secrets[r])) \in BOOLEAN
    BY DEF WellMasked
  <2>2. c \in 0 .. MaxCalls
    BY ContextAssumption DEF Calls
  <2> QED
    BY <1>1, <2>1, <2>2 DEF Objects
<1>5. Key(r, c) \in Keys
  BY <1>1 DEF Key, Keys
<1> HIDE DEF r, object
<1>6. RunTypeOK'
  <2>1. storage' \in [Keys -> Objects]
    BY <1>0, <1>3, <1>4, <1>5 DEF RunTypeOK
  <2>2. path' \in [Runs -> [Calls -> Keys \cup {NoPath, LocalPath}]]
    BY <1>0, <1>1, <1>3, <1>5 DEF RunTypeOK
  <2> QED
    BY <1>0, <1>3, <2>1, <2>2 DEF RunTypeOK
<1>7. ThreadInv' /\ HeldOnce' /\ JobInv'
  BY <1>3 DEF RunInv, ThreadInv, ThreadAt, Hangs, HeldOnce, JobInv
<1>8. PathInv'
  <2> SUFFICES ASSUME NEW q \in Runs, NEW d \in Calls, path'[q][d] \notin {NoPath, LocalPath}
               PROVE  /\ path'[q][d] = Key(q, d)
                      /\ storage'[Key(q, d)].run = q /\ storage'[Key(q, d)].call = d
    BY DEF PathInv, Key
  <2>1. CASE q = r /\ d = c
    BY <1>0, <1>1, <1>3, <1>4, <1>5, <2>1 DEF RunTypeOK
  <2>2. CASE ~(q = r /\ d = c)
    <3>1. path'[q][d] = path[q][d]
      BY <1>0, <1>1, <1>3, <2>2 DEF RunTypeOK
    <3>2. Key(q, d) # Key(r, c) /\ Key(q, d) \in Keys
      BY <2>2 DEF Key, Keys
    <3>3. storage'[Key(q, d)] = storage[Key(q, d)]
      BY <1>0, <1>3, <3>2 DEF RunTypeOK
    <3> QED
      BY <3>1, <3>3 DEF RunInv, PathInv
  <2> QED
    BY <2>1, <2>2
<1> QED
  BY <1>3, <1>6, <1>7, <1>8 DEF RunInv, GuardedRunsStayOutside, AgentTrafficUnguarded

\* The health challenge runs on a thread that counts and guards nothing.
LEMMA HealthStep ==
    ASSUME RunInv, NEW t \in DefaultThreads, HealthChallenge(t)
    PROVE  RunInv'
<1>0. RunTypeOK /\ t \in Threads /\ pc[t] = "idle"
  BY DEF RunInv, Threads, HealthChallenge
<1>1. ~local[t].guarded /\ (CountBytes(t) => UNCHANGED <<local, recorded>>)
  BY <1>0, Unnoticed DEF Tracking
<1>2. UNCHANGED <<pc, run, call, results, local, saved, stage, files, path, counted,
                  recorded, storage, wire, reached, caught>>
  BY <1>1 DEF HealthChallenge
<1>3. RunTypeOK'
  BY <1>0, <1>2 DEF RunTypeOK
<1>4. ThreadInv' /\ HeldOnce' /\ JobInv' /\ PathInv'
  BY <1>2 DEF RunInv, ThreadInv, ThreadAt, Hangs, HeldOnce, JobInv, PathInv, Key
<1> QED
  BY <1>2, <1>3, <1>4 DEF RunInv, GuardedRunsStayOutside, AgentTrafficUnguarded

\* A witness's thread dons the guard's flag and doffs it again.
LEMMA Flagged ==
    /\ Witnessing \in Locals
    /\ [AtRest EXCEPT !.guarded = AtRest.guarded] = AtRest
    /\ [AtRest EXCEPT !.guarded = EgressEnabled \/ AtRest.guarded] = Witnessing
    /\ [Witnessing EXCEPT !.guarded = AtRest.guarded] = AtRest
<1>1. EgressEnabled \/ AtRest.guarded <=> EgressEnabled
  BY Zenon DEF AtRest
<1>2. (EgressEnabled \/ AtRest.guarded) = EgressEnabled
  BY <1>1, ContextAssumption
<1>3. ASSUME NEW x \in Locals, NEW y \in Locals,
             x.assigned = y.assigned, x.counting = y.counting, x.bytes = y.bytes,
             x.tracked = y.tracked
      PROVE  [x EXCEPT !.guarded = y.guarded] = y
  BY <1>3 DEF Locals
<1>4. Witnessing \in Locals
  BY ContextAssumption DEF Witnessing, Locals
<1>5. /\ Witnessing.assigned = AtRest.assigned /\ Witnessing.counting = AtRest.counting
      /\ Witnessing.bytes = AtRest.bytes /\ Witnessing.tracked = AtRest.tracked
      /\ Witnessing.guarded = EgressEnabled
  BY DEF Witnessing, AtRest
<1> QED
  BY <1>2, <1>3, <1>4, <1>5, AtRestIsLocal

\* The begin and the end of a witness's connection.
LEMMA ReachStep ==
    ASSUME RunInv, NEW t \in DefaultThreads, BeginReach(t) \/ EndReach(t)
    PROVE  RunInv'
<1>0. RunTypeOK /\ t \in Threads /\ ThreadAt(t)
  BY DEF RunInv, Threads, ThreadInv
<1>1. UNCHANGED <<run, call, results, stage, files, path, counted, recorded, storage,
                  wire, reached, caught>>
  BY DEF BeginReach, EndReach, jobVars, history
<1>2. PICK next \in Free :
          /\ pc' = [pc EXCEPT ![t] = next] /\ saved' = [saved EXCEPT ![t] = AtRest]
          /\ local' = [local EXCEPT ![t] = IF next = "idle" THEN AtRest ELSE Witnessing]
  <2>1. CASE BeginReach(t)
    <3>1. local[t] = AtRest /\ saved[t] = AtRest
      BY <1>0, <2>1 DEF BeginReach, ThreadAt, Hangs
    <3>2. /\ pc' = [pc EXCEPT ![t] = "reach"] /\ saved' = [saved EXCEPT ![t] = AtRest]
          /\ local' = [local EXCEPT ![t] = Witnessing]
      BY <1>0, <2>1, <3>1, Flagged DEF BeginReach, RunTypeOK
    <3> QED
      BY <3>2
  <2>2. CASE EndReach(t)
    <3>1. local[t] = Witnessing /\ saved[t] = AtRest
      BY <1>0, <2>2 DEF EndReach, ThreadAt, Hangs
    <3>2. /\ pc' = [pc EXCEPT ![t] = "idle"] /\ saved' = saved
          /\ local' = [local EXCEPT ![t] = AtRest]
      BY <1>0, <2>2, <3>1, Flagged DEF EndReach, RunTypeOK
    <3>3. saved' = [saved EXCEPT ![t] = AtRest]
      BY <1>0, <3>1, <3>2 DEF RunTypeOK
    <3> QED
      BY <3>2, <3>3
  <2> QED
    BY <2>1, <2>2
<1>3. run[t] = None
  <2>1. pc[t] \in Free
    BY DEF BeginReach, EndReach
  <2> QED
    BY <1>0, <2>1 DEF ThreadAt
<1>4. RunTypeOK'
  <2>1. local' \in [Threads -> Locals] /\ saved' \in [Threads -> Locals]
    BY <1>0, <1>2, AtRestIsLocal, Flagged DEF RunTypeOK
  <2> QED
    BY <1>0, <1>1, <1>2, <2>1 DEF RunTypeOK
<1>5. ThreadInv'
  <2>1. ASSUME NEW u \in Threads, u # t PROVE ThreadAt(u)'
    BY <1>0, <1>1, <1>2, <2>1 DEF RunInv, ThreadInv, ThreadAt, Hangs, RunTypeOK
  <2>2. ThreadAt(t)'
    BY <1>0, <1>1, <1>2, <1>3 DEF ThreadAt, Hangs, RunTypeOK
  <2> QED
    BY <2>1, <2>2 DEF ThreadInv
<1>6. HeldOnce' /\ JobInv' /\ PathInv'
  BY <1>1 DEF RunInv, HeldOnce, JobInv, PathInv, Key
<1> QED
  BY <1>1, <1>4, <1>5, <1>6 DEF RunInv, GuardedRunsStayOutside, AgentTrafficUnguarded

\* The witness's own attempt runs under the guard and outside every counter.
LEMMA ReachConnectsStep ==
    ASSUME RunInv, NEW t \in DefaultThreads, NEW host \in Hosts, NEW a \in Addresses,
           ReachConnects(t, host, a)
    PROVE  RunInv'
<1>0. RunTypeOK /\ t \in Threads /\ pc[t] = "reach"
  BY DEF RunInv, Threads, ReachConnects
<1>1. local[t].guarded = EgressEnabled
  BY <1>0 DEF RunInv, ThreadInv, ThreadAt, Hangs, Witnessing
<1>2. /\ reached' = reached \cup {a}
      /\ UNCHANGED <<pc, run, call, results, local, saved, stage, files, path, counted,
                     recorded, storage, wire, caught>>
  BY DEF ReachConnects, threadVars, jobVars
<1>3. EgressEnabled => a.range = "public"
  BY <1>1, NotBlocked DEF ReachConnects, ConnectBlocked
<1>4. RunTypeOK' /\ GuardedRunsStayOutside'
  BY <1>0, <1>2, <1>3 DEF RunInv, RunTypeOK, GuardedRunsStayOutside
<1>5. ThreadInv' /\ HeldOnce' /\ JobInv' /\ PathInv'
  BY <1>2 DEF RunInv, ThreadInv, ThreadAt, Hangs, HeldOnce, JobInv, PathInv, Key
<1> QED
  BY <1>2, <1>4, <1>5 DEF RunInv, AgentTrafficUnguarded

---------------------------------------------------------------------------------
(* Together. *)

\* A thread with a connection in hand is always within a numbered call.
LEMMA CallKept ==
    ASSUME RunInv, CallInv, [RunNext]_runVars
    PROVE  CallInv'
<1>0. RunTypeOK
  BY DEF RunInv
<1>1. ASSUME UNCHANGED <<pc, call>> PROVE CallInv'
  BY <1>1 DEF CallInv
<1>2. ASSUME NEW t \in Threads, NEW next, next \notin {"resolved", "connected"},
             pc' = [pc EXCEPT ![t] = next],
             call' = call \/ call' = [call EXCEPT ![t] = 0]
      PROVE  CallInv'
  BY <1>0, <1>2 DEF RunTypeOK, CallInv
<1>3. ASSUME NEW t \in Threads, call[t] \in Calls, call' = call, NEW next,
             pc' = [pc EXCEPT ![t] = next]
      PROVE  CallInv'
  BY <1>0, <1>3 DEF RunTypeOK, CallInv
<1>4. ASSUME NEW t \in PoolThreads, NEW host \in Hosts, Call(t, host) PROVE CallInv'
  <2>1. /\ t \in Threads /\ pc[t] = "script" /\ call[t] < CallsOf[run[t]]
        /\ call' = [call EXCEPT ![t] = call[t] + 1]
    BY <1>0, <1>4 DEF Call, Threads, RunTypeOK
  <2>2. CallsOf[run[t]] \in 0 .. MaxCalls /\ call[t] \in 0 .. MaxCalls
    <3>1. run[t] \in Runs
      BY <1>0, <2>1, Holding
    <3>2. CallsOf[run[t]] \in 0 .. MaxCalls
      BY <3>1, ContextAssumption
    <3>3. call[t] \in 0 .. MaxCalls
      BY <1>0, <2>1 DEF RunTypeOK
    <3> QED
      BY <3>2, <3>3
  <2>3. call[t] + 1 \in Calls
    BY <2>1, <2>2, ContextAssumption DEF Calls
  <2>4. PICK next \in Tracking : pc' = [pc EXCEPT ![t] = next]
    BY <1>4, <2>1, ResolveMoves DEF Call
  <2> QED
    BY <1>0, <2>1, <2>3, <2>4 DEF RunTypeOK, CallInv
<1>5. ASSUME NEW t \in PoolThreads, PoolStep(t) PROVE CallInv'
  <2>0. t \in Threads
    BY DEF Threads
  <2>1. CASE EndRun(t)
    BY <2>0, <2>1, <1>2 DEF EndRun
  <2>2. CASE SetupRaises(t) \/ UploadRaises(t)
    BY <2>0, <2>2, <1>2 DEF SetupRaises, UploadRaises
  <2>3. CASE EnterContexts(t)
    BY <2>0, <2>3, <1>2 DEF EnterContexts
  <2>4. CASE \E next \in {"storing", "raised"} : LeaveContexts(t, next)
    BY <2>0, <2>4, <1>2 DEF LeaveContexts
  <2>5. CASE \E a \in Addresses : Connect(t, a)
    BY <2>0, <2>5, <1>3 DEF Connect, CallInv
  <2>6. CASE ConnectFails(t)
    BY <2>0, <2>6, <1>2 DEF ConnectFails
  <2>7. CASE \E body \in {"none", "kept", "absent"} : Respond(t, body)
    BY <2>0, <2>7, <1>2 DEF Respond
  <2>8. ASSUME NEW host \in Hosts, Redirect(t, host) PROVE CallInv'
    <3>1. PICK next \in Tracking : pc' = [pc EXCEPT ![t] = next]
      BY <2>0, <2>8, ResolveMoves DEF Redirect
    <3>2. call[t] \in Calls /\ call' = call
      BY <2>0, <2>8 DEF Redirect, CallInv
    <3> QED
      BY <2>0, <3>1, <3>2, <1>3
  <2>9. ASSUME NEW c \in Calls, NEW data \in Bodies, UploadBody(t, c, data) PROVE CallInv'
    <3>1. ~local[t].guarded
      BY <2>0, <2>9, Unnoticed DEF UploadBody, Tracking
    <3> QED
      BY <2>9, <3>1, <1>1 DEF UploadBody
  <2> QED
    BY <1>4, <1>5, <2>1, <2>2, <2>3, <2>4, <2>5, <2>6, <2>7, <2>8, <2>9 DEF PoolStep
<1>6. ASSUME NEW t \in PoolThreads, NEW r \in Runs, BeginRun(t, r) PROVE CallInv'
  <2>1. t \in Threads
    BY DEF Threads
  <2> QED
    BY <1>2, <1>6, <2>1 DEF BeginRun
<1>7. ASSUME NEW t \in DefaultThreads, DefaultStep(t) PROVE CallInv'
  <2>1. t \in Threads
    BY DEF Threads
  <2>2. CASE BeginReach(t) \/ EndReach(t)
    BY <1>2, <2>1, <2>2 DEF BeginReach, EndReach
  <2>3. CASE HealthChallenge(t) \/ \E host \in Hosts, a \in Addresses : ReachConnects(t, host, a)
    BY <1>1, <2>3 DEF HealthChallenge, ReachConnects, threadVars
  <2> QED
    BY <1>7, <2>2, <2>3 DEF DefaultStep
<1>8. CASE \E r \in Runs : Submit(r) \/ Refuse(r)
  BY <1>1, <1>8 DEF Submit, Refuse, threadVars
<1>9. CASE UNCHANGED runVars
  BY <1>1, <1>9 DEF runVars, threadVars
<1> QED
  BY <1>5, <1>6, <1>7, <1>8, <1>9 DEF RunNext, ThreadStep

\* The run invariant is inductive: one lemma above per action.
LEMMA RunStep ==
    ASSUME RunInv, CallInv, [RunNext]_runVars
    PROVE  RunInv'
<1>1. ASSUME NEW t \in PoolThreads, PoolStep(t) PROVE RunInv'
  BY <1>1, EndStep, RaiseStep, EnterStep, LeaveStep, CallStep, ConnectStep, ConnectFailsStep,
     RespondStep, RedirectStep, UploadStep DEF PoolStep
<1>2. CASE \E t \in PoolThreads, r \in Runs : BeginRun(t, r)
  BY <1>2, BeginStep
<1>3. ASSUME NEW t \in DefaultThreads, DefaultStep(t) PROVE RunInv'
  BY <1>3, HealthStep, ReachStep, ReachConnectsStep DEF DefaultStep
<1>4. CASE \E r \in Runs : Submit(r) \/ Refuse(r)
  BY <1>4, SubmitStep
<1>5. CASE UNCHANGED runVars
  BY <1>5 DEF runVars, threadVars, jobVars, history, RunInv, RunTypeOK, ThreadInv, ThreadAt,
              Hangs, HeldOnce, JobInv, PathInv, Key, GuardedRunsStayOutside, AgentTrafficUnguarded
<1> QED
  BY <1>1, <1>2, <1>3, <1>4, <1>5 DEF RunNext, ThreadStep

\* Only an upload touches what is stored.
LEMMA OnlyUploadsStore ==
    ASSUME [RunNext]_runVars
    PROVE  \/ UNCHANGED storage
           \/ \E t \in PoolThreads, c \in Calls, data \in Bodies : UploadBody(t, c, data)
<1>1. ASSUME NEW t \in PoolThreads, PoolStep(t),
             ~(\E c \in Calls, data \in Bodies : UploadBody(t, c, data))
      PROVE  UNCHANGED storage
  BY <1>1 DEF PoolStep, EndRun, SetupRaises, EnterContexts, LeaveContexts, Call, Connect,
              ConnectFails, Respond, Redirect, UploadRaises, jobVars
<1>2. ASSUME NEW t \in PoolThreads, NEW r \in Runs, BeginRun(t, r) PROVE UNCHANGED storage
  BY <1>2 DEF BeginRun
<1>3. ASSUME NEW t \in DefaultThreads, DefaultStep(t) PROVE UNCHANGED storage
  BY <1>3 DEF DefaultStep, HealthChallenge, BeginReach, ReachConnects, EndReach
<1>4. ASSUME NEW r \in Runs, Submit(r) \/ Refuse(r) PROVE UNCHANGED storage
  BY <1>4 DEF Submit, Refuse
<1>5. CASE UNCHANGED runVars
  BY <1>5 DEF runVars
<1> QED
  BY <1>1, <1>2, <1>3, <1>4, <1>5 DEF RunNext, ThreadStep

\* What is stored is masked, when it is stored (RedactionCorrect) and afterwards.
LEMMA StoredMasked ==
    ASSUME RunInv, StoredBodiesMasked, [RunNext]_runVars
    PROVE  StoredBodiesMasked'
<1>1. CASE UNCHANGED storage
  BY <1>1 DEF StoredBodiesMasked
<1>2. ASSUME NEW t \in PoolThreads, NEW c \in Calls, NEW data \in Bodies,
             UploadBody(t, c, data)
      PROVE  StoredBodiesMasked'
  <2>1. RunTypeOK /\ t \in Threads /\ pc[t] = "storing"
    BY <1>2 DEF RunInv, Threads, UploadBody
  <2>2. PICK r \in Runs : r = run[t]
    BY <2>1, Holding
  <2>3. ~local[t].guarded
    BY <2>1, Unnoticed DEF Tracking
  <2>4. data \in Seq(Letters) /\ Secrets[r] \in Seq(Seq(Letters))
    BY <2>2, ContextAssumption
  <2>5. WellMasked(data, Secrets[r], redact_body_bytes(data, Secrets[r]))
    BY <2>4, RedactionCorrect
  <2>6. PICK object : object.masked /\ storage' = [storage EXCEPT ![Key(r, c)] = object]
    <3>1. storage' = [storage EXCEPT ![Key(r, c)] =
              [run |-> r, call |-> c,
               masked |-> WellMasked(data, Secrets[r], redact_body_bytes(data, Secrets[r]))]]
      BY <1>2, <2>2, <2>3 DEF UploadBody
    <3> QED
      BY <2>5, <3>1
  <2>7. storage \in [Keys -> Objects]
    BY <2>1 DEF RunTypeOK
  <2>8. ASSUME NEW k \in Keys PROVE storage'[k].masked
    <3>1. storage'[k] = object \/ storage'[k] = storage[k]
      BY <2>6, <2>7
    <3> QED
      BY <2>6, <3>1 DEF StoredBodiesMasked
  <2> QED
    BY <2>8 DEF StoredBodiesMasked
<1> QED
  BY <1>1, <1>2, OnlyUploadsStore

\* What hangs on a thread is always a function of where the thread is in its run:
\* no run inherits a counter, a guard or a record.  And what is stored is masked.
THEOREM Isolated == RunSpec => [](RunInv /\ CallInv /\ StoredBodiesMasked)
<1>1. RunInit => RunInv /\ CallInv /\ StoredBodiesMasked
  <2>1. RunInit => CallInv
    BY DEF RunInit, CallInv
  <2>2. RunInit => StoredBodiesMasked
    BY DEF RunInit, StoredBodiesMasked, NoObject
  <2> QED
    BY <2>1, <2>2, InitHolds
<1>2. (RunInv /\ CallInv /\ StoredBodiesMasked) /\ [RunNext]_runVars
          => (RunInv /\ CallInv /\ StoredBodiesMasked)'
  BY CallKept, RunStep, StoredMasked
<1> QED
  BY <1>1, <1>2, PTL DEF RunSpec

\* The rest of what RunContext claims follows from it.
THEOREM ContextClaims ==
    RunInv => /\ CountsOwnBytes /\ GuardedRunsStayOutside /\ AgentTrafficUnguarded
              /\ PathsLeadToOwnBodies
<1> SUFFICES ASSUME RunInv PROVE /\ CountsOwnBytes /\ GuardedRunsStayOutside
                                 /\ AgentTrafficUnguarded /\ PathsLeadToOwnBodies
  OBVIOUS
<1>1. CountsOwnBytes
  BY DEF RunInv, JobInv, CountsOwnBytes
<1>2. PathsLeadToOwnBodies
  BY DEF RunInv, PathInv, PathsLeadToOwnBodies
<1> QED
  BY <1>1, <1>2 DEF RunInv
=================================================================================
