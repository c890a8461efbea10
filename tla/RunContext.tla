------------------------------- MODULE RunContext -------------------------------
(***************************************************************************)
(* _run_sync (services/executor.py) on the threads of the probe pool, with *)
(* what it hangs on its thread: the record the dispatcher assigned and the *)
(* one being tracked (services/run_progress.py), the byte counter          *)
(* (services/wire_metrics.py) and the egress guard's flag                  *)
(* (services/egress_guard.py).  Threads are reused; the hooks on sockets   *)
(* and on http.client see every connection of the process and go by what   *)
(* is hung on the thread they run on, also for the uploads of the bodies.  *)
(* On the threads of the default pool the witness's connections, under the *)
(* same guard, and the health challenge, under none, take turns.           *)
(*                                                                         *)
(* The Lace executor is external: it resolves, connects, exchanges,        *)
(* follows redirects, keeps bodies, and may raise at any point.  An        *)
(* exchange counts as one byte.                                            *)
(***************************************************************************)
EXTENDS Naturals, FiniteSets, EgressGuard, Redaction

CONSTANTS Runs,             \* the dispatched jobs
          PoolThreads,      \* threads of _probe_pool
          DefaultThreads,   \* threads of asyncio's own pool
          None,             \* no run
          EgressEnabled,    \* _egress_enabled
          Hosts,            \* [name, results]: the names scripts ask for
          Secrets,          \* secretValues of each job, a list
          Bodies,           \* response bodies
          CallsOf,          \* how many calls each job's script makes at most
          MaxCalls,         \* bound on CallsOf
          MaxExchanges      \* bound: exchanges of a script, redirects included

ASSUME ContextAssumption ==
    /\ None \notin Runs
    /\ PoolThreads \cap DefaultThreads = {}
    /\ EgressEnabled \in BOOLEAN
    /\ Hosts \subseteq [name : Names, results : SUBSET Addresses]
    /\ MaxCalls \in Nat /\ MaxExchanges \in Nat
    /\ CallsOf \in [Runs -> 0 .. MaxCalls]
    /\ Secrets \in [Runs -> Seq(Seq(Letters))] /\ Bodies \subseteq Seq(Letters)

VARIABLES
    stage,      \* of a job: "new", "submitted", "running", "ok", "error", "refused"
    pc,         \* of a thread
    run,        \* the job a thread has
    call,       \* calls the thread's script has made
    results,    \* addresses the call under way was given
    local,      \* what hangs on a thread
    saved,      \* what the contexts found when they were entered
    files,      \* body files in the job's temporary directory, by call
    path,       \* bodyPath of each call in the job's result
    counted,    \* ingressBytes + egressBytes of the result
    recorded,   \* bytes in the job's RunProgress
    storage,    \* what the backend holds under each key
    wire,       \* history: bytes the script really exchanged
    reached,    \* history: addresses that scripts and witnesses connected to
    caught      \* history: the agent's own traffic that the guard refused

threadVars == <<pc, run, call, results, local, saved>>
jobVars == <<stage, files, path, counted, recorded>>
history == <<wire, reached, caught>>
runVars == <<threadVars, jobVars, storage, history>>

Threads == PoolThreads \cup DefaultThreads
Calls == 1 .. MaxCalls

\* Without the random prefix: names of body files are those of other runs, too
\* (mutant of Key).
Key_NameOnly(r, c) == <<CHOOSE x \in Runs : TRUE, c>>

\* {run_prefix}/{local.name}.  The prefix is random, so it stands for the run.
Key(r, c) == <<r, c>>
Keys == Runs \X Calls
NoPath == <<>>
LocalPath == <<"local">>

Objects == [run : Runs \cup {None}, call : 0 .. MaxCalls, masked : BOOLEAN]
NoObject == [run |-> None, call |-> 0, masked |-> TRUE]

\* A thread nothing hangs on.
AtRest == [assigned |-> None, counting |-> FALSE, bytes |-> 0,
           guarded |-> FALSE, tracked |-> None]

RunInit ==
    /\ stage = [r \in Runs |-> "new"]
    /\ pc = [t \in Threads |-> "idle"]
    /\ run = [t \in Threads |-> None]
    /\ call = [t \in Threads |-> 0]
    /\ results = [t \in Threads |-> {}]
    /\ local = [t \in Threads |-> AtRest]
    /\ saved = [t \in Threads |-> AtRest]
    /\ files = [r \in Runs |-> {}]
    /\ path = [r \in Runs |-> [c \in Calls |-> NoPath]]
    /\ counted = [r \in Runs |-> 0]
    /\ recorded = [r \in Runs |-> 0]
    /\ storage = [k \in Keys |-> NoObject]
    /\ wire = [r \in Runs |-> 0]
    /\ reached = {}
    /\ caught = {}

---------------------------------------------------------------------------------
(* Around the run: execute_probe, and the ends of _run_sync. *)

Submit(r) ==
    /\ stage[r] = "new"
    /\ stage' = [stage EXCEPT ![r] = "submitted"]
    /\ UNCHANGED <<threadVars, files, path, counted, recorded, storage,
                   history>>

\* A job still queued when its budget ran out: the refusal of DispatchContract.
Refuse(r) ==
    /\ stage[r] = "submitted"
    /\ stage' = [stage EXCEPT ![r] = "refused"]
    /\ UNCHANGED <<threadVars, files, path, counted, recorded, storage,
                   history>>

\* A pool thread takes the job: assign(progress), mkdtemp.
BeginRun(t, r) ==
    /\ pc[t] = "idle" /\ stage[r] = "submitted"
    /\ stage' = [stage EXCEPT ![r] = "running"]
    /\ pc' = [pc EXCEPT ![t] = "setup"]
    /\ run' = [run EXCEPT ![t] = r]
    /\ saved' = [saved EXCEPT ![t].assigned = local[t].assigned]
    /\ local' = [local EXCEPT ![t].assigned = r]
    /\ UNCHANGED <<call, results, files, path, counted, recorded, storage, history>>

\* The finally of _run_sync: rmtree(ignore_errors=True), which goes on past what it
\* cannot remove and says nothing of it.
Rmtree(t) == \E left \in SUBSET files[run[t]] : files' = [files EXCEPT ![run[t]] = left]

\* Bodies still to be uploaded; a path without a file is passed over.
Pending(r) == {c \in files[r] : path[r][c] = LocalPath}

EndRun(t) ==
    /\ pc[t] = "raised" \/ (pc[t] = "storing" /\ Pending(run[t]) = {})
    /\ stage' = [stage EXCEPT ![run[t]] = IF pc[t] = "raised" THEN "error" ELSE "ok"]
    /\ pc' = [pc EXCEPT ![t] = "idle"]
    /\ run' = [run EXCEPT ![t] = None]
    /\ call' = [call EXCEPT ![t] = 0]
    /\ local' = [local EXCEPT ![t].assigned = saved[t].assigned]
    /\ Rmtree(t)
    /\ UNCHANGED <<results, saved, path, counted, recorded, storage, history>>

---------------------------------------------------------------------------------
(* measure(), active() and track() around executor.run. *)

EnterContexts(t) ==
    /\ pc[t] = "setup"
    /\ pc' = [pc EXCEPT ![t] = "script"]
    /\ saved' = [saved EXCEPT ![t] = [local[t] EXCEPT !.assigned = saved[t].assigned]]
    /\ local' = [local EXCEPT ![t] = [assigned |-> local[t].assigned,
                                      counting |-> TRUE, bytes |-> 0,
                                      guarded  |-> EgressEnabled \/ local[t].guarded,
                                      tracked  |-> local[t].assigned]]
    /\ UNCHANGED <<run, call, results, jobVars, storage, history>>

\* LaceExecutor cannot be built.
SetupRaises(t) ==
    /\ pc[t] = "setup"
    /\ pc' = [pc EXCEPT ![t] = "raised"]
    /\ UNCHANGED <<run, call, results, local, saved, jobVars, storage, history>>

\* The guard's flag outside a finally (mutant of Restored).
Restored_GuardLeftOn(t, next) ==
    [saved[t] EXCEPT !.assigned = local[t].assigned,
                     !.guarded = IF next = "raised" THEN local[t].guarded ELSE @]

\* What the three finally clauses leave on the thread.
Restored(t, next) == [saved[t] EXCEPT !.assigned = local[t].assigned]

\* The script returns, or raises.  Only a result is given the counts.
LeaveContexts(t, next) ==
    /\ pc[t] = "script"
    /\ pc' = [pc EXCEPT ![t] = next]
    /\ local' = [local EXCEPT ![t] = Restored(t, next)]
    /\ counted' = IF next = "storing"
                  THEN [counted EXCEPT ![run[t]] = local[t].bytes] ELSE counted
    /\ UNCHANGED <<run, call, results, saved, stage, files, path, recorded,
                   storage, history>>

---------------------------------------------------------------------------------
(* The script's calls, seen by the hooks. *)

\* A call, or the next hop of a redirect, asks for a host: the call fails or has
\* addresses to try.
Resolve(t, host) ==
    IF ResolutionBlocked(local[t].guarded, host.name, host.results)
    THEN pc' = [pc EXCEPT ![t] = "script"] /\ UNCHANGED results
    ELSE pc' = [pc EXCEPT ![t] = "resolved"] /\ results' = [results EXCEPT ![t] = host.results]

Call(t, host) ==
    /\ pc[t] = "script" /\ call[t] < CallsOf[run[t]] /\ wire[run[t]] < MaxExchanges
    /\ call' = [call EXCEPT ![t] = @ + 1]
    /\ Resolve(t, host)
    /\ UNCHANGED <<run, local, saved, jobVars, storage, history>>

Connect(t, a) ==
    /\ pc[t] = "resolved" /\ a \in results[t]
    /\ ~ConnectBlocked(local[t].guarded, a)
    /\ pc' = [pc EXCEPT ![t] = "connected"]
    /\ results' = [results EXCEPT ![t] = {}]
    /\ reached' = reached \cup {a}
    /\ UNCHANGED <<run, call, local, saved, jobVars, storage, wire, caught>>

\* Refused by the guard or by the peer, or timed out: the call has failed.
ConnectFails(t) ==
    /\ pc[t] = "resolved"
    /\ pc' = [pc EXCEPT ![t] = "script"]
    /\ results' = [results EXCEPT ![t] = {}]
    /\ UNCHANGED <<run, call, local, saved, jobVars, storage, history>>

\* One counter for the process (mutant of CountBytes).
CountBytes_Shared(t) ==
    IF local[t].counting
    THEN /\ local' = [u \in Threads |->
                         IF local[u].counting THEN [local[u] EXCEPT !.bytes = @ + 1] ELSE local[u]]
         /\ recorded' = IF local[t].tracked = None THEN recorded
                        ELSE [recorded EXCEPT ![local[t].tracked] = @ + 1]
    ELSE UNCHANGED <<local, recorded>>

\* patched_send and _CountingReader, which call on_sent and on_received.
CountBytes(t) ==
    IF local[t].counting
    THEN /\ local' = [local EXCEPT ![t].bytes = @ + 1]
         /\ recorded' = IF local[t].tracked = None THEN recorded
                        ELSE [recorded EXCEPT ![local[t].tracked] = @ + 1]
    ELSE UNCHANGED <<local, recorded>>

\* The response of a call: without a body kept, with one, or with the path of a
\* file that is not there.
Respond(t, body) ==
    /\ pc[t] = "connected"
    /\ pc' = [pc EXCEPT ![t] = "script"]
    /\ CountBytes(t)
    /\ wire' = [wire EXCEPT ![run[t]] = @ + 1]
    /\ files' = IF body = "kept" THEN [files EXCEPT ![run[t]] = @ \cup {call[t]}] ELSE files
    /\ path' = IF body = "none" THEN path
               ELSE [path EXCEPT ![run[t]][call[t]] = LocalPath]
    /\ UNCHANGED <<run, call, results, saved, stage, counted, storage,
                   reached, caught>>

\* The response is a redirect.
Redirect(t, host) ==
    /\ pc[t] = "connected" /\ wire[run[t]] + 1 < MaxExchanges
    /\ CountBytes(t)
    /\ wire' = [wire EXCEPT ![run[t]] = @ + 1]
    /\ Resolve(t, host)
    /\ UNCHANGED <<run, call, saved, stage, files, path, counted, storage,
                   reached, caught>>

---------------------------------------------------------------------------------
(* The agent's own traffic: _upload_bodies, run_health_script. *)

\* The next body is masked, uploaded, and its path rewritten.  The backend is an
\* internal host; a client that talks HTTP goes through the hooks.
UploadBody(t, c, data) ==
    LET r == run[t]
        bytes == redact_body_bytes(data, Secrets[r])
    IN  /\ pc[t] = "storing" /\ c \in Pending(r) /\ \A d \in Pending(r) : c <= d
        /\ IF local[t].guarded
           THEN /\ caught' = caught \cup {"upload"}
                /\ pc' = [pc EXCEPT ![t] = "raised"]
                /\ UNCHANGED <<local, recorded, storage, path>>
           ELSE /\ CountBytes(t)
                /\ storage' = [storage EXCEPT ![Key(r, c)] =
                                  [run |-> r, call |-> c,
                                   masked |-> WellMasked(data, Secrets[r], bytes)]]
                /\ path' = [path EXCEPT ![r][c] = Key(r, c)]
                /\ UNCHANGED <<pc, caught>>
        /\ UNCHANGED <<run, call, results, saved, stage, files, counted, wire,
                       reached>>

\* The backend raises; bodies uploaded before this one stay where they are.
UploadRaises(t) ==
    /\ pc[t] = "storing" /\ Pending(run[t]) # {}
    /\ pc' = [pc EXCEPT ![t] = "raised"]
    /\ UNCHANGED <<run, call, results, local, saved, jobVars, storage, history>>

\* The challenge fetches its token from the gateway, an internal host.  What it is
\* answered is left out.
HealthChallenge(t) ==
    /\ pc[t] = "idle"
    /\ IF local[t].guarded
       THEN caught' = caught \cup {"health"} /\ UNCHANGED <<local, recorded>>
       ELSE CountBytes(t) /\ UNCHANGED caught
    /\ UNCHANGED <<pc, run, call, results, saved, stage, files, path, counted,
                   storage, wire, reached>>

\* _reach_sync: active() around tcp_state.reach, which resolves and connects, up to
\* three times (CallTimeouts).
BeginReach(t) ==
    /\ pc[t] = "idle"
    /\ pc' = [pc EXCEPT ![t] = "reach"]
    /\ saved' = [saved EXCEPT ![t].guarded = local[t].guarded]
    /\ local' = [local EXCEPT ![t].guarded = EgressEnabled \/ @]
    /\ UNCHANGED <<run, call, results, jobVars, storage, history>>

ReachConnects(t, host, a) ==
    /\ pc[t] = "reach" /\ a \in host.results
    /\ ~ResolutionBlocked(local[t].guarded, host.name, host.results)
    /\ ~ConnectBlocked(local[t].guarded, a)
    /\ reached' = reached \cup {a}
    /\ UNCHANGED <<threadVars, jobVars, storage, wire, caught>>

EndReach(t) ==
    /\ pc[t] = "reach"
    /\ pc' = [pc EXCEPT ![t] = "idle"]
    /\ local' = [local EXCEPT ![t].guarded = saved[t].guarded]
    /\ UNCHANGED <<run, call, results, saved, jobVars, storage, history>>

---------------------------------------------------------------------------------
PoolStep(t) ==
    \/ EndRun(t)
    \/ SetupRaises(t)
    \/ EnterContexts(t)
    \/ \E next \in {"storing", "raised"} : LeaveContexts(t, next)
    \/ \E host \in Hosts : Call(t, host)
    \/ \E a \in Addresses : Connect(t, a)
    \/ ConnectFails(t)
    \/ \E body \in {"none", "kept", "absent"} : Respond(t, body)
    \/ \E host \in Hosts : Redirect(t, host)
    \/ \E c \in Calls, data \in Bodies : UploadBody(t, c, data)
    \/ UploadRaises(t)

DefaultStep(t) ==
    \/ HealthChallenge(t)
    \/ BeginReach(t)
    \/ \E host \in Hosts, a \in Addresses : ReachConnects(t, host, a)
    \/ EndReach(t)

ThreadStep ==
    \/ \E t \in PoolThreads : PoolStep(t) \/ \E r \in Runs : BeginRun(t, r)
    \/ \E t \in DefaultThreads : DefaultStep(t)

RunNext == ThreadStep \/ \E r \in Runs : Submit(r) \/ Refuse(r)

RunSpec == RunInit /\ [][RunNext]_runVars

---------------------------------------------------------------------------------
(* Properties. *)

Stages == {"new", "submitted", "running", "ok", "error", "refused"}
Locals == [assigned : Runs \cup {None}, counting : BOOLEAN, bytes : Nat,
           guarded : BOOLEAN, tracked : Runs \cup {None}]

\* Types of the variables.
RunTypeOK ==
    /\ stage \in [Runs -> Stages]
    /\ pc \in [Threads -> {"idle", "setup", "script", "resolved", "connected", "storing", "raised",
                         "reach"}]
    /\ run \in [Threads -> Runs \cup {None}]
    /\ call \in [Threads -> 0 .. MaxCalls]
    /\ results \in [Threads -> SUBSET Addresses]
    /\ local \in [Threads -> Locals] /\ saved \in [Threads -> Locals]
    /\ files \in [Runs -> SUBSET Calls]
    /\ path \in [Runs -> [Calls -> Keys \cup {NoPath, LocalPath}]]
    /\ counted \in [Runs -> Nat] /\ recorded \in [Runs -> Nat] /\ wire \in [Runs -> Nat]
    /\ storage \in [Keys -> Objects]
    /\ reached \subseteq Addresses
    /\ caught \subseteq {"upload", "health"}

\* The bytes reported for a run (ingressBytes, egressBytes), and those of its
\* record, are the ones its script exchanged: none of another run on the same
\* thread or at the same time, of an upload or of a health challenge.
CountsOwnBytes ==
    \A r \in Runs : /\ recorded[r] = wire[r]
                    /\ stage[r] = "ok" => counted[r] = wire[r]

\* With the egress policy on, no script and no witness is connected to an address
\* that is not public, whatever its name, its redirects and its neighbours in the
\* DNS answer.
GuardedRunsStayOutside ==
    EgressEnabled => \A a \in reached : a.range = "public"

\* The guard never refuses the agent's own traffic, on any thread, after any run or
\* witness.
AgentTrafficUnguarded == caught = {}

\* In a result that is returned, a body path leads to the body of that very call
\* of that run, or to a file that was never there.
PathsLeadToOwnBodies ==
    \A r \in Runs, c \in Calls :
        (stage[r] = "ok" /\ path[r][c] \notin {NoPath, LocalPath})
            => storage[path[r][c]].run = r /\ storage[path[r][c]].call = c

\* No object in storage holds a secret of its run, also when the run failed later.
StoredBodiesMasked == \A k \in Keys : storage[k].masked
=================================================================================
