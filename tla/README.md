# A verification of the probe agent

TLA+ models of the Tracedown probe agent, the TLC configurations that check
them on small instances, and theorems the TLA+ proof system checks for every
value of the constants. Source paths are relative to the repository root; the
code was read at the commit this directory is kept beside.

## 1. The system

The agent is one asyncio process (FastAPI on uvicorn, `src/main.py`). A
scheduler dials it, posts Lace scripts to `/probe`, and gets back a result. The
script runs synchronously on a thread of a bounded pool; the event loop only
waits for it. The agent keeps nothing between runs except its identity: a key, a
certificate, a CA bundle, the pinned CA fingerprints and a slug, five files.

| part | state it keeps | operations | talks to |
|---|---|---|---|
| probe dispatch (`services/executor.py`, `routes/probe.py`) | the pool's queue and threads; per call a future, a `started` flag, a deadline | `execute_probe`, `_run_sync`, `_run_budget_timeout`, the 503 | event loop, pool, run record |
| run record (`services/run_progress.py`, `services/wire_metrics.py`) | phase, request, count, timeouts of one run; thread-locals | hooks on `getaddrinfo`, `connect`, `wrap_socket`, `request`, `close`, sends and reads; `on_timeout`; `snapshot` | written by the run's thread, read by the loop's |
| identity (`mtls/bootstrap.py`, `mtls/renewal.py`, `mtls/ca_pins.py`, `mtls/ssl_context.py`, `main.py`) | five files; the listener's TLS context; the key for sealed dispatches | enrol, start, renew, hot reload | gateway, file system |
| TCP verdicts (`services/tcp_state.py`, `routes/reach.py`) | none | `read`, `lossy`, `verdict`, `reach` | kernel |
| timeout attribution (`_attribute_call_timeouts`) | none | match calls to timeout records by time | run record |
| per-run context (`_run_sync`, `egress_guard`, `storage/`) | thread-locals on pooled threads; a temporary directory | enter and leave the contexts; upload bodies | storage |
| witness and health challenge (`_reach_sync`, `routes/health.py`) | thread-locals on the default pool | reach a target under the guard; fetch a token under none | gateway |
| egress policy (`services/egress_guard.py`) | installed hooks, a thread-local depth | resolve, connect, classify an address | socket layer |
| sealed dispatch (`mtls/envelope.py`, `routes/probe.py`) | none | open, run, seal | sealing key |
| bootstrap trust (`mtls/bootstrap_trust.py`, `_post_renewal`) | none | choose what authenticates the gateway | gateway |
| job payload (`models/job.py`) | none | read and clamp the run budget | scheduler |
| redaction (`_redact_body_bytes`) | none | mask secrets in bodies | |

What is hard here, and what correctness means:

* **The budget.** A budget is a wall clock around a run that cannot be
  cancelled. Three clocks race: the pool's threads (take a job, mark it running,
  set the flag, finish), the deadline, and the loop's callbacks, which may pile
  up in one pass because a refusal *blocks* the loop for 0.1 s. A dispatch must
  be answered once; a refusal must mean that the script did not and will not
  run, for the scheduler hands a refused job to another agent; a run's own
  outcome must not be dropped before the deadline; a run holds one slot until it
  really ends.
* **The record.** It has no lock, and is written through hooks on three library
  modules whose calling order is the libraries', not the agent's. Connections
  are closed by the executor, by `http.client`, by `ssl` and by
  `create_connection`, and file descriptors are reused at once. A count must
  count each request once, a timeout record must be of its own connection, a
  stall must not be put down to the wrong party.
* **The judgement.** A stall is put down to someone by kernel counters that see
  only what arrived, and records are matched to calls by the clock. A call must be
  judged by its last attempt and not by another call's, the endpoint must not be
  blamed while something sent has not got to it, nor the path for what it did not
  do, and the second agent must be sent to the target that failed.
* **The identity.** Five files written one after another, by a process that may
  be killed between any two, a gateway that may have certified a key although
  its answer was lost, and a CA that rotates. The agent must always be able to
  prove possession of a key the gateway knows, must never let go of its trust
  anchor, and must come up serving mutual TLS.
* **Pooled threads.** Counter, guard, assigned and tracked record hang on threads
  that the next run, a witness or a health challenge is given, and on which the
  run itself uploads its bodies to an internal host. No run may be billed
  another's bytes, no script may get to an address that is not public, and the
  agent's own traffic may never be caught by the guard.
* **The answer.** A sealed dispatch is opened first and found to have nothing to
  seal its answer to last. No result may leave in the clear, and a refusal must
  mean that nothing ran.
* **The first trust.** Pin, bundle, opt-out, scheme and environment combine in
  216 ways, which may change from one start to the next, to choose who gets the
  bootstrap token. It must get to nobody the operator did not name, and a renewal
  must not inherit an opt-out, though the CA it goes by is that of whoever
  answered the enrolment.

## 2. The plan

Modules in the order of importance; all of them are here.

| | module | what | proved |
|---|---|---|---|
| A | `DispatchContract` | what `execute_probe` promises the scheduler, in four steps | through B |
| B | `ProbeDispatch` | pool, clock and loop; implements A | all safety properties |
| C | `RunProgress` | the record of a run against a snapshot | all |
| D | `CertLifecycle` | enrolment, startup, renewal, crashes | all |
| E | `TcpState` | `lossy` and `verdict` | through F |
| F | `CallTimeouts` | connections, records, `_attribute_call_timeouts` and `reach`, against what really happened; extends E | all |
| G | `RunContext` | thread-locals, guard, counts and uploads of runs that share pooled threads; extends I | through H |
| H | `ProbeRoute` | the request, its budget, the run, the answer; extends G | all |
| I | `EgressGuard`, `Redaction` | which hosts are blocked; masking, against a reference definition | through H; in full |
| J | `BootstrapTrust` | who is talked to at enrolment and renewal, and which guards the settings arm | all |

How they compose. H adds to G's runs the request before and the answer after;
what it lets `execute_probe` say, and when, is A: a refusal of a job still in the
queue, which then no thread takes, a stand-in for one that a thread has. B shows
that the pool, the clock and the loop do keep to that. B meets C in the answer of
a budget timeout (`_run_budget_timeout` calls `snapshot` at `AnswerTimeout`); the
two are kept apart because they share nothing else, and C lets the snapshot begin
at any moment, which is more than B would. E's `verdict` is the `Verdict` of C
with its counters spelt out. F begins where C ends, with the records a run leaves
behind; the one thing it takes from C is that a timer may expire where no hook
sees it. G's witness makes the connections whose outcome F judges. J is the
authentication of the requests that D counts as answered or failed.

Every safety property a passing run checks is a theorem too. Left: the liveness of
`ProbeDispatch`, which stays with TLC.

## 3. The modules

### ProbeDispatch, DispatchContract

`execute_probe` (`src/src/services/executor.py:443-515`). `queue`, `worker` and
`future` are the `ThreadPoolExecutor` and its futures; `afut` is the asyncio
future `run_in_executor` wraps around one; `task` is the coroutine, `answer`
what its caller got. The pool and asyncio are libraries: their steps are
modelled as the code relies on them, in the versions of the Dockerfile (Python
3.13, where `wait_for` is a `timeout()` scope). One action is one step of one
thread or one callback of the loop:

* threads: `TakeJob`, `BeginRun` (a future becomes running) or `DropCancelled`,
  `SetStarted`, `FinishRun`;
* clock: `BudgetElapses`;
* loop: `ExecuteProbe`, `DeliverResult`, `TimerFires`, `CancelSource` (the
  future can be cancelled only while no thread runs it), `EnterGrace`,
  `AnswerTimeout`, `Refuse`, `ReturnOutcome`, `CatchRunsTimeoutError`, and
  `DeliverThenExpire`, where result and timer meet in one pass of the loop.

`LoopFree` says that no callback runs while a handler sits in
`started.wait(0.1)`. The script is abstracted to how it ends. `inTime` is a
history variable.

`StartsWithinGrace` is an assumption about scheduling: a thread that has marked
a job running sets `started` (its very next call) before a 0.1 s wait begun
after that can end. The code rests on it (`executor.py:499-502`). Where it is FALSE
a refused job may run: `RefusedNeverRuns` is claimed, checked and proved only
with it.

`DispatchContract` knows neither pool nor loop: a script begins at most once
and never after a refusal, and each answer is one the script's stage allows. The
mapping (`Contract` in `ProbeDispatch`) takes `stage` from `future` and
`outcome`.

### RunProgress

`src/src/services/run_progress.py`, with the read and send wrappers of
`wire_metrics.py` where they call into it. Every assignment of the writer to a field
the reader uses is an action (`CloseHook`, `CloseCount`, `CloseEnter` are the three
of the `close` hook), and every read of `snapshot` is one (`ReadPhase` ...
`Confirm`); `ReadFd` and `ReadTcp` are the argument and the call of
`tcp_state.read(request.fd)`, between which the descriptor may change hands.
`sockets` is the descriptor table of the process: `OtherThread` may take any
descriptor that is free. The libraries' part, the order in which hooks are called
and sockets are closed, is in the guards on `pc`: `NextAddress` (a connect that
failed closes its socket, not through the close hook), `HandshakeFails` (ssl closes
the socket before the exception reaches the hook), `CloseEarly` (a response that is
not kept alive closes its connection once the headers are read), and an exchange may
end in an error that is no timeout and leaves no record (`ExchangeFails`). A TCP
state is known by the connection it was read from. `expiry` and `snap.inside` are
history.

### TcpState, CallTimeouts

`TcpState` is `lossy` and `verdict` of `src/src/services/tcp_state.py`, as operators
on a reading. `CallTimeouts` is what they are used for. `conn` is the connection of
the attempt under way, kept twice: what the path did (`lost`, `overtaken`,
`spurious`, `peerHas`) and the kernel's counters, which are all `Reading` gives to
`verdict`. It goes through the phases as the hooks of `run_progress` set them:
`connecting` while the SYN is unanswered *and* after connect() returned (`Accept`);
`tls_handshake` from wrap_socket on (`ClientHello`), for an https target; the
headers leave under whichever of the two it is (`SendHeaders`); `sending` is entered
only for a body (`SendBody`), `awaiting_response` when `request` returns (`Await`),
`receiving` by the first byte in order. The kernel sends again what is not
acknowledged in time, lost or merely late (`Retransmit`), and counts both alike. The
kernel, the path and the Lace executor's calls are external: segments arrive, are
lost, are swapped; a call is tried again when its timer expired, or given up.
`TimerExpires` is `on_timeout`; `TimerExpiresUnseen` is the stall of `CloseEarly` in
`RunProgress`, which leaves no record. `AttributeCallTimeouts` is
`_attribute_call_timeouts`, with `Own`, `Judge`, `RunVerdict` and `ReachTarget` for
its parts; the records of a call are the set of their positions in the list. If it
names a target, the second agent's `reach` follows (`ReachResolve`, `ReachConnects`,
`ReachFails`, `ReachRefused`); its readings are one of loss, none, cannot tell,
unreadable. `of` in a record is history: whose timer it was; so is `tries` in a
call: how many attempts it made. Stamps are cut to `Granularity`.

### CertLifecycle

`ensure_registered`, `_renew`, `renew_if_needed`, `renewal_loop`, and the
startup block and `lifespan` of `main.py`. One action is one file, one request or
one load. A key is known by the order it was generated in, a certificate by its
key, a CA by its generation. `Crash` may strike wherever the process is; the
files written in place (enrolment's, and the pins at any time) may then be left
empty (`Torn`), those replaced through `os.replace` not (`MayTear`).
`WriteFails` is a write that raises: it ends enrolment and the process, and is
logged by renewal. The gateway is external: it certifies a key for a token, or
for a signature by a key it has certified; its answer may be lost after it did
(`RegisterFails`, `RenewFails`); it may leave its bundle out of a renewal, and its
slug, or every readable certificate of the bundle, out of an enrolment, which then
pins nothing; it rotates its CA by overlapping bundles (`RotateCa`).

`GatewayHttps` and `SlugSet` are settings. Each only adds a guard when it is TRUE
respectively FALSE.

### RunContext, EgressGuard, Redaction

`_run_sync` (`services/executor.py`) on the threads of the probe pool. `local` is
what hangs on a thread (the assigned record, counting and bytes, the guard's flag,
the tracked record), `saved` what the context managers found when they were entered;
`Restored` is what their `finally` clauses put back. A pool thread goes `BeginRun`
(assign, `mkdtemp`), `EnterContexts` (`measure`, `active`, `track`), `Call`,
`Connect`, `Respond` or `Redirect` in any number, `LeaveContexts` (by return or by
raising), `UploadBody` for each body in order or `UploadRaises`, and `EndRun`
(`rmtree`, which ignores errors and may leave any of the files, unassign). The hooks
see every connection of the process and go by what hangs on the thread, so
`UploadBody` and `HealthChallenge` go through the same `CountBytes` and the same
flag; `caught` says when the guard refused them. On the threads of the default pool
`BeginReach`, `ReachConnects` and `EndReach` are the witness under `active()`, which
alternates with `HealthChallenge` (whose answer is left out). `wire` and `reached`
are history: bytes a script exchanged, addresses connected to. The Lace executor and
the storage backends are external.

`EgressGuard` is the policy: an address is the form it is written in and the
range it is of, a name its relation to the blocked suffixes. `Redaction` is
`_redact_body_bytes` over sequences of letters: the secrets that are not empty, the
longest first and those of one length as they were, each replaced from the left
(`Replace`). A mask that is put in is one symbol, which is no letter. That assumes
that no secret has bytes of the mask in it; a body may have them, as letters.
`WellMasked` says by positions what may be stored of a body: the body is cut into
as many pieces as there are symbols stored, each a letter that is still there or
letters of secrets under one mask; no secret occurs in what is stored; and where
secrets only nest in the body, not a letter of theirs is left.

### ProbeRoute

`routes/probe.py` with `mtls/envelope.py` and `models/job.py`. `Receive` opens a
sealed dispatch, reads `requestTimeoutMs` and either rejects it (`Rejection`,
in the code's order) or submits the job with `sanitise_run_budget`; numbers are in
halves, so that `int()` has something to cut. `AnswerResult`, `AnswerError` and
`AnswerAtCapacity` are the three ways `execute_probe` ends; `Answered` finds out
only then whether the answer can be sealed. `reply` is what the scheduler got.

### BootstrapTrust

`mtls/bootstrap_trust.py` with the two requests that use it, and the settings of
`config.py` that choose a trust or arm a guard. A peer is known by its
certificate, which some CA issued (`Issuer`), a TLS context is the set of peers it
accepts, and any peer may answer any connection. `Enrol` is
`resolve_bootstrap_verify`; with a pin, `FetchPeerCertificate` and `PinAndBind`
come first. An enrolment that is answered (`EnrolmentAnswered`) leaves the CAs that
peer hands out (`Hands`) on disk and pinned, whoever it was: `anchors`. A renewal
accepts whoever holds a certificate of those (`Renew`, `Certified`), replaces them
by an answer's bundle if that keeps one of them (`BundleAccepted`), and goes on to
`FrontTrust` when the peer's certificate is `Rejected`. `Platform` is the CAs of the
platform; what the operator names and the gateway itself hand out only those
(`HonestAssumption`), others what they like. `Restart` may come at any moment: the
files stay, the settings are read anew, so that an agent enrolled under one setting
renews under any other; the file of a bundle may be missing each time it is looked
for. `Serve` arms the guards. `dialled`, `sent` and `posts`, which each process
starts afresh, and `vouched`, which is kept with the files, are history.

## 4. The runs

A run is an `MC` module and a configuration of the same name. "Pass" runs check
what the code keeps; "violation" runs a statement of a comment or a test that it
does not, and their counterexample is the shortest.

| run | module | shows |
|---|---|---|
| `dispatch` | `MCProbeDispatch` | slots, refusals, dropped outcomes and the contract under every interleaving; budgeted dispatches are answered though scripts hang; all are, and slots come back, if scripts end (140,000 states) |
| `record` | `MCRunProgress` | the record and the snapshot (5.4 million) |
| `judgement` | `MCCallTimeouts` | stalls, calls, attempts, runs and the witness (2.1 million) |
| `faults` | `MCCertLifecycle` | files and listener through crashes, failed writes and rotations (220,000) |
| `requests` | `MCProbeRoute` | jobs from the request to the answer: bytes, guard, bodies, refusals, budgets (0.87 million) |
| `trust` | `MCBootstrapTrust` | who gets the token and the renewals, for all 216 settings and every change of them (169,587) |
| `unrecorded` | `MCCallTimeouts` | violation, see 6 |
| `pair`, `plain_http`, `seal_key` | `MCCertLifecycle` | violations |
| `clamp` | `MCProbeRoute` | violation |
| `armed` | `MCBootstrapTrust` | violation |

**Bounds.** `MCProbeDispatch`: three dispatches, two with a budget, on two threads.
Three are what it takes for one to wait behind two runs that do not end and be
refused, and for one handler to block the loop while another's timer is due; two
threads, so that a freed thread takes a cancelled job while another runs.
`MCRunProgress`: two requests, so that the second reuses the first's descriptor; two
addresses; two descriptors, so that another thread takes one; the first request is
answered by `Connection: close`, the second goes over TLS. The run is followed until
the snapshot is taken (`UntilTaken`): it does the same after it as without one. `MCCallTimeouts`: two
calls, so that a record can lie at the seam of two; two attempts of each; one target
over plain http, one over TLS; four segments, so that one can be lost before two
that arrive, or two pairs be swapped, and a burst of 250, so that two segments out
of order are below one in a hundred; a timer of 3 units with a slack of 2, so that
the windows of neighbouring calls overlap, and stamps cut to 2. `judgement` lets
responses lose and swap segments in the run's first attempt only
(`LaterResponsesInOrder`): a later connection is a new one of which only the verdict
of its record is kept, and sends that are lost or late already make every verdict
possible there. `unrecorded` has two segments and no such bound. It assumes that
timers run longer than the slack of 10 ms (`TimeAssumption`). `MCCertLifecycle`: two
crashes, so that a restart can be interrupted too; four keys, so that enrolment can
be repeated and two renewals follow; three CA generations, so that a whole rotation
passes between two renewals. `faults` sets `GatewayHttps = FALSE` and `SlugSet =
TRUE`, which disable nothing, so that its behaviours include those of the other
settings; `pair`, `plain_http` and `seal_key` use the opposite settings.
`MCProbeRoute`: two jobs on two threads, so that runs overlap and a thread is used
again; two calls and one, so that a second body can fail to upload; two exchanges,
so that a redirect is followed; a host for each way inside (a second address, a
mapped one, a zone) and each way a name can be written; one thread of the default
pool, on which a witness and a challenge must alternate; four bodies of three
letters over two, and secrets that nest, overlap each other and overlap themselves
(`RedactionProofs` has all others); budgets of every kind around a floor and a
ceiling of 2. Floor and ceiling are equal there because nothing in between is
treated differently; `ProbeRouteProofs` has them apart. `MCBootstrapTrust`: the
gateway under its present and under its next CA, so that a bundle can be rotated
past it; a front with a public and one with a private certificate, both pinned, and
somebody else with a CA of their own, who may hand that out with or without the
platform's; two pinned peers are what it takes for one to be checked and the other
to be sent to.

Symmetry is used in `record` (descriptors) and `requests` (pool threads),
where only safety is checked; `dispatch`, which checks liveness,
uses none.
Deadlock is checked in `trust`, where the process is started again for ever. In
the others dispatches are answered once, a run ends, and bounded counters run
out, so the model really stops.

**Fairness** (`ProbeDispatch`). Weak fairness of each thread's steps, of the
clock and of the loop's callbacks for each dispatch: the operating system
schedules threads, time passes, and the event loop runs what is ready in order.
Nothing is assumed of a script's end. `BudgetedAnswered` therefore holds with
every script hanging. `EveryDispatchAnswered` and `SlotsReturn` have it as a
premise (`RunsEnd`): every call in a script is capped by its own timeout
(`executor.py:463-465`). The other models claim safety only.

Each passing property was also checked to fail on a mutant of the code: the
definitions named `<Action>_<Change>`, which are no part of the specification.

## 5. What is proved

Eight modules, for any constants that meet the named assumptions. What is recursive
in a module that is proved about is a recursive function, and where a proof needs
induction it goes by the least counterexample: a set of naturals that is not empty
has a least element (`Least`, from `NatLessThanWellFounded` of the library), so one that
holds every number all of whose predecessors it holds is all of them (`Induction`).

*ProbeDispatchProofs*, for any number of dispatches and threads. The inductive
invariant ties the four places where a dispatch is represented: a queued job is
in the queue or in a thread's hands that has just taken it; a running one in
exactly one thread's; an asyncio future is done only if the pool's future is
finished; a task waits, expires or is answered as its futures allow. None of the
properties is inductive alone: that a job is in one thread's hands needs that it
leaves the queue once, and this that it is queued once (`QueuedOnce`). From it follow
`TypeCorrect`, `OneSlotPerRun`, `NeverQueuedTwice` and
`OutcomeKeptBeforeDeadline`. Assuming `StartsWithinGrace`, a second invariant
(a dispatch in its grace period whose flag is unset and which is not running has
a cancelled future) gives `RefusalIsFinal`, and `ContractImplemented`: each
action maps to a step of `DispatchContract` or to a stutter.

*RunProgressProofs*, for any number of requests, addresses and descriptors. The
invariant says for every position of the run's thread which request the record
shows (`Counting`), which phases it may be in (`Phasing`) and whose socket the
kept descriptor is (`Owning`); `Recording` and `Reading` say what may have been
written and read on the way there. The point of `Reading` is that requests are
numbered upwards: if the record still shows the request at `Confirm`, it showed
it all along, so the descriptor was its own. The count is read after the request
and only grows, so the number that is given (`NumberNeverTooLow`) may be the next
request's but not an earlier one's, and is right if the record still shows the
request at `Confirm`. All six properties follow.

*CertLifecycleProofs*, for any number of keys, CA generations and crashes. The
invariant says what the step under way has already done to the files
(`EnrolProgress`, `RenewProgress`) and that enrolment runs only on a disk with no
certificate, bundle or pins (`Unenrolled`), which is why the pins of a trusted
bundle are never overwritten by a second enrolment. From it:
`DiskKeyAlwaysCertified` (the certificate's renewal always has a key the gateway
knows), `AnchorAlwaysPinned`, `CertAfterKey` (a certificate reaches the disk only
after its key), `PinnedNeverHttp`, and with
`Reloadable`, which adds what a listening agent's renewal builds on,
`ReloadAlwaysLoads`.

*CallTimeoutsProofs*, for any number of calls, attempts, segments and witness
attempts. `Connected` ties the kernel's counters to the path, in every phase: with
nothing unacknowledged on an accepted connection all that was sent has arrived
(`Acknowledged`), which gives `EndpointSound`, for any thresholds; every
retransmission and every segment out of order has its cause (`Caused`), a loss, a swap
or a delay past the kernel's timer, which gives `NetworkSound` for an out-of-order
threshold of two or more (the code has 2). It says nothing of the phase
`connecting`, where the verdict goes by the phase alone.
`CleanSound` carries the attempts behind a path that is still called clean
(`WitnessedSoFar`). `JudgedSound` and `WitnessWellSent` rest on the line of time
(`Timeline`): calls follow each other, a record lies in its own call's window and
after those of all calls before it, and records are listed in the order of their calls.
A call's window may hold an earlier call's record, but its own come after it, and
the last of these is that of its last attempt if there is one (`AttemptsInOrder`).
It needs that a timer outlasts the slack and that the slack covers what cutting the
stamps takes away (`StampNear`, `StampKeepsOrder`): that is `TimeAssumption`.
`TypeCorrect` adds the bounds of attempts (`Attempts`).

*RedactionProofs*, for every body and every list of secrets over any letters.
`RedactionCorrect` says that `redact_body_bytes` is always `WellMasked`. First the
recursive definitions: `Replace` is well founded because a secret is not empty
(`RestExists`), and the secrets can be put in order (`OrderExists`). A replacement
is a cut of the data (`Trace`, `Pieces`), cuts compose, and letters that stand side by
side after a replacement did before it (`Lift`); so no secret that has had its turn
comes back. That nothing is left of nested secrets needs the order: an occurrence of
which an earlier, no shorter secret took a letter lies in that secret's
occurrence as a whole (`WhollyCovered`), one of which it took none is still there
as a whole (`StillThere`), and the replacement from the left cannot pass it over, for
it would have to have taken one that overlaps it (`TakenWhole`). The invariant of
the secrets' turns is `Masked`, kept by `SecretsTurn`.

*RunContextProofs* and *ProbeRouteProofs*, for any jobs, threads, calls, hosts,
bodies and secrets. The invariant of `RunContext` (`RunInv`, theorem `Isolated`)
says that what hangs on a thread is a function of where the thread is in its run,
so that nothing is left for the next one; that a job is in one thread's hands; and
what is on disk, in storage and counted at each place. `RunsBehave` shows that the
route's specification implements `RunSpec`, so all of it holds behind the route:
`BytesAreTheRunsOwn`, `NoWayInside`, `GuardEndsWithRun`, `PathsAreOwn`,
`BodiesMasked` (from `RedactionCorrect`, and that only an upload stores
anything). `AnswersInKind`, `RefusalsAreFinal` and `BudgetsInRange` add
what each reply says of the request and the run.

*BootstrapTrustProofs*, for any peers, certificates, CAs and bundles they hand out,
within `HonestAssumption`. The invariant (`IInv`) says what the context under
construction or in use accepts for each task and with which settings it was got as
far as that (`Prepared`), that no connection was made before the pin is parsed
(`Fetching`), and that CAs which came from authenticated peers all the way are the
platform's (`Vouched`): a renewal replaces them only by those of a peer that one of
them, or the operator, vouches for. All six properties follow.

Only model-checked: the liveness properties (`BudgetedAnswered`,
`EveryDispatchAnswered`, `SlotsReturn`), since temporal reasoning under fairness is
out of the prover's reach.

## 6. Where the code and its comments part

* `unrecorded` (`executor.py:340`). "A timed-out call with no record [...] is
  `unknown`" (`executor.py:325-326`). It takes the record of a call that timed out
  within 10 ms before it, verdict and target included.
* `pair` (`renewal.py:206`). A kill between the two replacements leaves a key and
  a certificate that do not match, and no start succeeds after it.
* `plain_http` (`bootstrap.py:89`). An enrolment killed between certificate and
  CA bundle is skipped at the next start, which then serves plain HTTP.
* `seal_key` (`renewal.py:226`). After a renewal, dispatches sealed to the served
  certificate cannot be opened until a restart.
* `clamp` (`job.py:107`). "Clamp rather than reject [...] must still get its probe
  run" (`job.py:64-66`). An infinite `requestTimeoutMs` raises `OverflowError`: the
  dispatch gets a 500 and its script is not run.
* `armed` (`config.py:205`). "mirroring [...] the bootstrap trust checks"
  (`config.py:203-204`). With `DEPLOYMENT_ENV=Production` those are armed, which
  strip and lower the value, and the egress guard is not.

Seen in the models, and not checked as runs of their own. A run that raises
`TimeoutError` itself is reported as an exceeded budget (`executor.py:497`), and a
finished run loses to its own deadline if the loop collects both in one pass, which
a refusal's 0.1 s block makes likely (`DeliverThenExpire`), where
`tests/test_run_budget.py:215` says that a budget that is not exceeded changes
nothing. Once the connect to the first address of a name timed out, a later expiry
of the same request leaves no record, and the call is judged by the first address's
(`run_progress.py:171`). While the body of a `Connection: close` response is read
the record says `between_requests` (`run_progress.py:358`): a stall there is judged
`agent`, and its timeout leaves no record. Where two secrets overlap and neither
contains the other, a fragment of one is left beside the mask (`executor.py:208`);
`WellMasked` claims only that no whole secret is left there. A sealed dispatch
without a `replyCert` is run in full before it gets its 400 (`routes/probe.py:63`).
A run whose second upload fails leaves its first body in storage with no result that
leads to it (`executor.py:247`). A TLS handshake's timeout is recorded after ssl
closed the socket (`run_progress.py:335`; `HandshakeFails` comes before
`RecordHandshakeTimeout`): there is no TCP state, so the verdict is `unknown`. A
snapshot across a `close` (`run_progress.py:127`, 133) numbers the request it names
one too high, though the class comment says "never torn" (99-101). `NumberedRight`
claims what is left: never too low, and right where a TCP state was read. A retried
call whose *last* timer expired unseen is judged by an earlier attempt's record,
where `executor.py:322-323` says that the last attempt is the one judged;
`JudgedByOwnLast` is about calls whose last expiry was seen. In the phase
`connecting` the verdict is `network`, "the connection was never accepted", also of
a connection that was accepted and on which the headers are going out
(`tcp_state.py:151`); `NetworkHasCause` leaves that phase out. A stall of the TLS
handshake on a path that lost nothing is the endpoint's
(`tests/test_timeout_attribution.py:137`): it has the ClientHello, though no
request, and that is what `EndpointHasAllSent` says. A witness's attempt whose TCP
state cannot be read counts as clean (`tcp_state.py:210`). A path that loses every
segment of the answer shows no segment out of order, so the stall is the endpoint's
(`tcp_state.py:161`). A refused job runs if its worker sleeps through the grace
period (`StartsWithinGrace = FALSE`); a kill between bundle and pins
(`renewal.py:210-215`) leaves the pins a generation behind, so that after the next
rotation a bundle that overlaps the stored one is refused, where `ca_pins.py:16-18`
says that the pins follow; an enrolment killed before the slug was written is never
completed, and without `PROBE_AGENT_SLUG` such an agent never renews; a crash inside
`write_pins` empties the pins. A renewal's first attempt connects before the pin or
bundle setting is looked at (`renewal.py:138-142`), so a malformed one is found only
if the gateway's certificate is rejected; `SettingsErrorNeverDials` is about what
the settings are asked for. An agent enrolled under the opt-out, or over http, pins
the CA of whoever answered and renews with them, as `RenewalAlwaysVerified` says.
Body files that `rmtree` cannot remove stay on disk with their secrets in them, and
nothing is said of it (`executor.py:190`).

## 7. What is not modelled

Contents of results, messages, wording and logging; times and byte counts, except
that an exchange is counted; the Lace executor, except that it makes one request at
a time on a connection of its own and closes it, keeps bodies and may raise;
cryptography; the parsing of addresses, certificates and the environment. In
`CertLifecycle`, how the gateway is authenticated (a peer that is not is a failed
request; `BootstrapTrust` has the rest), and file permissions. In `CallTimeouts`,
redirects (a call has one target), several addresses of one name, clock steps and
the layout of `struct tcp_info`. In `RunContext`, the addresses a connection is
tried on after one failed, the answer of the health challenge, what is left on disk
after a run, and `download_url`, which nothing in the agent calls. In `ProbeRoute`,
a body that is no valid job in another field than the budget, which the framework
rejects before the route. In `BootstrapTrust`, an agent without a bootstrap token,
which does not enrol. Settings that neither choose a trust nor arm a guard are
constants or are not read by anything modelled. Packaging and continuous integration
are build files; the Python version they pin is an assumption of `ProbeDispatch`.
