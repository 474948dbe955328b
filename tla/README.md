# TLA+ models of tturl

`tturl` releases batches of HTTP/2 requests in one TLS record and ranks them by
the order in which the responses arrive.  The library `src/tth2` sends and
ranks; `src/internal` times single requests, decides which candidate is slow,
parses request blocks and delays a test connection; `src/cmd/tturl` turns
command lines into runs and runs into reports.  These modules model the control
of those parts, check it with TLC, and prove with TLAPS what matters most about the
connection pool, the trial stream, the batches of a connection, the start gates
and the timing campaign.  Every definition is translated from the source;
`PROJECT.json` names the lines.

## The system

| part | source | state | what is hard |
|---|---|---|---|
| connection pool | `tth2/transport.go`, `ping.go`, `lease.go`, `connection_owner.go` | token channel, idle list, epoch, the callers' locals | idle connections hold no token; closing happens outside the mutex; stale connections are retried without a counter |
| pacing | `tth2/pacing.go` | run queues, selection, origin and run clocks, wake channel, loop goroutine | grant races cancellation; one-slot wake channel; the loop exits and restarts |
| trial stream | `tth2/trialstream.go`, `trials.go` | block counters, outcome channel, stop, fatal error | dead connections are replaced inside a cycle; stop, abort and drain race |
| read pump and collectors | `tth2/readpump.go`, response half of `conn.go` | active batch, collectors, resets, pump error | unbuffered hand-over to goroutines that may have left; batches share one pump |
| send path | send half of `tth2/conn.go`, `writer.go` | send credit, write lock, record buffer | credit moves with SETTINGS while a body is cut into records |
| timing engine | `internal/timing` | worker sets, barriers, unit queue, start pacer, gates, budgets, two wire protocols | group starts, replacement and priming, first failure, completion hooks |
| ranking | `internal/ranking` | evidence, waves or rolling window, in-flight comparisons | comparisons finish in any order; advances are cancelled and closed |
| request commands | `cmd/tturl`: race, measure, analyse, detect | plan, accounts, report stream, leases | deadline and interrupt at any step; a report that stops accepting writes |
| request blocks | `internal/curlblocks` | parsed blocks, snapshots, groups | files change between reads; fans multiply; labels must identify |
| demo server | `cmd/tturl/demo_server*.go`, `internal/netdelay` | quota store, calibration, handlers, relay queues | handlers share one store; limits wrap; both directions of a relay end together |
| statistics, reports, support, tools | `stats`, `*_report.go`, `internal/h2tls`, `tools` | | not modelled |

How the parts meet: the trial stream and the leases hold connections of the
pool through `connOwner`; each send passes a pacing lease of the origin before
its first flush; an attempt runs on a connection whose read pump lives from
dial to close.  race, measure and analyse consume one `TrialStream`, detect
drives a solver of `internal/ranking` whose comparisons run on leases, time
drives `internal/timing`, which has connections of its own.  All of them begin
with the request blocks.

What makes each part correct: the pool neither loses nor exceeds its slots and
a connection has one owner; batch starts are spaced and no waiter is forgotten;
a run yields each trial once and primed, and always ends; ranks are wire order;
send credit is conserved and the bodies of a batch end in one record; a timing
result says what happened; evidence is folded in the order of dispatch; a
command retains whole cycles, its accounts balance and its last record names
the cause; a request is what was typed.

## Modules

A component's state is its VARIABLES, a critical section, channel operation or
blocking call is one action, and the locals of a goroutine are a record per
goroutine.  Operators marked `Fault:` stand in front of the definition they
alter; each is a plausible bug under which TLC finds a property violated.

### tth2

**OriginPool** — one origin of a `Transport`.  `tokens` is the channel
`p.tokens`, `idle` and `epoch` the fields under `p.mu`, `call[c]` the locals of
a goroutine in `sendBatch`, `Ping` or `Acquire` (and then of the `ConnLease`).
`AcquireToken`/`AcquireCancelled` are the select, `Decide` the retry rule,
`CloseIdleTake`/`CloseIdleClose` the two halves of `CloseIdleConnections`,
which closes outside the mutex.  An attempt is its outcome; BatchAttempt and
BodyRelease open it up.

**ConnectionPool** — the abstract pool: which connections exist, which are
pooled, held, doomed or retired, without tokens, mutex or epoch.
`OriginPool!PoolRefinement` is its specification under the mapping that forgets
the program counters.  It says in one formula that a connection has one owner,
that the oldest idle one is reused, that none is forgotten and that none is
pooled again after the call of `CloseIdleConnections` that condemned it.

**PaceScheduler** — one `paceScheduler`.  A clock is the number of ticks since
its last grant, capped at the longest interval, so time is unbounded and the
state space finite.  `StepNothing`, `StepDelay` and `StepGrant` are the outcomes
of `step`, each with `pruneCancelled` and `selectAdmission` in front.  The
24-hour timer never fires.

**TrialStream** — one `TrialStream`: `Draw`, `Begin`, `Acquire*`, `WarmEnd`,
`Send*` and `Emit*` are the loop of `work`, `Terminal`, `Abort` and `Leave` end
it, `CloseOut` is the closer goroutine, `Receive`, `RangeEnds` and `Drain` are
`All`.  The pool appears as the outcome of acquire.

**BatchAttempt** — batches in a row on one connection: the goroutine in
`attempt`, the read pump, one collector per stream, and the peer, which answers
in any order, resets streams at any time, sends GOAWAY or leaves.

**RecordPlan**, **BodyRelease** — the send half of a batch.  RecordPlan has the
planning functions (the greedy record, the record under scarce credit and the
choice between them) as operators.  In BodyRelease the sender pays for a record
with credit, the pump adds credit and acknowledges SETTINGS and PING through
the same write lock, and the peer keeps its own view of both windows, so that
CreditConserved compares two accounts that no code line relates.

### internal/timing

**TimingPlan** — `Resolve`: which plans are refused, and the workers, units and
totals of the others.  **TimingCampaign** — `Run`: workers acquire their sets,
meet at the acquisition and the warmup barrier, measure the units of a shared
queue and replace and prime lost connections; one bounded channel leads to the
callback.  **StartGate** — a group of requests released together: readiness
under a budget that pacing pauses, the shared start pacer, the start and finish
gates, the first failure and its blame.  `WaitReady` reads readiness once,
`TryCommit` again in the watch, and `Commit` a third time (`Validated`) under the
pacer's lock and the state locks, in the step that opens the gate; anything may
change between the three.  Without a request timeout (`limited` false, as for
the zero of `Plan.RequestTimeout`) neither the budget nor a sender has a timer.
TimingCampaign sees a group as one step with an outcome.  **TimingTransport** composes acquisition, with its
budget watcher, with **TimingH2** (sender, reader and control writer of an
HTTP/2 connection) and **TimingH1** (both halves of an HTTP/1.1 exchange); it
too has runs with a timeout and runs without.

### internal/ranking

**OutlierSolver** — the decisions of the solver variants as operators: what is
planned, how an outcome moves the evidence, when a candidate is committed or
eliminated.  Wealth is counted in units, and a draw or shuffle is a free
choice.  **OutlierRun** — one run: callers of `Advance` and `Close`, the serving
goroutine with its waves or its rolling window, one goroutine per comparison.

### cmd/tturl and internal/curlblocks

**RunPlan**, **RunAccounts**, **CommandRun** — race, measure and analyse.
RunPlan resolves flags and roles to a workload, RunAccounts holds the counters,
the projections to an execution account and the checks they must pass, and
CommandRun is the command from its plan to its exit status; a measurement closes
its open cycles one by one (`Finish`) before it reports.  The trial stream
appears as what TrialStream allows it to yield.  **DetectPlan**, **DetectRun** —
the same for detect: roles and baseline controls, strategies, the leased
comparator with its workers, evidence, limits and the terminal record.

**BlockText**, **BlockParser**, **RequestBlocks** — from
arguments to requests.  A text is a sequence of atoms, an atom a run of bytes no
rule looks into.  BlockText has sources, encoders, substitution, fans,
labels and the fold of header options; BlockParser the checks from
arguments to blocks; RequestBlocks the expansion, which reads one file or
standard input a step while anyone may change a file.

**DelayRelay**, **DemoServer**, **Program** — DelayRelay is one connection
bridged by `netdelay`; DemoServer the server with its calibration, handlers
over one quota store, and shutdown; Program composes both with RequestBlocks:
the first argument selects what answers.

**MC…** modules instantiate the others.  The theorems are in
**OriginPoolProofs**, **TrialStreamProofs**, **BatchAttemptProofs**,
**StartGateProofs**, **TimingCampaignProofs**, **OutlierRunProofs**,
**CommandRunProofs** and **ProgramProofs**, each of which extends the module it
is about.

`TypeOK` in a module documents its state; `PoolTypeCorrect`,
`StreamTypeCorrect` and `BatchTypeCorrect` prove it.

## Runs

| run | what it asks, under every interleaving within its bounds | properties |
|---|---|---|
| `OriginPool` | a batch and a lease on two slots race `CloseIdleConnections`, expiry, cancellation, failed dials and a peer fault | TokensConserved, ConnectionBound, PoolRefinement, CallsReturn |
| `PaceScheduler` | admissions of two widths over the direct and a private run, cancelled at any time | SpacedStarts (also: FIFO within a run), WaitsEnd (also: the loop exits) |
| `TrialStream` | two workers, priming, one failure of any kind or a target that may kill every connection, consumer and context stopping at any time | PrimedThenOnce, CompleteOrExplained, ReleasedOnReturn, AllReturns (also: two dials per trial at most) |
| `BatchAttempt` | two requests race on a connection that a second batch reuses | RanksFollowWire, BatchesIsolated, CancelledEnds |
| `BodyRelease` | two bodies on small windows, credit, SETTINGS, resets, a peer that stops reading for a while | CreditConserved, NoLostCredit, SharedRelease, SendReturns |
| `TimingCampaign` | a timing run of two workers under any single disturbance | MeasuredOnPrimed, HonestResult, RunReturns |
| `StartGate` | a synchronised pair and a single request share the pacer or the pair primes, with a timeout and without | GatesHold, Explained, GroupsEnd |
| `TimingTransport` | a timing connection from dial to its last exchange, either protocol, with a timeout and without | CreditReturned, ExchangesComplete, EverythingReturns |
| `OutlierRun` | every solver advances, fails, is cancelled and closed | FoldedInDispatchOrder, RepliesAccount, CallsReturn |
| `CommandRun` | race, measure and analyse with interrupt, deadline, failures and a failing report | WholeCyclesOnly, AccountsBalance, CompletionNamesCause |
| `DetectRun` | detect with several comparisons in flight on leases | ControlsShared, DecisionsReported, LeasesReturned |
| `Program` | demo servers, and command lines whose files change while they are read | OverrunsOverlap, WithinLimits, RelayFaithful, SnapshotShared, RequestsAsTyped |

All hold.  The comment above a property says what it means for the code.

### Bounds

- OriginPool: two callers, so that one waits or shares the idle list while the
  other holds; `Conns` is as large as the limit, because a closed identity is
  used again; `MaxFaults` bounds peer faults, `MaxEpoch` calls of
  `CloseIdleConnections`.  One caller sends, the other leases; a Ping differs
  from a batch only in its attempt and is covered by the proofs, which range
  over all kinds.  With one peer fault a call is retried once; the uncounted
  retry loop under several is discussed under "Where comments and code differ".
- PaceScheduler: two ticks between the batches of the origin; for the private
  run two requests in three ticks, which makes two ticks for width 1, rounded
  up, and three for width 2.  The run's clock is the later one for a wide batch
  that follows a batch of its run, the origin's for a batch that follows one of
  the other run, so each decides in some behaviours.
- TrialStream: two workers, two trials in cycles of one after a priming batch
  with one failure anywhere; and one trial, primed or not, with any number of
  failures, where a stale connection meets the measured batch itself and a
  second replacement must be refused.  One reused connection.
- BatchAttempt: widths `<<2, 1>>`: a race to rank, then a reuse that could meet
  a late event of the race.  `MaxWire` bounds frames in flight.
- BodyRelease: windows that grow and shrink, bodies that need several records, every
  withheld count that changes the last record, two unread frames.
- TimingCampaign, StartGate, TimingTransport: two workers or groups, one
  disturbance; groups that pass the pacer and, as in priming, a group that does
  not; a request timeout and none; `MaxFlips` bounds readiness changes,
  `ControlLimit` the control queue, which fills.  One fault repeats a barrier of
  TimingCampaign but never uses up the recovery allowance.  `MaxUint` is a word that a refused plan overflows.
- OutlierRun: two candidates, two advances and one fault; thresholds that two
  agreeing comparisons reach.
- CommandRun, DetectRun: nine and five command lines that between them take
  every branch of planning and completion; one or two failures each.
- Program: scenarios for each refused flag, limits at and past their edges, a
  quota store that overflows, a relay with queue depth 1; command lines that
  are refused at each check, fan, clash or meet changing files.

`CHECK_DEADLOCK FALSE` stands where everything may be over: all groups ended,
the run closed, the connection disposed of.

### Fairness

Goroutines keep running: weak fairness of a goroutine's steps, or of all of
them together where that is enough (TrialStream, StartGate, TimingTransport,
OutlierRun).  The receive of a pool token is strongly fair, because the runtime
serves the waiters of a channel in FIFO order.  Attempts, pings and dials of
the pool end: the caller bounds them by its context or `WithBatchTimeout`.  A
lease holder closes its lease, as `Acquire` requires.  In PaceScheduler time
passes.  In TrialStream and TimingCampaign the consumer's loop body returns.
In BodyRelease the peer resumes reading: no write deadline is set, so without
that assumption a send need not return (see below).  BatchAttempt assumes
nothing of the peer, only that a write ends.

In StartGate, TimingTransport and OutlierRun the timers and workers that the
code starts do fire and return.  A timer exists only where there is a limit:
`budget.go:36`, `campaign_gate.go:112` and `acquisition.go:23` start none for a
request timeout of zero.  Nothing is assumed then of the peer or of a user who
might cancel, and no write is assumed to end.  So GroupsEnd says of a group
that never ends that it has no timeout, is not cancelled, and waits for its
peer: for credit, for a prefix to be taken or for an answer (`MayWait`).
EverythingReturns promises the end of an acquisition or an exchange that has a
timeout, is cancelled or has lost its connection.
CommandRun, DetectRun and Program have safety properties only.

## Proofs

Eight modules hold theorems.  Each holds for every value of the constants that
satisfies the module's assumption; no bound of a `.cfg` is used.

| module | theorem | shows |
|---|---|---|
| OriginPoolProofs | `PoolTypeCorrect`, `SlotsConserved`, `ConnectionsBounded` | TypeOK, TokensConserved, ConnectionBound |
| | `PoolImplementsPromise` | PoolRefinement: the pool implements ConnectionPool |
| TrialStreamProofs | `RunReleased` | ReleasedOnReturn |
| | `StreamTypeCorrect`, `YieldsPrimedOnce`, `RunComplete` | TypeOK, PrimedThenOnce, CompleteOrExplained |
| BatchAttemptProofs | `BatchTypeCorrect`, `RanksHold`, `Isolated` | TypeOK, RanksFollowWire, BatchesIsolated |
| StartGateProofs | `GatesHoldAlways`, `ExplainedAlways` | GatesHold, Explained |
| TimingCampaignProofs | `PrimedBeforeMeasured`, `ResultHonest` | MeasuredOnPrimed, HonestResult |
| OutlierRunProofs | `FoldedInOrder`, `RepliesEarned` | FoldedInDispatchOrder, RepliesAccount |
| CommandRunProofs | `CompletionNamed`, `WholeCyclesKept` | CompletionNamesCause, WholeCyclesOnly |
| ProgramProofs | `OverrunsOverlapHolds`, `WithinLimitsHolds` | OverrunsOverlap, WithinLimits |
| | `RelayFaithfulHolds` | RelayFaithful |

The assumptions: the pool's limit is positive, its callers are finitely many and
the nil connection is none (`PoolAssumption`); a run has at least one worker and
one trial (`TrialAssumption`); every batch has a request (`BatchAssumption`); a
group of requests has a member and shares none with another (`GateAssumption`);
a timing plan is one that `Resolve` accepts (`CampaignAssumption`); an outlier
run has callers, positive budgets, and solvers over a population and thresholds
that are positive (`RunAssumption`, `SolverAssumption`); a command line names
race, measure or analyse and its request lists have lengths
(`CommandAssumption`); the store of
the demo server holds something, its calibration takes samples and durations
are integers (`DemoAssumption`, `ScenarioAssumption`), the relay's queue has room
and its bounds are naturals (`RelayAssumption`), and a utility command is neither
a request nor the server (`UtilityAssumption`).

**Slots of the pool.**  The inductive invariant is
`SlotInv == TypeOK /\ TokensConserved /\ ConnectionBound /\ HasConn`.  None of
its parts is inductive alone: the range of `tokens` follows from conservation,
and `ConnectionBound` needs it in `takeIdle`, where a caller that finds the
list empty begins to occupy a slot that nothing in the list pays for.  At that
moment the bound holds because every occupant holds a token.  `putIdle` is the
opposite case, one more in the list for one occupant fewer.  `MoveCounts` says
how a move of one caller changes the sets that are counted, `MoveKeepsSlots`
and `StayKeepsSlots` reduce every action to a weight balance.

**The pool implements its promise.**  `OwnerInv` says that a connection has one
owner (the idle list, the caller it is checked out to, the caller that found it
expired or the closer that took it), that owned and marked connections exist,
and that what `putIdle` may still pool was not there when
`CloseIdleConnections` last ran: a caller whose epoch is current holds an
unmarked connection.  Under it every action is a step of ConnectionPool or
changes none of its variables (`QuietStep`).  Only the safety part is promised.

**Release of a run.**  `RunInv` orders the end of `All`: a worker that has left
holds no connection, the channel is closed only when every worker has left, and
`All` returns only from a closed and empty channel.

**Delivery of a run.**  The properties speak of what the consumer got, but the
trials still in the channel are already decided.  So the invariant is about
`Delivered`, what was yielded and, while the consumer ranges, what it will get:
`Primed` and `Once` state the property of that sequence, `Counted` ties a
worker's count of priming batches to it, `Complete` says that every trial of a
drawn block is delivered or in work unless the run was disturbed, and `EndInv`
says why it ended.  `InStep` and `SharedInv` give each worker a block and a
connection of its own.

**Batches on one connection.**  `Shares` accounts for every stream of the batch
under way: results taken plus results waiting are the collectors that are done.
`Addressed` relates frames to the active batch: no frame on the wire or in the
pump is of a stream that was not sent, and while a batch is being set up the
peer has nothing of it.  `Ranks` extends RanksFollowWire to headers that are
still on the wire or between dispatch and delivery, which come after every
ranked one.  `Verdicts` says what a result proves about its stream (`Accepted`:
ended by the peer, given a number, not reset, forgotten by the pump or about to
be) and carries that to earlier batches.  `Ends` has the cancellations: a pump
that waits for a collector waits in the batch under way, because a batch cannot
return while one of its collectors is awaited (`SelectStep`), and so the cause
that fails a pump is never a mere return.

**Gates.**  GatesHold is an action property with an invariant: which group opens
is decided in the step, so `OpensValidated` shows that a gate opens only where
`Validated` holds and `OpensTogether` that all members then wait at it, which
`Gated` says of a group whose gate is closed.  `Counted` relates the
coordinator's count of prefixes to its senders, `Gated` the gates to what
senders have done, `Blamed` the first cause to the failures.  The sets of senders of two groups are disjoint, so a step of
one group or sender leaves the others alone (`Only`).

**A timing campaign.**  `Fit` says for each place of a worker what it holds and
what of it is primed; `Announced` says that the consumer was told of a phase
before anyone works in the next.  Each step of a worker has one of seven effects
on the accounts (`Calm`, `Replaces`, `Dials`, `Reports`, `Takes`, `Disposes`,
`Closes`), and the second half of the module adds those up: `UnitsOwned` (published
indices are an initial part of each unit), `TrialsCounted`, `CyclesCounted`
(cycles that are counted and not open, with the complete trials of open ones
pending) and `ConnectionsBalance` (acquired is closed plus owed).  `Ended` turns
them into the result.

**An outlier run.**  `Tickets` says that the comparisons between dispatch and
fold, wherever they are (a goroutine, the channel, the wave or the buffer), carry
the indices from `done` to `launched`, each once.  From that follow the order of
the folds, the bound by the window, and that a complete wave is all there is.
`Accounted` balances the comparisons that the channel completed against the
folded, the discarded and the waiting ones, and says when that balance may be
given up: in a reply that can only be an error.  `Caused` gives each cancelled
outcome, each cancellation and each drain its reason, so that an induced
cancellation is never the lowest failure without an outer cause.  `Weighed`
bounds clean evidence by clean wins: a wave moves an item by at most one, and
only if one of its outcomes observed it against controls (`ApplyMoves`).

**A command.**  `Control` follows the cause of the end from the event to the
report: `CauseKept` who cancelled the live phase, `Stopped` what cancelled the
drive, `Ended` how the stream's error relates to either, and `Framed` which
records stand where.  None is inductive without the others: a stream that ends
"canceled" is an interrupt only because a drive cancelled by the command has left
a failure.  `Tallied` says that a measurement agrees with itself, so that the
reconciliation cannot replace the completion, and `Told` what a finished run says.
For the matrices, `Counted` compares the measurement with the log of its trials:
a cycle holds one trial for each of its first shifts, in place, and has counted
them (`CycleCounts`), and what was closed has given exactly the trials of whole
cycles (`ClosedCounts`).  A whole cycle puts each request once at each position
because its base is a permutation and its shifts are all different
(`PermsOnto`, `ShiftsApart`); `CycleGrows` and `CloseCounts` are the two steps.

**The demo server.**  `ProgramInv` says that only the demo-server command has
handlers, a store or a relay, and `DemoInv` what holds of them.  `Calibrated`
carries the rounding of `iterationsFor` from start-up to the handlers: the work
limit is rounded down and the quota target up, so a comparison of products
holds for every benchmark.  `CallOk` says for each handler what its place proves
about its request; `Counted`, that no two receipts of a quota have the same number
and that each number is below the counter, so that the request which arrived
after an answer finds the counter at its limit.  `Listed` keeps index and list of
the store in step, and `Followed` strengthens StoreBounded to positions: behind
an entry's place in the list are as many quotas that were used since it was, so
the entry that eviction drops has been followed by a whole store.  `RelayInv`
numbers what is between the reader and the copier of a direction and says that
the age of a chunk and its remaining wait cover the delay.

Only model-checked:

- liveness (CallsReturn, WaitsEnd, AllReturns, CancelledEnds, SendReturns,
  RunReturns, GroupsEnd, EverythingReturns), which is beyond the prover;
- SpacedStarts, an action property over clocks, the invariants of
  BodyRelease, TimingTransport and DetectRun, AccountsBalance of CommandRun, and
  SnapshotShared and RequestsAsTyped of Program.  CreditConserved sums the
  frames in flight with a fold, of which the installed provers know nothing by
  induction; the products AccountsBalance compares (`checkedProduct`) are such a
  fold too, and only the bounds of a run say that the counts of a priming fit in
  an integer; the request blocks are recursive in their text.

## Where comments and code differ

None of these is a property of a run; each was met while translating the line.

- `transport.go:460` argues that reused connections "drain within a bounded
  number of iterations".  Other callers refill the list with connections that
  fail later, and the loop (489) has no counter: with unlimited peer faults
  `CallsReturn` does not hold.
- `trialstream.go:289`: Err is "nil if the run ended because the consumer
  stopped iterating".  A worker that meets the stream limit then calls `abort`
  (701) without looking at stopping.
- `trialstream.go:128`: "Trials completed before a terminal failure remain
  available".  `emit` (447) chooses between the channel and the closed stop
  channel, and must drop the trial when the channel is full.
- `connection_owner.go:36`: after a local termination the trial driver "must
  not repeat the failed batch".  A timeout between the pacing wait and the
  header flush leaves `HeadersSentAt` zero, and `sendTrial` (654) repeats it.
- `transport.go:59` counts sockets, but `CloseIdleConnections` closes after it
  has unlocked, so a caller may dial while the old sockets are open.
- `transport.go:453` says that StreamErrors propagate; one met while sending on
  a reused connection is retried (489).
- `doc.go:181` says that the first cause is returned; `readResponses` lets a
  fatal error outrank an earlier reset (`conn.go:1838-1843`).
- `conn.go:178-181` (reserve) and `846-848` promise not to write a stream whose
  window does not allow it.  A record paid for under the old window may be
  flushed after the pump has acknowledged SETTINGS that shrink it, so the peer
  can see a stream window overrun; the connection window cannot be.
- `conn.go:46`: "The caller's context bounds all other waiting".  A flush
  blocked by the peer's TCP window is not bounded by it: no write deadline is
  set, and the write lock is held meanwhile.
- `measurement.go:163` counts a trial as attempted before it is validated; a
  status outside 100..999 then fails the run as an internal error, and the
  accounts no longer pass `validateMeasureExecution`, so the stream has no
  terminal record, against `measurement.go:221-224` and `run_timeout.go:69-70`.
- `completion_state.go:44-46` speaks of the parent's cancellation only; measure
  and detect pass the live context.
- An interrupt after the last trial ends analyse with status 0 and race and
  measure with 1, and the success path of detect does not look for one.
- `curlblocks/doc.go:81-84` says a file is read once.  A `-d TOKEN` whose value
  begins with `@` is read again for each variant; SnapshotShared is about paths
  that are named as typed.

## Not modelled

- Numbers: `stats`, the wealth processes and Thompson draws of the solvers.
- Text: the wording and columns of reports, JSON field layout, help, schemas,
  completion and the token scan of `--silent`.  CommandRun treats a text
  report like the structured stream.
- `tth2`: the map of origins, TLS, HPACK, padding, the progress meter, the
  tally matrices; informational headers, trailers and DATA frames in the middle
  of a body; truncated cycles (a cycle of one trial in the run).
- `internal/timing`: distinct priming sets per request, capture of response
  bytes, the semaphore on simultaneous dials, and which of a dial's, a
  set-up's or a priming's errors a worker reports (`DialOk`, `DialFail`).
- `internal/curlblocks`: alphabetic ranges, `filename` and `type` of a form
  part, custom value types, completion.
- `cmd/tturl`: the Windows start-up check of time, the framing rules of
  `ValidateRequest` (a time request that is not refused for its scheme may be
  refused for its framing), the explicit check of `--cycles 0`, response
  captures, with the error `captureTrialRecord` may return to race, and body
  differences.  CompletionNamesCause ranks only failures of the stream against
  the interrupt and the deadline, not those of the sink or the evidence.  DetectRun skips the path fit and report
  writes, which CommandRun has, and lets ranks follow positions.
- `internal/h2tls`, `termline`, `buildinfo`, `h2test`, `tools`.

## Plan

1. Prove the spacing half of `SpacedStarts` from an invariant that relates the
   selection, the clocks and the loop.
2. Prove `LeasesReturned` of DetectRun and `AccountsBalance` of CommandRun.
3. State send credit without a fold, so that `CreditConserved` can be proved:
   the frames in flight carry the difference between the two accounts.
4. Informational headers and trailers in BatchAttempt; cycles of two in
   TrialStream if the state space allows.
