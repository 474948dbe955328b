------------------------------ MODULE DetectRun ------------------------------
(***************************************************************************)
(* One detect command from its parsed command line to its exit status:     *)
(* the plan, the live phase, the leased comparator whose workers each own  *)
(* one connection (comparator.go), the solver that keeps several           *)
(* comparisons in flight (abstracted from OutlierRun.tla), the evidence    *)
(* and the terminal record (detect_command.go).                            *)
(*                                                                         *)
(* Any number of comparisons up to the window run at once, each taking a   *)
(* worker from the channel.  A send completes, loses its connection, keeps *)
(* it after a stream error, meets a configured limit, or is cancelled; the *)
(* user may interrupt and the deadline may fire between any two steps.     *)
(***************************************************************************)
EXTENDS DetectPlan

CONSTANTS Configs,    \* command lines, each with its bounds: faults (sends and acquisitions
                      \* that fail by themselves) and odd (responses whose status is not 200)
          MaxLaunch   \* bound: comparisons of an unlimited run

VARIABLES
  cfg,      \* the command line
  plan,     \* what it resolved to
  pc,       \* where the command is
  parent,   \* "live" or "cancelled"
  timer,    \* "off", "armed", "fired"
  cause,    \* context.Cause of the live context
  solver,   \* [base, launched, sawErr, cancelled, outcome, err]
  calls,    \* comparisons in flight and returned, in dispatch order
  free,     \* the workers channel, a FIFO
  workers,  \* detectLeaseWorker: [lease, primed, replacement, failed]
  fatal,    \* comparator.fatal
  leases,   \* ConnLease states, by connection
  evidence, \* the collector
  bound,    \* what the bounds have let happen: faults, odd
  boundary, \* the cause live.finish returned
  out,      \* [exit, completion, json, record, outcome, review]
  log       \* history: completed priming sends by connection, measured sends

vars == <<cfg, plan, pc, parent, timer, cause, solver, calls, free, workers, fatal,
          leases, evidence, bound, boundary, out, log>>
comparing == <<calls, free, workers, fatal, leases, evidence, bound, log>>

NoCompletion == [state |-> "none", code |-> "none"]
Worker == [lease |-> 0, primed |-> FALSE, replacement |-> FALSE, failed |-> "none"]

Init ==
  /\ cfg \in Configs
  /\ plan = <<>> /\ pc = "plan"
  /\ parent = "live" /\ timer = "off" /\ cause = "none"
  /\ solver = [base |-> 0, launched |-> 0, sawErr |-> FALSE, cancelled |-> FALSE,
               outcome |-> "none", err |-> "none"]
  /\ calls = <<>> /\ free = <<>> /\ workers = <<>> /\ fatal = "none" /\ leases = <<>>
  /\ evidence = <<>> /\ bound = [faults |-> 0, odd |-> 0] /\ boundary = "none"
  /\ out = [exit |-> -1, completion |-> NoCompletion, record |-> "none", outcome |-> "none",
            json |-> NoCompletion, review |-> {}]
  /\ log = [primes |-> <<>>, measured |-> {}]

-----------------------------------------------------------------------------
(* Planning.                                                               *)

Usage == /\ pc' = "done" /\ out' = [out EXCEPT !.exit = 2]

\* Everything a usage error may reject before a connection is opened.
Plan ==
  /\ pc = "plan"
  /\ LET m        == materialise(cfg.blocks)
         p        == parseDetect(cfg.flags)
         requests == newDetectRequestPlan(m.a.groups, p.width)
         strategy == resolveDetectStrategy(cfg.strategy, p.direction, requests.baselineTemplates > 0)
         limits   == detectWorkLimits(p.comparisonsMax, requests.widthEffective)
         t        == transportTuning(cfg.tuning)
         active   == activeBatchWidth(m, requests.widthEffective, cfg.warmup)
         fitted   == fitPipeline(t, requests.widthEffective, active, limits.pipeline, TRUE, 0)
         priming  == detectPrimingWork(cfg.warmup, Len(m.warmupReqs), fitted.connectionLimit)
         bad == \/ p.err # "none" \/ resolveRoles(cfg.blocks, cfg.warmup) # "none"
                \/ cfg.warmup > 0 /\ m.warmupReqs = <<>>
                \/ requests.err # "none" \/ strategy.err # "none" \/ ~limits.ok
                \/ t.err # "none" \/ ~priming.ok
     IN IF bad THEN Usage /\ UNCHANGED plan
        ELSE IF fitted.err # "none"
        THEN /\ pc' = "done" /\ out' = [out EXCEPT !.exit = 1] /\ UNCHANGED plan
        ELSE /\ plan' = [candidates |-> requests.candidates, width |-> requests.widthEffective,
                         baselines |-> [i \in DOMAIN m.baselineTemplates |->
                                          SupplyOf(m.baselineTemplates[i])],
                         warmupWidth |-> Len(m.warmupReqs), conns |-> fitted.connectionLimit,
                         maximum |-> p.comparisonsMax,
                         limit |-> outlierComparisonLimit(p.comparisonsMax, requests.widthEffective),
                         window |-> detectInFlightComparisonLimit(fitted.connectionLimit,
                                      p.comparisonsMax, requests.widthEffective),
                         rolling |-> rolling(strategy.resolved), strategy |-> strategy.resolved,
                         direction |-> p.direction,
                         tuning |-> fitted, priming |-> priming.maximum, requests |-> m]
             /\ pc' = "report" /\ UNCHANGED out
  /\ UNCHANGED <<cfg, parent, timer, cause, solver, comparing, boundary>>

\* The run record and its request catalogue, then newLeasedDetectComparator and
\* initWorkers.  A record the plan does not bear out is refused; writes that
\* fail are CommandRun's.
Report ==
  /\ pc = "report"
  /\ LET all   == allRequests(plan.requests)
         roles == [i \in DOMAIN all |->
                     IF i <= plan.candidates THEN "candidate"
                     ELSE IF i <= plan.candidates + Len(plan.baselines) THEN "baseline" ELSE "warmup"]
         sound == makeStructuredDelivery(plan.tuning, plan.width) /\ validateDetectJSONPlan(
                    [requests |-> Len(all), requestCount |-> Len(plan.requests.a.labels),
                     candidates |-> plan.candidates, baselines |-> Len(plan.baselines),
                     requested |-> cfg.strategy, resolved |-> plan.strategy,
                     direction |-> plan.direction, inFlight |-> plan.window,
                     connections |-> plan.conns, deliveryConns |-> plan.conns,
                     roles |-> roles, padding |-> plan.width, width |-> plan.width])
     IN IF cfg.json /\ ~sound
        THEN /\ pc' = "done" /\ out' = [out EXCEPT !.exit = 1]
             /\ UNCHANGED <<timer, cause, free, workers, evidence>>
        ELSE /\ pc' = "identify"
             /\ timer' = IF cfg.timeout THEN "armed" ELSE "off"
             /\ cause' = IF parent = "cancelled" THEN "canceled" ELSE "none"
             /\ workers' = [i \in 1..plan.conns |-> Worker]
             /\ free' = [i \in 1..plan.conns |-> i]
             /\ evidence' = newDetectEvidenceCollector(plan.candidates, Len(plan.baselines))
             /\ UNCHANGED out
  /\ UNCHANGED <<cfg, plan, parent, solver, calls, fatal, leases, bound, boundary, log>>

Interrupt ==
  /\ parent = "live" /\ pc # "done"
  /\ parent' = "cancelled"
  /\ cause' = IF pc \in {"plan", "report"} \/ cause # "none" \/ timer = "stopped" THEN cause ELSE "canceled"
  /\ UNCHANGED <<cfg, plan, pc, timer, solver, comparing, boundary, out>>

Deadline ==
  /\ timer = "armed"
  /\ timer' = "fired" /\ cause' = IF cause = "none" THEN "timeout" ELSE cause
  /\ UNCHANGED <<cfg, plan, pc, parent, solver, comparing, boundary, out>>

-----------------------------------------------------------------------------
(* The solver, as OutlierRun.tla allows it to behave.                      *)

LiveError == CASE cause = "timeout" -> "deadline" [] cause = "canceled" -> "canceled" [] OTHER -> "none"

Returned(c) == calls[c].pc = "returned"
AllReturned == \A c \in DOMAIN calls : Returned(c)
AllOk       == \A c \in DOMAIN calls : Returned(c) /\ calls[c].err = "none"

\* The contiguous dispatch prefix that has returned a ranking.
Folded == Max({n \in 0..Len(calls) : \A c \in 1..n : Returned(c) /\ calls[c].err = "none"})

Limit == Min({plan.limit, IF plan.maximum < 0 THEN MaxLaunch ELSE plan.limit})

\* The items a comparison asks for: candidates, and controls by index.
Asks ==
  LET controls == IF plan.baselines = <<>> THEN 0
                  ELSE IF plan.baselines[1] < 0 THEN plan.width - 1
                  ELSE Min({plan.width - 1, Sum(plan.baselines)})
  IN {s \in [1..plan.width -> {<<"candidate", i>> : i \in 0..(plan.candidates - 1)}
                                \union {<<"control", i>> : i \in 0..(controls - 1)}] :
        /\ \A i, j \in 1..plan.width : i < j =>
             /\ s[i] # s[j]
             /\ s[i][1] = "control" => s[j][1] = "control"
             /\ s[i][1] = s[j][1] => s[i][2] < s[j][2]
        /\ s[1][1] = "candidate"
        \* Controls are used from the first one on.
        /\ \A i \in 1..plan.width : s[i][1] = "control" =>
             s[i][2] = Cardinality({j \in 1..i : s[j][1] = "control"}) - 1}

\* A wave starts whole; a rolling run fills its window while nothing is wrong.
Launch ==
  /\ pc = "identify" /\ solver.outcome = "none" /\ solver.err = "none"
  /\ IF plan.rolling
     THEN /\ solver.launched < Limit /\ solver.launched - Folded < plan.window
          /\ ~solver.sawErr /\ ~solver.cancelled /\ cause = "none"
     ELSE /\ solver.launched < Min({solver.base + plan.window, Limit})
          /\ solver.launched = solver.base => cause = "none"
  /\ \E items \in Asks :
       calls' = Append(calls, [pc |-> "queued", worker |-> 0, items |-> items,
                               attempt |-> 0, err |-> "none"])
  /\ solver' = [solver EXCEPT !.launched = @ + 1]
  /\ UNCHANGED <<cfg, plan, pc, parent, timer, cause, free, workers, fatal, leases, evidence,
                 bound, boundary, out, log>>

\* A returned error is received and cancels the advance.
SeeError ==
  /\ pc = "identify" /\ solver.outcome = "none" /\ ~solver.sawErr
  /\ \E c \in DOMAIN calls : Returned(c) /\ calls[c].err # "none"
  /\ solver' = [solver EXCEPT !.sawErr = TRUE, !.cancelled = TRUE]
  /\ UNCHANGED <<cfg, plan, pc, parent, timer, cause, comparing, boundary, out>>

WaveOver == solver.launched = Min({solver.base + plan.window, Limit}) /\ solver.launched > solver.base

NextWave ==
  /\ pc = "identify" /\ ~plan.rolling /\ solver.outcome = "none"
  /\ WaveOver /\ AllOk /\ cause = "none" /\ solver.launched < Limit
  /\ solver' = [solver EXCEPT !.base = solver.launched]
  /\ UNCHANGED <<cfg, plan, pc, parent, timer, cause, comparing, boundary, out>>

\* Enough evidence: a whole wave, or a folded prefix of a rolling run, which
\* cancels the rest of its window.
Decide ==
  /\ pc = "identify" /\ solver.outcome = "none" /\ ~solver.sawErr
  /\ IF plan.rolling THEN Folded > 0 ELSE WaveOver /\ AllOk /\ cause = "none"
  /\ \E outcome \in {"found", "negative"} :
       solver' = [solver EXCEPT !.outcome = outcome, !.cancelled = TRUE]
  /\ UNCHANGED <<cfg, plan, pc, parent, timer, cause, comparing, boundary, out>>

\* Failure: a real one before a cancellation, the earliest dispatched first.
Failure ==
  LET failed == {c \in DOMAIN calls : calls[c].err # "none"}
      real   == {c \in failed : calls[c].err \notin {"canceled", "deadline"}}
  IN IF real # {} THEN calls[Min(real)].err ELSE IF failed # {} THEN calls[Min(failed)].err ELSE "none"

\* Identify joins every comparison.  Without a decision it ran out of budget,
\* failed, or was cancelled.
IdentifyReturns ==
  /\ pc = "identify" /\ AllReturned
  /\ \/ solver.outcome # "none" \/ solver.sawErr \/ cause # "none"
     \/ solver.launched = Limit
  /\ solver.launched > solver.base => plan.rolling \/ WaveOver

Identify ==
  /\ IdentifyReturns
  /\ LET err == IF cause # "none" THEN LiveError
                ELSE IF solver.outcome = "none" THEN Failure ELSE "none"
     IN solver' = IF solver.outcome = "found" THEN solver
                  ELSE IF err # "none" THEN [solver EXCEPT !.err = err, !.outcome = "none"]
                  ELSE [solver EXCEPT !.outcome = IF @ = "none" THEN "inconclusive" ELSE @]
  /\ pc' = "close"
  /\ UNCHANGED <<cfg, plan, parent, timer, cause, comparing, boundary, out>>

-----------------------------------------------------------------------------
(* One comparison: leasedDetectComparator.compare.                         *)

CtxDone == cause # "none" \/ solver.cancelled
CtxErr  == IF cause # "none" THEN LiveError ELSE "canceled"

Frame == UNCHANGED <<cfg, plan, pc, parent, timer, cause, solver, boundary, out>>

Go(c, next) == calls' = [calls EXCEPT ![c].pc = next]

\* resolveItem: a ref for every item, or the comparator's own error.
resolveItem(item) ==
  IF item[1] = "candidate"
  THEN [role |-> "candidate", index |-> item[2], ok |-> item[2] < plan.candidates]
  ELSE LET template == baselineTemplateIndex(plan.baselines, item[2])
       IN [role |-> "baseline", index |-> template - 1, ok |-> template > 0]

Refs(c) == [p \in DOMAIN calls[c].items |->
              [role |-> resolveItem(calls[c].items[p]).role,
               index |-> resolveItem(calls[c].items[p]).index]]

\* The worker goes back to the end of the channel whatever happened.
Finish(c, err) ==
  /\ calls' = [calls EXCEPT ![c].pc = "returned", ![c].err = err]
  /\ free' = Append(free, calls[c].worker)

\* worker.failed = err
Failing(w, err) == [workers EXCEPT ![w].failed = err]

FinishFailed(c, err) ==
  /\ Finish(c, err)
  /\ workers' = Failing(calls[c].worker, err)

\* The request set is resolved before a worker is waited for.  Then the worker's
\* failure, the comparator's fatal error, and whether priming is due; only the
\* fatal error can change between the receive and these checks, and the step
\* stands for the later moment.
TakeWorker(c) ==
  /\ calls[c].pc = "queued"
  /\ IF \E p \in DOMAIN calls[c].items : ~resolveItem(calls[c].items[p]).ok
     THEN /\ calls' = [calls EXCEPT ![c].pc = "returned", ![c].err = "comparator_item"]
          /\ UNCHANGED <<free, workers>>
     ELSE \/ /\ CtxDone
             /\ calls' = [calls EXCEPT ![c].pc = "returned", ![c].err = CtxErr]
             /\ UNCHANGED <<free, workers>>
          \/ /\ free # <<>>
             /\ LET w == Head(free)
                    err == IF workers[w].failed # "none" THEN workers[w].failed ELSE fatal
                IN /\ workers' = IF err # "none" THEN Failing(w, err) ELSE workers
                   /\ free' = IF err # "none" THEN Append(Tail(free), w) ELSE Tail(free)
                   /\ calls' = [calls EXCEPT ![c].worker = w, ![c].err = err,
                                  ![c].pc = IF err # "none" THEN "returned"
                                            ELSE IF workers[w].primed THEN "send" ELSE "acquire"]
  /\ UNCHANGED <<fatal, leases, evidence, bound, log>> /\ Frame

\* acquireWorker: a slot of the origin's pool and a live connection.
Acquire(c) ==
  /\ calls[c].pc = "acquire"
  /\ LET w == calls[c].worker
         held == Cardinality({l \in DOMAIN leases : leases[l] = "active"})
         conn == Len(leases) + 1
     IN \/ /\ held < plan.conns
           /\ leases' = Append(leases, "active")
           /\ workers' = [workers EXCEPT ![w].lease = conn,
                                         ![w].primed = (cfg.warmup = 0)]
           /\ evidence' = connectionAcquired(evidence, conn, workers[w].replacement)
           /\ log' = [log EXCEPT !.primes = Append(@, 0)]
           /\ calls' = [calls EXCEPT ![c].pc = IF cfg.warmup = 0 THEN "send" ELSE "prime",
                                     ![c].attempt = 1]
           /\ UNCHANGED <<free, fatal, bound>>
        \/ /\ CtxDone \/ bound.faults < cfg.faults
           /\ LET err == IF CtxDone THEN CtxErr ELSE "dial" IN FinishFailed(c, err)
           /\ bound' = IF CtxDone THEN bound ELSE [bound EXCEPT !.faults = @ + 1]
           /\ evidence' = acquisitionFailed(evidence, w, workers[w].replacement)
           /\ UNCHANGED <<fatal, leases, log>>
  /\ Frame

\* What a send on a leased connection came to: [err, lease].  A configured limit,
\* a cancelled send and a lost connection invalidate the lease, a stream error
\* does not.
Sends ==
  {[err |-> "none", lease |-> "active"]}
    \union (IF CtxDone THEN {[err |-> CtxErr, lease |-> "invalid"]} ELSE {})
    \union (IF bound.faults = cfg.faults THEN {}
            ELSE {[err |-> "stream", lease |-> "active"], [err |-> "lost", lease |-> "invalid"],
                  [err |-> "limit", lease |-> "invalid"]})

Fault(s) == s.err \in {"stream", "lost", "limit"}

\* A worker replaces a connection lost in priming once.
MayReplace(w) == ~workers[w].replacement

\* A replacement is primed from the first attempt again.
Restart(attempt) == 1

\* ensurePrimed, one attempt.  classifyBatchFailure makes a limit fatal to the
\* whole comparator; another worker's fatal error stops this one too.
Prime(c) ==
  /\ calls[c].pc = "prime"
  /\ LET w == calls[c].worker
         conn == workers[w].lease
         attempt == calls[c].attempt
     IN \E s \in Sends :
        LET limit == s.err = "limit"
            stop  == IF limit THEN "limit" ELSE fatal
            lost  == s.err # "none" /\ s.lease # "active"
        IN /\ bound' = [bound EXCEPT !.faults = @ + (IF Fault(s) THEN 1 ELSE 0)]
           /\ evidence' = primingAttempt(evidence,
                            [worker |-> w, attempt |-> attempt, conn |-> conn,
                             replacement |-> workers[w].replacement, complete |-> s.err = "none"])
           /\ log' = [log EXCEPT !.primes[conn] = @ + 1]
           /\ fatal' = IF limit /\ fatal = "none" THEN "limit" ELSE fatal
           /\ leases' = [leases EXCEPT ![conn] = s.lease]
           /\ CASE stop # "none" -> FinishFailed(c, stop)
                [] stop = "none" /\ ~lost ->
                     /\ calls' = [calls EXCEPT ![c].attempt = @ + 1,
                                    ![c].pc = IF attempt = cfg.warmup THEN "send" ELSE "prime"]
                     /\ workers' = [workers EXCEPT ![w].primed = (attempt = cfg.warmup)]
                     /\ UNCHANGED free
                [] stop = "none" /\ lost /\ MayReplace(w) ->
                     /\ workers' = [workers EXCEPT ![w].replacement = TRUE]
                     /\ Go(c, "replace") /\ UNCHANGED free
                [] OTHER -> FinishFailed(c, s.err)
  /\ Frame

\* acquireWorker again, then the attempts start over.
Replace(c) ==
  /\ calls[c].pc = "replace"
  /\ LET w == calls[c].worker
         held == Cardinality({l \in DOMAIN leases : leases[l] = "active"})
         conn == Len(leases) + 1
     IN \/ /\ held < plan.conns
           /\ leases' = Append(leases, "active")
           /\ workers' = [workers EXCEPT ![w].lease = conn]
           /\ evidence' = connectionAcquired(evidence, conn, TRUE)
           /\ log' = [log EXCEPT !.primes = Append(@, 0)]
           /\ calls' = [calls EXCEPT ![c].pc = "prime", ![c].attempt = Restart(@)]
           /\ UNCHANGED <<free, fatal, bound>>
        \/ /\ CtxDone \/ bound.faults < cfg.faults
           /\ LET err == IF CtxDone THEN CtxErr ELSE "dial" IN FinishFailed(c, err)
           /\ bound' = IF CtxDone THEN bound ELSE [bound EXCEPT !.faults = @ + 1]
           /\ evidence' = acquisitionFailed(evidence, w, TRUE)
           /\ UNCHANGED <<fatal, leases, log>>
  /\ Frame

\* The measured positions' ranks and statuses.  Ranks reach the solver and the
\* rank sums only, so they follow the positions here.
Arrivals(n) ==
  {[p \in 1..n |-> [rank |-> p - 1, status |-> s[p]]] :
     s \in {f \in [1..n -> {200, 500}] :
              Cardinality({p \in 1..n : f[p] = 500}) <= cfg.odd - bound.odd}}

\* The evidence of one comparison: its results, or its failure.
Observe(c, s, results) ==
  IF s.err = "none"
  THEN observeResolved(evidence, Refs(c), workers[calls[c].worker].lease, results)
  ELSE comparisonFailed(evidence, c, calls[c].worker, workers[calls[c].worker].lease,
                        Refs(c), s.err)

\* The measured send.  A lease already invalid fails at once.
Send(c) ==
  /\ calls[c].pc = "send"
  /\ LET w == calls[c].worker
         conn == workers[w].lease
         sends == IF leases[conn] = "active" THEN Sends ELSE {[err |-> "lost", lease |-> leases[conn]]}
     IN \E s \in sends : \E results \in Arrivals(plan.width) :
        /\ s.err # "none" => results = CHOOSE r \in Arrivals(plan.width) : TRUE
        /\ bound' = [bound EXCEPT !.faults = @ + (IF Fault(s) THEN 1 ELSE 0),
                       !.odd = @ + (IF s.err = "none"
                                    THEN Cardinality({p \in DOMAIN results : results[p].status = 500})
                                    ELSE 0)]
        /\ evidence' = Observe(c, s, results)
        /\ leases' = [leases EXCEPT ![conn] = s.lease]
        /\ fatal' = IF s.err = "limit" /\ fatal = "none" THEN "limit" ELSE fatal
        /\ log' = [log EXCEPT !.measured = @ \union
                     {[conn |-> conn, worker |-> w, primed |-> log.primes[conn], ok |-> s.err = "none",
                       n |-> Cardinality(log.measured) + 1]}]
        /\ IF s.err = "none" THEN Finish(c, "none") /\ UNCHANGED workers
           ELSE FinishFailed(c, s.err)
  /\ Frame

-----------------------------------------------------------------------------
(* The end of the command.                                                 *)

\* Mutant: only the connections that are still primed are given up.
Discarded_Primed == [l \in DOMAIN leases |->
  IF \E w \in DOMAIN workers : workers[w].lease = l /\ workers[w].primed THEN "closed" ELSE leases[l]]

\* Close discards every worker's lease.
Discarded == [l \in DOMAIN leases |->
  IF leases[l] = "active" /\ \E w \in DOMAIN workers : workers[w].lease = l THEN "closed" ELSE leases[l]]

\* Close, then live.finish.
CloseComparator ==
  /\ pc = "close"
  /\ leases' = Discarded
  /\ boundary' = cause
  /\ timer' = IF timer = "fired" THEN "fired" ELSE "stopped"
  /\ pc' = "settle"
  /\ UNCHANGED <<cfg, plan, parent, cause, solver, calls, free, workers, fatal, evidence,
                 bound, out, log>>

\* Mutant: outcomes a decision discarded are not counted as physical work.
SolverResult_Folded ==
  [outcome |-> solver.outcome, index |-> IF solver.outcome = "found" THEN 0 ELSE -1,
   items |-> plan.candidates, comparisons |-> Folded, participations |-> Folded * plan.width]

\* OutlierResult, with the cost RepliesAccount of OutlierRun.tla establishes.
SolverResult ==
  LET ok == {c \in DOMAIN calls : calls[c].err = "none"} IN
  [outcome |-> solver.outcome, index |-> IF solver.outcome = "found" THEN 0 ELSE -1,
   items |-> plan.candidates, comparisons |-> Cardinality(ok),
   participations |-> Cardinality(ok) * plan.width]

\* The completion of a failed run; the context asked is the live one, which
\* live.finish has cancelled unless the deadline had ended it.
failedCompletion(err) ==
  stopInterruptedRun(boundary # "timeout",
    liveRunFailed(err, boundary, detectComparisonFailureCode(err)))

\* The terminal record is written only when its accounts validate.
Record(r, completion, code) ==
  LET x == detectExecution(evidence, r, plan.conns, plan.warmupWidth)
      sound == /\ validateDetectExecution(x, plan.maximum)
               /\ r.outcome = "none" => completion.state # "complete"
  IN /\ pc' = "done"
     /\ out' = [exit |-> IF sound THEN code ELSE 1, completion |-> completion,
                record |-> IF sound THEN "result" ELSE "none", outcome |-> r.outcome,
                json |-> makeStructuredCompletion(completion, solver.err),
                review |-> reviewDetectResponses(evidence)]

Settle ==
  /\ pc = "settle"
  /\ CASE solver.err # "none" ->
            Record(unavailable(evidence), failedCompletion(solver.err), 1)
       [] solver.err = "none" /\ ~result(evidence, SolverResult) ->
            Record(unavailable(evidence), failedRun("inconsistent", "internal_error"), 1)
       [] OTHER ->
            LET completion == finaliseLiveCompletion(completedRun, boundary, "comparison_failed")
            IN Record(SolverResult, completion, IF completion.code = "run_timeout" THEN 1 ELSE 0)
  /\ UNCHANGED <<cfg, plan, parent, timer, cause, solver, comparing, boundary>>

Compare(c) == TakeWorker(c) \/ Acquire(c) \/ Prime(c) \/ Replace(c) \/ Send(c)

Finished == pc = "done" /\ UNCHANGED vars

Next ==
  \/ Plan \/ Report \/ Interrupt \/ Deadline
  \/ Launch \/ SeeError \/ NextWave \/ Decide \/ Identify
  \/ \E c \in DOMAIN calls : Compare(c)
  \/ CloseComparator \/ Settle \/ Finished

Spec == Init /\ [][Next]_vars

-----------------------------------------------------------------------------
(* Properties.                                                             *)

\* The first n controls use each baseline template as evenly as its supply
\* allows, and all controls use every template exactly as often as supplied.
ControlsShared ==
  pc = "report" /\ plan.baselines # <<>> =>
    \A n \in 0..(IF plan.baselines[1] < 0 THEN plan.width ELSE Sum(plan.baselines)) :
      LET Uses(t) == Cardinality({k \in 0..(n - 1) : baselineTemplateIndex(plan.baselines, k) = t})
          Spent(t) == plan.baselines[t] >= 0 /\ Uses(t) = plan.baselines[t]
          templates == DOMAIN plan.baselines
      IN /\ FoldSet(LAMBDA t, k : k + Uses(t), 0, templates) = n
         /\ \A t \in templates : plan.baselines[t] >= 0 => Uses(t) <= plan.baselines[t]
         /\ \A t, u \in templates : Uses(t) > Uses(u) + 1 => Spent(u)

\* A worker measures only on a connection it primed exactly --warmup times, and
\* never again once it failed; the priming work stays within the maximum the run
\* record announced, however connections are lost.
MeasuredOnPrimed ==
  /\ \A s \in log.measured : s.primed = cfg.warmup
  /\ \A s, t \in log.measured : ~s.ok /\ s.worker = t.worker => t.n <= s.n
  /\ pc \notin {"plan", "report"} /\ plan # <<>> =>
       Cardinality(evidence.priming) * plan.warmupWidth <= plan.priming

\* The completion names what ended the run: a concrete failure outranks the
\* deadline, the deadline is named only if it fired, and only an interrupted run
\* says interrupted.
CompletionNamed ==
  pc = "done" /\ out.record = "result" =>
    /\ Concrete(solver.err) => out.completion.code = detectComparisonFailureCode(solver.err)
    /\ out.completion.code = "run_timeout" => timer = "fired"
    /\ out.completion.code = "interrupted" => parent = "cancelled"
    /\ boundary = "none" /\ solver.err = "none" => out.completion = completedRun
    /\ out.json.state = "stopped" <=> out.completion.code = "interrupted"

\* The solver's cost and the collector's agree however many comparisons were in
\* flight when it decided, so a decision is always reported as available, a
\* terminal record is always written, its accounts stay within the comparison
\* maximum, and its response review says exactly whether the observed status
\* mixes are proportional; its completion names what ended the run.
DecisionsReported ==
  LET seen == {evidence.requests[i] : i \in DOMAIN evidence.requests}
                \union {evidence.baselines[i] : i \in DOMAIN evidence.baselines}
      At(r, s) == IF s \in DOMAIN r.statuses THEN r.statuses[s] ELSE 0
  IN pc = "done" /\ out.exit # 2 =>
       /\ out.record = "result"
       /\ CompletionNamed
       /\ out.outcome = solver.outcome
       /\ solver.outcome = "none" => out.completion.state # "complete"
       /\ plan.maximum > 0 => evidence.comparisons + Cardinality(evidence.failures) <= plan.maximum
       /\ out.review.different \union out.review.baselineDifferent # {} <=>
            \E l, r \in seen : \E s \in {200, 500} :
              At(l, s) * r.observations # At(r, s) * l.observations

\* Connections are used and returned as planned: a worker measures on what it
\* primed, is in the channel or with one comparison and shares its lease with no
\* other; no more connections are held than planned, and none once the comparator
\* was closed.
LeasesReturned ==
  LET held == {l \in DOMAIN leases : leases[l] = "active"} IN
  /\ MeasuredOnPrimed
  /\ \A w, v \in DOMAIN workers : w # v => workers[w].lease = 0 \/ workers[w].lease # workers[v].lease
  /\ \A w \in DOMAIN workers :
       Cardinality({i \in DOMAIN free : free[i] = w})
         + Cardinality({c \in DOMAIN calls : calls[c].worker = w /\ ~Returned(c)}) = 1
  /\ held \subseteq {workers[w].lease : w \in DOMAIN workers}
  /\ pc \in {"settle", "done"} => held = {}
=============================================================================
