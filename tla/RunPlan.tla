------------------------------- MODULE RunPlan -------------------------------
(***************************************************************************)
(* How a request command turns its parsed command line into a bounded      *)
(* workload: flags.go (tuning, trials), batch.go (request roles and order),*)
(* pipeline.go (connection fit), delivery.go (the plan a report shows) and *)
(* analyse_contract.go.  Pure operators; a rejected plan is a record whose *)
(* err field is not "none".  Times are ticks, Second of them to a second,  *)
(* and MaxInt stands for math.MaxInt.                                      *)
(***************************************************************************)
EXTENDS Integers, Sequences, SequencesExt, FiniteSetsExt

CONSTANTS MaxInt,            \* math.MaxInt
          Second,            \* ticks of time.Second
          ReviewConnections, \* automaticFitReviewMaximumConnections
          ReviewStreams,     \* automaticFitReviewMaximumStreams
          MaxOperations      \* analyseMaximumOperations

ASSUME PlanConstants ==
  /\ MaxInt \in Nat \ {0} /\ Second \in Nat \ {0}
  /\ ReviewConnections \in Nat /\ ReviewStreams \in Nat /\ MaxOperations \in Nat

-----------------------------------------------------------------------------
(* Arithmetic that must not wrap.                                          *)

CeilDiv(a, b) == (a + b - 1) \div b

\* The product stops at the first factor that would pass MaxInt; a zero factor
\* is never divided by.
checkedProduct(values) ==
  FoldLeft(LAMBDA acc, v :
             IF ~acc.ok \/ (v # 0 /\ acc.value > MaxInt \div v)
             THEN [ok |-> FALSE, value |-> 0]
             ELSE [ok |-> TRUE, value |-> acc.value * v],
           [ok |-> TRUE, value |-> 1], values)

\* v + (m - r) wraps past the largest int exactly when it exceeds MaxInt.
roundUpToMultiple(v, m) ==
  LET up == m * CeilDiv(v, m)
  IN [ok |-> up <= MaxInt, value |-> IF up <= MaxInt THEN up ELSE 0]

-----------------------------------------------------------------------------
(* Flags to a tuning.  parallel and fitMax are 0 when not given; fitMax -1 *)
(* is the value "unlimited".                                               *)

DefaultConns == 1

transportTuning(f) ==
  LET err == CASE f.fit /\ f.parallel > 0               -> "fit_conflicts"
               [] f.fitMax # 0 /\ ~f.fit                -> "fit_max_without_fit"
               [] f.fit /\ f.batchRate = 0 /\ f.requestRate = 0 -> "fit_needs_pacing"
               [] OTHER                                 -> "none"
  IN [err |-> err,
      maxConns |-> IF f.parallel > 0 THEN f.parallel ELSE DefaultConns,
      parallelSet |-> f.parallel > 0, fitSelected |-> f.fit,
      parallelFitMax |-> f.fitMax, parallelFitSet |-> f.fitMax # 0,
      requestRateMax |-> f.requestRate,
      minBatchInterval |-> IF f.batchRate > 0 THEN CeilDiv(Second, f.batchRate) ELSE 0,
      connectionFit |-> "none", connectionLimit |-> 0,
      pathRTT |-> 0, pathFittedConns |-> 0, pathFitCapped |-> FALSE]

\* parseRace: -1 is "unlimited"; the policy defaults to none at one trial.
parseRace(trials, arrange) ==
  [trials |-> trials,
   policy |-> IF arrange # "default" THEN arrange
              ELSE IF trials = 1 THEN "none" ELSE "random"]

\* parseMeasure: rotation is the default, and only rotation has cycles.
parseMeasure(unit, requested, arrange) ==
  LET policy == IF arrange = "default" THEN "rotate" ELSE arrange
  IN [err |-> IF unit = "cycles" /\ policy # "rotate" THEN "cycles_need_rotate" ELSE "none",
      unit |-> unit, requested |-> requested, policy |-> policy]

resolveTrials(requested, n, policy) ==
  IF policy # "rotate" THEN [ok |-> TRUE, value |-> requested]
  ELSE roundUpToMultiple(requested, n)

resolveMeasureBudget(cfg, width) ==
  LET planned == IF cfg.unit = "cycles" THEN checkedProduct(<<cfg.requested, width>>)
                 ELSE resolveTrials(cfg.requested, width, cfg.policy)
      fits    == planned.ok /\ checkedProduct(<<planned.value, width>>).ok
  IN [ok |-> fits, value |-> IF fits THEN planned.value ELSE 0]

\* measurePlan.workload: what the report says the run may cost.
workload(planned, width, warmup, warmupWidth, conns) ==
  LET measured == checkedProduct(<<planned, width>>)
      priming  == checkedProduct(<<warmup, conns,
                    IF warmup > 0 /\ warmupWidth = 0 THEN width ELSE warmupWidth>>)
  IN [ok |-> measured.ok /\ priming.ok /\ measured.value <= MaxInt - priming.value,
      value |-> measured.value + priming.value]

-----------------------------------------------------------------------------
(* The analyse contract.                                                   *)

analyseDefaultCycles(width) ==
  CASE width = 2 -> 150 [] width = 3 -> 100 [] width \in {4, 5} -> 75
    [] width \in 6..8 -> 50 [] OTHER -> 0

analysePairResolutionFloor(width) ==
  CASE width \in 2..5 -> width + 4 [] width \in {6, 7} -> 10
    [] width = 8 -> 11 [] OTHER -> 0

\* floor is analysePairResolutionFloor(width), or less in an instance that has to
\* reach it.
resolveAnalyseWorkload(width, requested, floor) ==
  LET cycles     == IF requested = 0 THEN analyseDefaultCycles(width) ELSE requested
      trials     == checkedProduct(<<cycles, width>>)
      operations == checkedProduct(<<trials.value, width>>)
      err == CASE analyseDefaultCycles(width) = 0           -> "width"
               [] cycles < floor -> "too_few"
               [] ~trials.ok \/ ~operations.ok              -> "too_large"
               [] operations.value > MaxOperations          -> "too_large"
               [] OTHER                                     -> "none"
  IN [err |-> err, cycles |-> cycles, trials |-> trials.value,
      operations |-> operations.value]

validateAnalyseWarmup(width, warmup, connections) ==
  LET trials     == checkedProduct(<<warmup, connections>>)
      operations == checkedProduct(<<trials.value, width>>)
  IN trials.ok /\ operations.ok /\ operations.value <= MaxOperations

-----------------------------------------------------------------------------
(* Requests by role.  A block carries its role flags (warmupOnly,           *)
(* baselineOnly, supply with 0 for not given and -1 for unlimited), its     *)
(* repeat with repeatSet, and its labels, one per copy.                     *)

roleOf(b) == IF b.warmupOnly THEN "warmup" ELSE IF b.baselineOnly THEN "baseline" ELSE "candidate"

OfRole(blocks, role) == SelectSeq(blocks, LAMBDA b : roleOf(b) = role)

\* requestRoleFlags.validate and detectRequestRoleFlags.resolve.
resolveRoles(blocks, warmup) ==
  LET Some(P(_)) == \E i \in DOMAIN blocks : P(blocks[i])
      baseline   == OfRole(blocks, "baseline")
  IN CASE Some(LAMBDA b : b.warmupOnly /\ b.baselineOnly)       -> "roles_exclusive"
       [] Some(LAMBDA b : b.supply # 0 /\ ~b.baselineOnly)      -> "supply_without_baseline"
       [] Some(LAMBDA b : b.baselineOnly /\ b.repeatSet)        -> "baseline_repeat"
       [] Some(LAMBDA b : b.supply = -1) /\ Len(baseline) > 1   -> "unlimited_combined"
       [] OfRole(blocks, "warmup") # <<>> /\ warmup = 0         -> "warmup_unused"
       [] OTHER                                                 -> "none"

\* assembleWithRequestRoles: candidates first, then baselines, then warmups,
\* with the labels in the same order.
assembleWithRequestRoles(blocks) ==
  LET ordered == OfRole(blocks, "candidate") \o OfRole(blocks, "baseline")
                   \o OfRole(blocks, "warmup")
  IN [groups |-> ordered,
      labels |-> FlattenSeq([i \in DOMAIN ordered |-> ordered[i].labels]),
      measuredCount |-> FoldLeft(LAMBDA n, g : n + Len(g.labels), 0, OfRole(ordered, "candidate"))]

\* Every copy of a group is the same request.
expand(groups) ==
  FlattenSeq([i \in DOMAIN groups |-> [k \in 1..groups[i].repeat |-> groups[i].id]])

expandRequestGroupRole(groups, role) == expand(OfRole(groups, role))

\* The label of a baseline template is found by walking the groups in catalogue
\* order and counting the copies before it.
collectBaselineTemplates(a) ==
  LET Before(i) == FoldLeft(LAMBDA n, g : n + g.repeat, 0, SubSeq(a.groups, 1, i - 1))
      idx == SelectSeq([i \in DOMAIN a.groups |-> i],
                       LAMBDA i : roleOf(a.groups[i]) = "baseline")
  IN [k \in DOMAIN idx |-> [req |-> a.groups[idx[k]].id,
                            label |-> a.labels[Before(idx[k]) + 1],
                            supply |-> a.groups[idx[k]].supply]]

\* materialiseAssembled: at least one measured request is required.
materialise(blocks) ==
  LET a == assembleWithRequestRoles(blocks)
  IN [a |-> a,
      reqs |-> expandRequestGroupRole(a.groups, "candidate"),
      baselineTemplates |-> collectBaselineTemplates(a),
      warmupReqs |-> expandRequestGroupRole(a.groups, "warmup")]

allRequests(m) ==
  m.reqs \o [i \in DOMAIN m.baselineTemplates |-> m.baselineTemplates[i].req] \o m.warmupReqs

warmupBatchWidth(m, warmup) ==
  IF warmup <= 0 THEN 0
  ELSE IF m.warmupReqs # <<>> THEN Len(m.warmupReqs) ELSE Len(m.reqs)

activeBatchWidth(m, measuredWidth, warmup) ==
  Max({measuredWidth, warmupBatchWidth(m, warmup)})

-----------------------------------------------------------------------------
(* Connections.                                                            *)

effectiveBatchInterval(t, width) ==
  IF t.requestRateMax <= 0 \/ width <= 0 THEN t.minBatchInterval
  ELSE Max({t.minBatchInterval, CeilDiv(width * Second, t.requestRateMax)})

\* Enough connections to cover one round trip at the interval, plus a quarter.
fittedConnectionCount(pathRTT, interval) ==
  IF interval <= 0 \/ pathRTT <= 0 THEN [ok |-> TRUE, value |-> 1]
  ELSE LET base     == Max({1, CeilDiv(pathRTT, interval)})
           headroom == Max({1, CeilDiv(base, 4)})
       IN [ok |-> base <= MaxInt - headroom, value |-> base + headroom]

\* Distributable work: trials, or whole cycles under rotation; 0 is unbounded.
trialConnectionWorkLimit(trials, width, policy) ==
  IF trials < 0 THEN 0
  ELSE IF policy # "rotate" THEN trials ELSE CeilDiv(trials, width)

finishPipelinePlan(t, measuredWidth, activeWidth, workLimit) ==
  LET capped  == /\ t.connectionFit = "path_ping"
                 /\ t.parallelFitSet /\ t.parallelFitMax > 0
                 /\ t.maxConns > t.parallelFitMax
      ceiling == IF capped THEN t.parallelFitMax ELSE t.maxConns
      limit   == IF workLimit > 0 THEN Min({ceiling, workLimit}) ELSE ceiling
      streams == checkedProduct(<<limit, activeWidth>>)
      err == CASE measuredWidth < 1 \/ activeWidth < measuredWidth -> "widths"
               [] workLimit < 0 -> "work_limit"
               [] ~streams.ok   -> "streams_overflow"
               [] /\ t.connectionFit = "path_ping" /\ ~t.parallelFitSet
                  /\ (limit > ReviewConnections \/ streams.value > ReviewStreams) -> "review"
               [] OTHER         -> "none"
  IN [t EXCEPT !.err = err, !.maxConns = ceiling, !.pathFitCapped = capped,
               !.connectionFit = IF capped THEN "path_ping_capped" ELSE @,
               !.connectionLimit = limit]

\* fitPipeline measures only when fitting was selected, the run is steady and
\* there is an interval to fit.
NeedsPath(t, measuredWidth, steady) ==
  /\ ~t.parallelSet /\ steady /\ t.fitSelected
  /\ effectiveBatchInterval(t, measuredWidth) > 0

\* rtt is the largest of the three PING samples.
fitPipeline(t, measuredWidth, activeWidth, workLimit, steady, rtt) ==
  IF ~NeedsPath(t, measuredWidth, steady)
  THEN finishPipelinePlan(
         [t EXCEPT !.connectionFit = IF t.parallelSet THEN "explicit" ELSE "default"],
         measuredWidth, activeWidth, workLimit)
  ELSE LET fitted == fittedConnectionCount(rtt, effectiveBatchInterval(t, measuredWidth))
       IN IF ~fitted.ok THEN [t EXCEPT !.err = "fit_overflow"]
          ELSE finishPipelinePlan(
                 [t EXCEPT !.connectionFit = "path_ping", !.pathRTT = rtt,
                           !.maxConns = fitted.value, !.pathFittedConns = fitted.value],
                 measuredWidth, activeWidth, workLimit)

\* A structured run record states only a resolved delivery: positive capacity
\* within its ceiling, a measured path for a fitted count, a real interval for a
\* rate, a rate for a fit, and a fit maximum that is positive or unlimited.
makeStructuredDelivery(t, width) ==
  LET fitting == t.fitSelected \/ t.connectionFit \in {"path_ping", "path_ping_capped"}
      paced   == t.minBatchInterval > 0 \/ t.requestRateMax > 0
  IN /\ t.connectionLimit >= 1 /\ t.maxConns >= t.connectionLimit
     /\ t.connectionFit \in {"path_ping", "path_ping_capped"} =>
          t.pathRTT > 0 /\ t.pathFittedConns >= 1
     /\ fitting /\ t.parallelFitSet => t.parallelFitMax # 0
     /\ paced => effectiveBatchInterval(t, width) > 0
     /\ fitting => paced

\* previewDeliveryPlan: what --dry-run shows without touching the network.
previewDeliveryPlan(t, measuredWidth, activeWidth, workLimit, steady) ==
  IF t.fitSelected /\ steady /\ effectiveBatchInterval(t, measuredWidth) > 0
  THEN [err |-> "none", unresolved |-> TRUE, connectionLimit |-> 0]
  ELSE LET done == finishPipelinePlan(
                     [t EXCEPT !.connectionFit = IF t.parallelSet THEN "explicit" ELSE "default"],
                     measuredWidth, activeWidth, workLimit)
       IN [err |-> done.err, unresolved |-> FALSE, connectionLimit |-> done.connectionLimit]
=============================================================================
