----------------------------- MODULE DetectPlan -----------------------------
(***************************************************************************)
(* The detect command's pure parts: the request plan and the mapping of    *)
(* baseline controls to templates (detect_plan.go), the strategy           *)
(* (detect_strategy.go), the work limits (detect_command.go), the evidence *)
(* collector and the accounts projected from it (detect_evidence.go,       *)
(* execution_accounting.go).  A supply of -1 is unlimited.                 *)
(*                                                                         *)
(* A ref is [role, index].  Evidence about one request is its rank sum and *)
(* a bag of statuses, a function from the statuses seen to counts.         *)
(***************************************************************************)
EXTENDS RunAccounts

Sum(values) == FoldLeft(LAMBDA a, v : a + v, 0, values)

-----------------------------------------------------------------------------
(* The request plan.                                                       *)

\* resolve gives a baseline block one use unless it says otherwise.
SupplyOf(b) == IF b.supply = 0 THEN 1 ELSE b.supply

\* Two requests to compare, or one with a baseline; a batch is no wider than
\* the candidates and the baseline uses that can fill it.
newDetectRequestPlan(groups, width) ==
  LET baselines  == OfRole(groups, "baseline")
      candidates == Sum([i \in DOMAIN OfRole(groups, "candidate") |->
                           OfRole(groups, "candidate")[i].repeat])
      unlimited  == \E i \in DOMAIN baselines : SupplyOf(baselines[i]) < 0
      supply     == IF unlimited THEN -1
                    ELSE Sum([i \in DOMAIN baselines |-> SupplyOf(baselines[i])])
      effective  == CASE baselines = <<>> -> Min({width, candidates})
                      [] unlimited        -> width
                      [] OTHER            -> Min({width, candidates + supply})
      cap        == IF unlimited THEN effective - 1 ELSE Min({effective - 1, supply})
  IN [err |-> CASE supply > MaxInt \/ candidates > MaxInt      -> "unrepresentable"
                [] candidates < 1                              -> "no_candidate"
                [] baselines = <<>> /\ candidates < 2          -> "not_comparable"
                [] OTHER                                       -> "none",
      candidates |-> candidates, baselineTemplates |-> Len(baselines),
      baselineSupply |-> supply, widthEffective |-> effective,
      baselineEffectiveCap |-> IF baselines = <<>> THEN 0 ELSE cap]

\* Uses the templates offer in their first layer + 1 rounds.
baselineCapacityThrough(supplies, layer) ==
  IF layer < 0 THEN 0 ELSE Sum([i \in DOMAIN supplies |-> Min({supplies[i], layer + 1})])

\* Mutant: the search stops a layer late.
LayerOf_Late(supplies, control) ==
  CHOOSE l \in 0..Max({supplies[i] : i \in DOMAIN supplies}) :
    /\ baselineCapacityThrough(supplies, l) >= control
    /\ \A k \in 0..(l - 1) : baselineCapacityThrough(supplies, k) < control

\* The binary search for the first round whose capacity passes the control.
LayerOf(supplies, control) ==
  LET maximum == Max({supplies[i] : i \in DOMAIN supplies})
      Search[r \in (0..maximum) \X (0..maximum)] ==
        IF r[1] >= r[2] THEN r[1]
        ELSE LET layer == r[1] + (r[2] - r[1]) \div 2
             IN IF baselineCapacityThrough(supplies, layer) > control
                THEN Search[<<r[1], layer>>] ELSE Search[<<layer + 1, r[2]>>]
  IN Search[<<0, maximum>>]

\* The template a control index is sent as, counted from one; 0 is the out of
\* range error.  Templates take turns, and one whose supply is used up is
\* skipped.
baselineTemplateIndex(supplies, control) ==
  CASE control < 0 \/ supplies = <<>> -> 0
    [] supplies # <<>> /\ supplies[1] < 0 -> (control % Len(supplies)) + 1
    [] OTHER ->
         IF control >= Sum(supplies) THEN 0
         ELSE LET layer  == LayerOf(supplies, control)
                  offset == control - baselineCapacityThrough(supplies, layer - 1)
                  left   == SelectSeq([i \in DOMAIN supplies |-> i],
                                      LAMBDA i : supplies[i] > layer)
              IN IF offset + 1 \in DOMAIN left THEN left[offset + 1] ELSE 0

-----------------------------------------------------------------------------
(* Flags and limits.                                                       *)

parseDirection(s) ==
  CASE s \in {"late", "slow"} -> "late" [] s \in {"early", "fast"} -> "early"
    [] s = "either" -> "either" [] OTHER -> "error"

\* Risks and the edge are in thousandths, NaN written as a value outside.
parseDetect(f) ==
  [err |-> CASE f.falsePositiveRisk \notin 1..999 \/ f.falseNegativeRisk \notin 1..999 -> "risk"
             [] parseDirection(f.direction) = "error"        -> "direction"
             [] f.width < 2                                  -> "width"
             [] f.comparisonsMax # -1 /\ f.comparisonsMax < 1 -> "comparisons"
             [] f.edge \notin 1..499                         -> "edge"
             [] OTHER                                        -> "none",
   direction |-> parseDirection(f.direction), width |-> f.width,
   comparisonsMax |-> f.comparisonsMax]

Rolling == {"rolling-peer-first", "rolling-baseline-confirmed", "rolling-baseline-reserved"}
PeerFirst == {"peer-first", "rolling-peer-first"}
Confirmed == {"baseline-confirmed", "rolling-baseline-confirmed"}
Reserved  == {"baseline-reserved", "rolling-baseline-reserved"}

rolling(strategy) == strategy \in Rolling

resolveDetectStrategy(raw, direction, hasBaseline) ==
  LET resolved == IF raw # "auto" THEN raw
                  ELSE IF hasBaseline THEN "baseline-reserved" ELSE "peer-first"
  IN [err |-> CASE raw \notin {"auto"} \union PeerFirst \union Confirmed \union Reserved -> "unknown"
                [] direction = "either" /\ ~hasBaseline             -> "either_needs_baseline"
                [] resolved \in PeerFirst \union Confirmed /\ direction = "either" -> "one_sided"
                [] resolved \in Confirmed \union Reserved /\ ~hasBaseline -> "needs_baseline"
                [] OTHER                                            -> "none",
      resolved |-> resolved,
      warning |-> raw \in PeerFirst /\ hasBaseline]

\* [pipelineLimit, participationLimit]; an unbounded run has neither.
detectWorkLimits(configured, width) ==
  LET participations == checkedProduct(<<configured, width>>)
  IN IF configured < 0 THEN [ok |-> TRUE, pipeline |-> 0, participations |-> 0]
     ELSE [ok |-> participations.ok, pipeline |-> configured,
           participations |-> participations.value]

\* The largest count whose participations can be represented.
outlierComparisonLimit(configured, width) ==
  IF configured > 0 THEN configured ELSE MaxInt \div width

detectInFlightComparisonLimit(connections, comparisons, width) ==
  Min({connections, outlierComparisonLimit(comparisons, width)})

\* Every worker primes one connection, and at most one replacement.
detectPrimingWork(warmup, width, parallel) ==
  LET initial == checkedProduct(<<warmup, parallel, width>>)
      maximum == checkedProduct(<<initial.value, 2>>)
  IN [ok |-> initial.ok /\ maximum.ok, initial |-> initial.value, maximum |-> maximum.value]

\* What a structured run record must agree with before anything is sent.
validateDetectJSONPlan(run) ==
  /\ run.requests = run.requestCount
  /\ run.candidates >= 1 /\ run.baselines >= 0
  /\ run.candidates + run.baselines <= run.requestCount
  /\ LET s == resolveDetectStrategy(run.requested, run.direction, run.baselines > 0)
     IN s.err = "none" /\ s.resolved = run.resolved
  /\ run.inFlight \in 1..run.connections
  /\ \A i \in DOMAIN run.roles :
       run.roles[i] = IF i <= run.candidates THEN "candidate"
                      ELSE IF i <= run.candidates + run.baselines THEN "baseline" ELSE "warmup"
  /\ run.padding = run.width /\ run.deliveryConns = run.connections

-----------------------------------------------------------------------------
(* The evidence collector.                                                 *)

NoStatuses == [s \in {} |-> 0]
NoRequest  == [statuses |-> NoStatuses, rankSum |-> 0, observations |-> 0]

newDetectEvidenceCollector(candidates, baselines) ==
  [requests |-> [i \in 0..(candidates - 1) |-> NoRequest],
   baselines |-> [i \in 0..(baselines - 1) |-> NoRequest],
   connections |-> {}, replacements |-> {}, comparisons |-> 0, participations |-> 0,
   priming |-> {}, acquisitions |-> {}, failures |-> {}]

connectionAcquired(e, conn, replacement) ==
  IF replacement THEN [e EXCEPT !.replacements = @ \union {conn}] ELSE e

primingAttempt(e, attempt) ==
  [e EXCEPT !.priming = @ \union {attempt}, !.connections = @ \union {attempt.conn}]

acquisitionFailed(e, worker, replacement) ==
  [e EXCEPT !.acquisitions = @ \union {[worker |-> worker, replacement |-> replacement]}]

comparisonFailed(e, call, worker, conn, refs, err) ==
  [e EXCEPT !.failures = @ \union {[call |-> call, worker |-> worker, conn |-> conn,
                                    refs |-> refs, err |-> err]},
            !.connections = @ \union {conn}]

See(r, rank, status) ==
  [statuses |-> [s \in DOMAIN r.statuses \union {status} |->
                   (IF s \in DOMAIN r.statuses THEN r.statuses[s] ELSE 0)
                     + (IF s = status THEN 1 ELSE 0)],
   rankSum |-> r.rankSum + rank, observations |-> r.observations + 1]

\* results gives each position its rank and status.
observeResolved(e, refs, conn, results) ==
  FoldLeft(LAMBDA acc, p :
             IF refs[p].role = "baseline"
             THEN [acc EXCEPT !.baselines[refs[p].index] = See(@, results[p].rank, results[p].status)]
             ELSE [acc EXCEPT !.requests[refs[p].index] = See(@, results[p].rank, results[p].status)],
           [e EXCEPT !.comparisons = @ + 1, !.participations = @ + Len(refs),
                     !.connections = @ \union {conn}],
           [p \in DOMAIN refs |-> p])

\* fillDetectRequestEvidence: participations are recounted from the statuses.
Counted(r) == FoldFunctionOnSet(LAMBDA a, b : a + b, 0, r.statuses, DOMAIN r.statuses)

GCD(n) == Max({d \in 1..Max(n) : \A x \in n : x % d = 0})

\* Both distributions, reduced by their greatest common divisor, are the same.
equalStatusDistributions(l, r) ==
  /\ DOMAIN l = DOMAIN r
  /\ \A s \in DOMAIN l : l[s] \div GCD(Range(l)) = r[s] \div GCD(Range(r))

\* The requests a reader should look at again: their statuses change, are not
\* 2xx, or differ from request to request.
reviewDetectResponses(e) ==
  LET Observed(f)  == {i \in DOMAIN f : DOMAIN f[i].statuses # {}}
      all == {e.requests[i] : i \in Observed(e.requests)}
               \union {e.baselines[i] : i \in Observed(e.baselines)}
      different == \E l, r \in all : ~equalStatusDistributions(l.statuses, r.statuses)
      Changing(f) == {i \in Observed(f) : Cardinality(DOMAIN f[i].statuses) > 1}
      Non2xx(f)   == {i \in Observed(f) : \E s \in DOMAIN f[i].statuses : s \notin 200..299}
  IN [changing |-> Changing(e.requests), baselineChanging |-> Changing(e.baselines),
      non2xx |-> Non2xx(e.requests), baselineNon2xx |-> Non2xx(e.baselines),
      different |-> IF different THEN Observed(e.requests) ELSE {},
      baselineDifferent |-> IF different THEN Observed(e.baselines) ELSE {}]

\* A solver's result: [outcome, index, items, comparisons, participations].
validateDetectSolverResult(r, requests) ==
  /\ r.items = requests
  /\ CASE r.outcome \in {"inconclusive", "negative"} -> r.index = -1
       [] r.outcome = "found" -> r.index \in 0..(requests - 1)
       [] OTHER -> FALSE

\* collector.result: the command's own count must agree with the solver's.
result(e, r) ==
  /\ e.comparisons = r.comparisons /\ e.participations = r.participations
  /\ validateDetectSolverResult(r, Cardinality(DOMAIN e.requests))

\* resultLocked, with the ranking an error leaves unavailable filled from the
\* collector itself (unavailable).
unavailable(e) ==
  [outcome |-> "none", index |-> -1, items |-> Cardinality(DOMAIN e.requests),
   comparisons |-> e.comparisons, participations |-> e.participations]

-----------------------------------------------------------------------------
(* Accounts.                                                               *)

\* -1 when a request's counts disagree with its participations.
detectDetailedParticipations(e) ==
  LET all == {<<"candidate", i>> : i \in DOMAIN e.requests}
               \union {<<"baseline", i>> : i \in DOMAIN e.baselines}
      Of(k) == IF k[1] = "candidate" THEN e.requests[k[2]] ELSE e.baselines[k[2]]
  IN FoldSet(LAMBDA k, n : n + Counted(Of(k)), 0, all)

detectExecution(e, r, plannedConns, pw) ==
  LET complete == Cardinality({a \in e.priming : a.complete})
      failedOps == FoldSet(LAMBDA f, n : n + Len(f.refs), 0, e.failures)
      Value(n) == [ok |-> n <= MaxInt, value |-> n]
  IN [shared |-> [planned |-> plannedConns, observed |-> Cardinality(e.connections),
                  replacements |-> Cardinality(e.connections \intersect e.replacements),
                  primingAttempted |-> Cardinality(e.priming), primingComplete |-> complete,
                  primingIncomplete |-> Cardinality(e.priming) - complete,
                  primingOps |-> Value(Cardinality(e.priming) * pw),
                  primingOpsComplete |-> Value(complete * pw),
                  ops |-> Value(r.participations + failedOps),
                  opsComplete |-> Value(r.participations), opsRetained |-> Value(r.participations)],
      detailed |-> detectDetailedParticipations(e) = r.participations,
      attempted |-> r.comparisons + Cardinality(e.failures),
      complete |-> r.comparisons, incomplete |-> Cardinality(e.failures)]

validateDetectExecution(x, maximum) ==
  /\ x.detailed
  /\ validateSharedExecution(x.shared)
  /\ x.complete <= x.attempted /\ x.incomplete = x.attempted - x.complete
  /\ maximum >= 0 => x.attempted <= maximum

\* A recognised cause names itself; limit is a configured response limit, lost a
\* connection and stream a stream error.
makeStructuredFailure(err, fallback) ==
  CASE err = "limit"    -> "response_limit"
    [] err = "canceled" -> "interrupted"
    [] err = "deadline" -> "deadline_exceeded"
    [] err = "lost"     -> "connection_error"
    [] err = "stream"   -> "transport_error"
    [] OTHER            -> fallback

\* The completion a record states: an interruption is a stop.  err caused it
\* unless the live phase's cause did.
makeStructuredCompletion(completion, err) ==
  LET code == IF completion.code \in {"run_timeout", "interrupted", "deadline_exceeded"}
              THEN completion.code ELSE makeStructuredFailure(err, completion.code)
  IN IF completion.state = "complete" THEN completion
     ELSE [state |-> IF code = "interrupted" THEN "stopped" ELSE completion.state, code |-> code]

\* A comparator invariant that broke is an internal error.
detectComparisonFailureCode(err) ==
  IF err \in {"comparator_width", "comparator_item"} THEN "internal_error" ELSE "comparison_failed"
=============================================================================
