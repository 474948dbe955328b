---------------------------- MODULE TimingPlan -----------------------------
(***************************************************************************)
(* What a timing plan resolves to (src/internal/timing/resolve.go).        *)
(*                                                                         *)
(* A plan is measured on destination pools by workers that each own a full *)
(* set of connections.  Resolve refuses a plan or derives its workers,     *)
(* work units and totals.  A request is its identity, its destination pool *)
(* and whether resolveRequest accepts it; durations, rates and limits are  *)
(* integers; counters are unsigned words of which MaxUint is the largest.  *)
(***************************************************************************)
EXTENDS Integers, Sequences, FiniteSets, SequencesExt

CONSTANT MaxUint

ASSUME WordAssumption == MaxUint \in Nat \ {0}

Arrangements == {"none", "rotate", "random"}

\* The checks on the plan alone, before its requests are resolved.
PlanRefused(p) ==
  \/ p.requests = <<>>
  \/ p.arrangement \notin Arrangements
  \/ p.warmup < 0 \/ p.connections < 0
  \/ p.requestTimeout < 0 \/ p.runTimeout < 0 \/ p.releaseDelay < 0
  \/ p.releaseDelay > 0 /\ ~p.lastByteSync
  \/ p.requestTimeout > 0 /\ p.releaseDelay >= p.requestTimeout
  \/ p.batchRate < 0 \/ p.requestRate < 0
  \/ p.headerMax <= 0
  \/ p.bodyMax < -1
  \/ p.hasPriming /\ (p.priming = <<>> \/ p.warmup = 0)

\* resolveRequest: the transport can carry the request under this plan.
RequestRefused(r, p) ==
  \/ ~r.framed
  \/ r.protocol = "h2" /\ r.scheme # "https"
  \/ r.scheme = "http" /\ (p.singleRecord \/ p.lastByteSync)

\* The requests of a set that use pool d.
InPool(rs, d) == {i \in DOMAIN rs : rs[i].dest = d}

\* The loop of add over the measured and then the priming requests.
RequestsRefused(p) ==
  LET all == p.requests \o IF p.hasPriming THEN p.priming ELSE <<>> IN
  \/ \E i \in DOMAIN all : all[i].id < 0 \/ RequestRefused(all[i], p)
  \/ ~IsInjective([i \in DOMAIN all |-> all[i].id])
  \/ p.hasPriming /\ \E i \in DOMAIN p.priming : InPool(p.requests, p.priming[i].dest) = {}

\* A distinct priming set covers every pool, and fills it when synchronised.
PrimingRefused(p) ==
  p.hasPriming /\ \E i \in DOMAIN p.requests :
    LET d == p.requests[i].dest
        n == Cardinality(InPool(p.priming, d)) IN
    n = 0 \/ (p.synchronise /\ n # Cardinality(InPool(p.requests, d)))

Pools(p) == {p.requests[i].dest : i \in DOMAIN p.requests}

\* Connections that one worker owns: one per pool, or one per request.
PerWorker(p) == IF p.synchronise THEN Len(p.requests) ELSE Cardinality(Pools(p))

Ceiling(p) == IF p.connections = 0 THEN PerWorker(p) ELSE p.connections

\* Rotation plans whole cycles, rounding the requested trials up.
Cycles(p) == p.trials \div Len(p.requests) + IF p.trials % Len(p.requests) = 0 THEN 0 ELSE 1

Rotates(p) == p.trials > 0 /\ p.arrangement = "rotate"

PlannedTrials(p) == IF Rotates(p) THEN Cycles(p) * Len(p.requests) ELSE p.trials

WorkUnits(p) == IF Rotates(p) THEN Cycles(p) ELSE p.trials

\* No more workers than work units.
Workers(p) ==
  LET admitted == Ceiling(p) \div PerWorker(p) IN
  IF WorkUnits(p) > 0 /\ WorkUnits(p) < admitted THEN WorkUnits(p) ELSE admitted

WarmupWidth(p) == Len(IF p.hasPriming THEN p.priming ELSE p.requests)

\* The products that must fit a word, each checked before it is formed.
Overflows(p) ==
  \/ Rotates(p) /\ Cycles(p) > MaxUint \div Len(p.requests)
  \/ PlannedTrials(p) > MaxUint \div Len(p.requests)
  \/ p.warmup > MaxUint \div Workers(p)
  \/ Workers(p) * p.warmup > MaxUint \div WarmupWidth(p)

\* Resolve: whether the plan is accepted.
Accepted(p) ==
  /\ ~PlanRefused(p)
  /\ ~RequestsRefused(p)
  /\ ~PrimingRefused(p)
  /\ Ceiling(p) >= PerWorker(p)
  /\ ~Overflows(p)

\* The part of Resolved that the campaign reads.
Resolve(p) ==
  [workers |-> Workers(p), width |-> Len(p.requests), units |-> WorkUnits(p),
   planned |-> PlannedTrials(p), connections |-> Workers(p) * PerWorker(p),
   operations |-> PlannedTrials(p) * Len(p.requests),
   warmups |-> Workers(p) * p.warmup,
   warmupOperations |-> Workers(p) * p.warmup * WarmupWidth(p)]
=============================================================================
