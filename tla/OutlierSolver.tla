--------------------------- MODULE OutlierSolver ----------------------------
(***************************************************************************)
(* What an outlier solver decides from ordinal feedback                    *)
(* (src/internal/ranking): the solver variants, the planning of            *)
(* comparisons, the fold of outcomes into evidence, commits and            *)
(* eliminations.                                                           *)
(*                                                                         *)
(* Log wealth is counted in units: an observation moves a process by the   *)
(* sign of its payoff, and appearances of one wave by the sign of their    *)
(* mean.  Thompson draws and shuffles are free choices, so a comparison is *)
(* a set of items and a ranking a bijection from it to 0..size-1.          *)
(***************************************************************************)
EXTENDS Integers, FiniteSets, Sequences, FiniteSetsExt, SequencesExt

CONSTANTS
  M,         \* req.M, the population size
  Width,     \* profile.MaxWidth
  CommitAt,  \* the commit threshold in units of evidence
  ElimAt,    \* the elimination threshold
  Gate       \* baselineConfirmationNominationGate

ASSUME SolverAssumption ==
  M \in Nat \ {0} /\ Width \in Nat \ {0, 1} /\ {CommitAt, ElimAt, Gate} \subseteq Nat \ {0}

Candidates == 0..(M - 1)
NoItem == -1
Baseline == 0
ControlKindBits == 4

----------------------------------------------------------------------------
(* Items and the comparison channel. *)

\* Control IDs are negative; the low bits carry the kind.
Control(kind, index) == -(index * 2^ControlKindBits + kind) - 1
IsControl(id) == id < 0
ControlKind(id) == (-id - 1) % 2^ControlKindBits
ControlIndex(id) == (-id - 1) \div 2^ControlKindBits

UpTo(supply, want) == IF want <= 0 THEN 0 ELSE Min({supply, want})

\* Distinctness comes with the set; every control must be within its supply.
ValidArrangement(items, supply) ==
  /\ Cardinality(items) \in 2..Width
  /\ \E id \in items : ~IsControl(id)
  /\ \A id \in items : IsControl(id) =>
       ControlKind(id) = Baseline /\ UpTo(supply, ControlIndex(id) + 1) > ControlIndex(id)

IsRankPermutation(ranks) ==
  {ranks[id] : id \in DOMAIN ranks} = 0..(Cardinality(DOMAIN ranks) - 1)

\* What CompareFunc may return once the postcondition is enforced.
Rankings(items) ==
  {ranks \in [items -> 0..(Cardinality(items) - 1)] : IsRankPermutation(ranks)}

----------------------------------------------------------------------------
(* The solver variants are settings of one engine. *)

\* RankEffectiveN is 3k/(k+2): the reserve is the largest maximiser of
\* (width - k) * k / (k + 2).
OutlierControlReserve(width, available) ==
  LET avail == Min({available, width - 1})
      atLeast(a, b) == (width - a) * a * (b + 2) >= (width - b) * b * (a + 2)
      best == {a \in 1..avail : \A b \in 1..avail : atLeast(a, b)}
  IN IF avail <= 0 THEN 0 ELSE Max(best)

BaselineReserved(dir, supply) ==
  [dir |-> dir, supply |-> supply, rolling |-> FALSE, cleanOnly |-> FALSE,
   confirm |-> FALSE, needBaseline |-> FALSE,
   reserve |-> OutlierControlReserve(Width, UpTo(supply, Width - 1))]

\* Broad-field positions go to candidates unless the direction is unknown.
PeerFirst(dir, supply) ==
  [BaselineReserved(dir, supply) EXCEPT !.reserve = IF dir = "Either" THEN @ ELSE 0]

\* The bet is aimed at MinimumEdge; in units of evidence it is PeerFirst.
EdgeDirected(dir, supply) == PeerFirst(dir, supply)

BaselineConfirmed(dir, supply) ==
  [PeerFirst(dir, supply) EXCEPT !.cleanOnly = TRUE, !.confirm = dir # "Either"]

RollingBaselineReserved(dir, supply) ==
  [BaselineReserved(dir, supply) EXCEPT !.rolling = TRUE, !.needBaseline = TRUE]

RollingPeerFirst(dir, supply) == [PeerFirst(dir, supply) EXCEPT !.rolling = TRUE]

RollingBaselineConfirmed(dir, supply) ==
  [BaselineConfirmed(dir, supply) EXCEPT !.rolling = TRUE, !.needBaseline = TRUE]

\* A run is refused without the controls its strategy or width needs.
Rejected(cfg) ==
  \/ (cfg.needBaseline \/ cfg.confirm \/ cfg.dir = "Either") /\ UpTo(cfg.supply, 1) = 0
  \/ UpTo(cfg.supply, Width - M) < Width - M

\* resolveOutlierRun: the window is the channel's, never more than the
\* solver's own cap or the comparison limit.
ResolveConcurrency(channel, own, comparisons) ==
  Min({Max({channel, 1}), comparisons} \cup (IF own > 0 THEN {own} ELSE {}))

Dirs(cfg) == IF cfg.dir = "Either" THEN {"Late", "Early"} ELSE {cfg.dir}

----------------------------------------------------------------------------
(* Evidence. *)

Toward(d, s) == IF d = "Early" THEN -s ELSE s

InitialEvidence(cfg) ==
  [active |-> Candidates, uncovered |-> IF cfg.rolling THEN Candidates ELSE {},
   pos |-> [c \in Candidates |-> 0], clean |-> [c \in Candidates |-> 0],
   neg |-> [d \in {"Late", "Early"} |-> [c \in Candidates |-> 0]],
   discovered |-> FALSE]

Best(cfg, value) == Max({Toward(d, value) : d \in Dirs(cfg)})

\* The order of active is arbitrary, so any of the strongest may lead.
Leaders(cfg, ev, evidence) ==
  {c \in ev.active : \A o \in ev.active : Best(cfg, evidence[c]) >= Best(cfg, evidence[o])}

CommitEvidence(cfg, ev) == IF cfg.cleanOnly THEN ev.clean ELSE ev.pos

\* Appearances an outcome counts as observations.
Observes(ev, outcome, c) ==
  /\ c \in DOMAIN outcome.ranks \cap ev.active
  /\ outcome.confirming \in {NoItem, c}

Controls(items) == {id \in items : IsControl(id) /\ ControlKind(id) = Baseline}

\* The sign of the transformed rank's distance from one half: against the
\* controls when there are any, against everyone otherwise.
Score(ranks, c) ==
  LET controls == Controls(DOMAIN ranks)
      opponents == IF controls = {} THEN DOMAIN ranks \ {c} ELSE controls
      beaten == {o \in opponents : ranks[c] > ranks[o]}
  IN 2 * Cardinality(beaten) - Cardinality(opponents)

Sign(x) == IF x > 0 THEN 1 ELSE IF x < 0 THEN -1 ELSE 0

\* applyOutcomes: each candidate gets the mean of its factors in these outcomes;
\* factors are signs, so the sign of their mean is that of the majority.
Apply(ev, outcomes) ==
  LET seen(c) == {i \in DOMAIN outcomes : Observes(ev, outcomes[i], c)}
      clean(c) == {i \in seen(c) : Controls(DOMAIN outcomes[i].ranks) # {}}
      payoff(c, i) == Sign(Score(outcomes[i].ranks, c))
      mean(S, value(_)) == Sign(Cardinality({i \in S : value(i) > 0})
                                - Cardinality({i \in S : value(i) < 0}))
      against(d, c, i) == IF Toward(d, payoff(c, i)) > 0 THEN -1 ELSE 1
  IN [ev EXCEPT
        !.pos = [c \in Candidates |-> @[c] + mean(seen(c), LAMBDA i : payoff(c, i))],
        !.clean = [c \in Candidates |-> @[c] + mean(clean(c), LAMBDA i : payoff(c, i))],
        !.neg = [d \in {"Late", "Early"} |-> [c \in Candidates |->
                   @[d][c] + mean(seen(c), LAMBDA i : against(d, c, i))]]]

Committed(cfg, ev) ==
  {c \in Leaders(cfg, ev, CommitEvidence(cfg, ev)) :
     Best(cfg, CommitEvidence(cfg, ev)[c]) >= CommitAt}

\* An item goes when its evidence crosses in every searched direction.
Eliminate(cfg, ev, updated) ==
  [ev EXCEPT !.active = {c \in @ : ~(c \in updated /\ \A d \in Dirs(cfg) : ev.neg[d][c] >= ElimAt)}]

Updated(ev, outcomes) ==
  {c \in Candidates : \E i \in DOMAIN outcomes : Observes(ev, outcomes[i], c)}

----------------------------------------------------------------------------
(* Planning. *)

\* Candidate choices of sampleComparison: uncovered items first, then draws,
\* with the leader pinned into a drawn position once it has positive evidence.
Selections(cfg, ev) ==
  LET k == Min({Cardinality(ev.active), Width - cfg.reserve})
      owed == ev.uncovered \cap ev.active
      owes == Min({k, Cardinality(owed)})
      leading == {c \in Leaders(cfg, ev, ev.pos) : Best(cfg, ev.pos[c]) > 0}
      pinned(S) == leading = {} \/ k = Cardinality(ev.active) \/ owes = k \/ leading \cap S # {}
  IN {S \in kSubset(k, ev.active) : Cardinality(S \cap owed) >= owes /\ pinned(S)}

\* Spare positions take controls, then eliminated peers.
Comparisons(cfg, ev) ==
  {S \cup {Control(Baseline, j) : j \in 0..(UpTo(cfg.supply, Width - Cardinality(S)) - 1)} \cup pad :
     S \in Selections(cfg, ev), pad \in SUBSET (Candidates \ ev.active)}

Discoveries(cfg, ev) ==
  {items \in Comparisons(cfg, ev) : Cardinality(items) = Width}

Confirmation(cfg, nominee) ==
  {nominee} \cup {Control(Baseline, j) : j \in 0..(UpTo(cfg.supply, Width - 1) - 1)}

\* Leaders eligible for a clean confirmation after intervening discovery.
Nominees(cfg, ev) ==
  {c \in Leaders(cfg, ev, ev.pos) :
     cfg.confirm /\ ev.discovered /\ Best(cfg, ev.pos[c]) >= Gate}

=============================================================================
