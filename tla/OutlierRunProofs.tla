-------------------------- MODULE OutlierRunProofs --------------------------
(***************************************************************************)
(* Proofs about OutlierRun for every solver, population, comparison        *)
(* window, budget and number of callers.                                   *)
(***************************************************************************)
EXTENDS OutlierRun, FiniteSetTheorems, FunctionTheorems, SequenceTheorems,
        WellFoundedInduction, TLAPS

-----------------------------------------------------------------------------
(* Sets of outcomes with consecutive dispatch indices.                     *)

\* Some member of a set of indexed outcomes comes first.
LEMMA FirstOf ==
  ASSUME NEW S, S # {}, \A o \in S : o.index \in Nat
  PROVE  \E o \in S : \A p \in S : o.index <= p.index
<1> DEFINE R == {ss \in Nat \X Nat : ss[1] < ss[2]}
           N == {o.index : o \in S}
<1>1. IsWellFoundedOn(R, Nat)
  BY NatLessThanWellFounded DEF OpToRel
<1>2. N \subseteq Nat /\ N # {}
  OBVIOUS
<1> HIDE DEF R, N
<1>3. PICK m \in N : \A n \in N : ~(<<n, m>> \in R)
  BY <1>1, <1>2, WFMin
<1>4. \A n \in Nat : ~(<<n, m>> \in R) => m <= n
  BY <1>2, <1>3 DEF R
<1>5. \A n \in N : m <= n
  BY <1>2, <1>3, <1>4
<1> QED
  BY <1>3, <1>5 DEF N

\* The indices of S are those from a up to b, each once.
Indexed(S, a, b) ==
  /\ \A o \in S : o.index \in a..(b - 1)
  /\ \A i \in a..(b - 1) : \E o \in S : o.index = i
  /\ \A o, p \in S : o.index = p.index => o = p

\* Such a set is as large as the interval.
LEMMA IndexedSize ==
  ASSUME NEW S, NEW a \in Int, NEW b \in Int, a <= b, Indexed(S, a, b)
  PROVE  IsFiniteSet(S) /\ Cardinality(S) = b - a
<1> DEFINE f == [o \in S |-> o.index]
           T == a..(b - 1)
<1>1. IsFiniteSet(T) /\ Cardinality(T) = b - a
  <2>1. b - 1 \in Int
    OBVIOUS
  <2>2. IsFiniteSet(T) /\ Cardinality(T) = IF a > b - 1 THEN 0 ELSE (b - 1) - a + 1
    BY <2>1, FS_Interval
  <2> QED
    BY <2>2
<1>2. f \in Injection(S, T)
  BY DEF Indexed, Injection, IsInjective
<1>3. f \in Surjection(S, T)
  BY DEF Indexed, Surjection
<1> HIDE DEF f, T
<1> QED
  BY <1>1, <1>2, <1>3, FS_Injection

\* The number of earlier members is the distance to the first index.
LEMMA IndexedBefore ==
  ASSUME NEW S, NEW a \in Int, NEW b \in Int, a <= b, Indexed(S, a, b), NEW o \in S
  PROVE  Cardinality({p \in S : p.index < o.index}) = o.index - a
<1> DEFINE before == {p \in S : p.index < o.index}
<1>1. o.index \in Int /\ a <= o.index
  BY DEF Indexed
<1>2. Indexed(before, a, o.index)
  BY DEF Indexed
<1> HIDE DEF before
<1>3. Cardinality(before) = o.index - a
  BY <1>1, <1>2, IndexedSize
<1> QED
  BY <1>3 DEF before

-----------------------------------------------------------------------------
(* The positions that outcomes filled.                                     *)

Filled(outs) == UNION {{o} \X o.items : o \in outs}

\* The positions are counted as the pairs of an outcome and an item of it.
LEMMA SizesAre == \A S : Sizes(S) = Cardinality(Filled(S))
BY DEF Sizes, Filled

\* Finitely many outcomes with finite placements fill finitely many positions.
LEMMA SizesFinite ==
  ASSUME NEW S, IsFiniteSet(S), \A o \in S : IsFiniteSet(o.items)
  PROVE  IsFiniteSet(Filled(S)) /\ Sizes(S) \in Nat
<1> DEFINE rows == {{o} \X o.items : o \in S}
           f == [o \in S |-> {o} \X o.items]
<1>1. f \in Surjection(S, rows)
  BY DEF Surjection
<1>2. \A T \in rows : IsFiniteSet(T)
  <2>1. ASSUME NEW o \in S PROVE IsFiniteSet({o} \X o.items)
    <3>1. IsFiniteSet({o}) /\ IsFiniteSet(o.items)
      BY FS_Singleton
    <3> QED
      BY <3>1, FS_Product
  <2> QED
    BY <2>1
<1> HIDE DEF rows, f
<1>3. IsFiniteSet(rows)
  BY <1>1, FS_Surjection
<1>4. IsFiniteSet(UNION rows)
  BY <1>2, <1>3, FS_UNION
<1> QED
  BY <1>4, FS_CardinalityType DEF rows, Filled, Sizes

\* Different outcomes fill different positions.
LEMMA SizesUnion ==
  ASSUME NEW S, IsFiniteSet(S), \A o \in S : IsFiniteSet(o.items),
         NEW T, IsFiniteSet(T), \A o \in T : IsFiniteSet(o.items),
         S \cap T = {}
  PROVE  Sizes(S \cup T) = Sizes(S) + Sizes(T)
<1>1. Filled(S \cup T) = Filled(S) \cup Filled(T)
  BY DEF Filled
<1>2. \A x \in Filled(S) : x[1] \in S
  BY DEF Filled
<1>3. \A x \in Filled(T) : x[1] \in T
  BY DEF Filled
<1>4. Filled(S) \cap Filled(T) = {}
  BY <1>2, <1>3
<1>5. IsFiniteSet(Filled(S)) /\ IsFiniteSet(Filled(T))
  BY SizesFinite
<1>6. Cardinality(Filled(S)) \in Nat /\ Cardinality(Filled(T)) \in Nat
  BY <1>5, FS_CardinalityType
<1>7. Cardinality(Filled(S) \cup Filled(T)) =
        Cardinality(Filled(S)) + Cardinality(Filled(T)) - Cardinality(Filled(S) \cap Filled(T))
  BY <1>5, FS_Union
<1>8. Cardinality(Filled(S) \cap Filled(T)) = 0
  BY <1>4, FS_EmptySet
<1>9. /\ Sizes(S \cup T) = Cardinality(Filled(S) \cup Filled(T))
      /\ Sizes(S) = Cardinality(Filled(S)) /\ Sizes(T) = Cardinality(Filled(T))
  BY <1>1, SizesAre
<1> QED
  BY <1>6, <1>7, <1>8, <1>9

\* One outcome fills as many positions as it placed items.
LEMMA SizesOne ==
  ASSUME NEW o, IsFiniteSet(o.items)
  PROVE  Sizes({o}) = Cardinality(o.items)
<1>1. Filled({o}) = {o} \X o.items
  BY DEF Filled
<1>2. IsFiniteSet({o}) /\ Cardinality({o}) = 1
  BY FS_Singleton
<1>3. Cardinality({o} \X o.items) = Cardinality({o}) * Cardinality(o.items)
  BY <1>2, FS_Product
<1>4. Cardinality(o.items) \in Nat
  BY FS_CardinalityType
<1>5. Cardinality({o} \X o.items) = Cardinality(o.items)
  BY <1>2, <1>3, <1>4
<1> QED
  BY <1>1, <1>5 DEF Sizes, Filled

\* No outcome fills none.
LEMMA SizesNone == Sizes({}) = 0
<1>1. Filled({}) = {}
  BY DEF Filled
<1> QED
  BY <1>1, FS_EmptySet DEF Sizes, Filled

-----------------------------------------------------------------------------
(* Evidence.                                                               *)

Directions == {"Late", "Early"}
EvidenceRec ==
  [active : SUBSET Candidates, uncovered : SUBSET Candidates, pos : [Candidates -> Int],
   clean : [Candidates -> Int], neg : [Directions -> [Candidates -> Int]], discovered : BOOLEAN]

\* A majority is a sign, and there is none without votes.
LEMMA Majority ==
  ASSUME NEW P, NEW N, IsFiniteSet(P), IsFiniteSet(N)
  PROVE  LET m == Sign(Cardinality(P) - Cardinality(N))
         IN m \in {-1, 0, 1} /\ (m # 0 => P # {} \/ N # {})
<1>1. Cardinality(P) \in Nat /\ Cardinality(N) \in Nat
  BY FS_CardinalityType
<1>2. P = {} /\ N = {} => Cardinality(P) = 0 /\ Cardinality(N) = 0
  BY FS_EmptySet
<1> QED
  BY <1>1, <1>2 DEF Sign

\* What a fold may do to evidence: it moves that of observed items only, clean
\* evidence by at most one, and only after an observation against controls.
Clear(e, o, c) == Observes(e, o, c) /\ Controls(DOMAIN o.ranks) # {} /\ Score(o.ranks, c) # 0
Applied(e, b, f) ==
  /\ b \in EvidenceRec
  /\ b.active = e.active /\ b.uncovered = e.uncovered /\ b.discovered = e.discovered
  /\ \A c \in Candidates \ e.active : \A d \in Directions : b.neg[d][c] = e.neg[d][c]
  /\ \A c \in Candidates : b.clean[c] - e.clean[c] \in {-1, 0, 1}
  /\ \A c \in Candidates : b.clean[c] # e.clean[c] => \E i \in DOMAIN f : Clear(e, f[i], c)

\* Outcomes weigh by the majority of their payoffs, so they move no more.
LEMMA ApplyMoves ==
  ASSUME NEW e \in EvidenceRec, NEW n \in Nat, NEW f, DOMAIN f = 1..n
  PROVE  Applied(e, Apply(e, f), f)
<1> DEFINE sn(c) == {i \in DOMAIN f : Observes(e, f[i], c)}
           cl(c) == {i \in sn(c) : Controls(DOMAIN f[i].ranks) # {}}
           pay(c, i) == Sign(Score(f[i].ranks, c))
           against(d, c, i) == IF Toward(d, pay(c, i)) > 0 THEN -1 ELSE 1
           p(c) == Sign(Cardinality({i \in sn(c) : pay(c, i) > 0}) - Cardinality({i \in sn(c) : pay(c, i) < 0}))
           k(c) == Sign(Cardinality({i \in cl(c) : pay(c, i) > 0}) - Cardinality({i \in cl(c) : pay(c, i) < 0}))
           g(d, c) == Sign(Cardinality({i \in sn(c) : against(d, c, i) > 0})
                           - Cardinality({i \in sn(c) : against(d, c, i) < 0}))
           pos == [c \in Candidates |-> e.pos[c] + p(c)]
           clean == [c \in Candidates |-> e.clean[c] + k(c)]
           neg == [d \in Directions |-> [c \in Candidates |-> e.neg[d][c] + g(d, c)]]
           b == [e EXCEPT !.pos = pos, !.clean = clean, !.neg = neg]
<1>1. Apply(e, f) = b
  BY DEF Apply, Directions
<1>2. IsFiniteSet(DOMAIN f)
  BY FS_Interval
<1>3. ASSUME NEW c \in Candidates PROVE p(c) \in Int
  <2>1. {i \in sn(c) : pay(c, i) > 0} \subseteq DOMAIN f /\ {i \in sn(c) : pay(c, i) < 0} \subseteq DOMAIN f
    OBVIOUS
  <2>2. IsFiniteSet({i \in sn(c) : pay(c, i) > 0}) /\ IsFiniteSet({i \in sn(c) : pay(c, i) < 0})
    BY <1>2, <2>1, FS_Subset
  <2> QED
    BY <2>2, Majority
<1>4. ASSUME NEW c \in Candidates
      PROVE  k(c) \in {-1, 0, 1} /\ (k(c) # 0 => \E i \in DOMAIN f : Clear(e, f[i], c))
  <2> DEFINE P == {i \in cl(c) : pay(c, i) > 0}
             N == {i \in cl(c) : pay(c, i) < 0}
  <2>1. P \subseteq DOMAIN f /\ N \subseteq DOMAIN f
    OBVIOUS
  <2>2. IsFiniteSet(P) /\ IsFiniteSet(N)
    BY <1>2, <2>1, FS_Subset
  <2>3. k(c) \in {-1, 0, 1} /\ (k(c) # 0 => P # {} \/ N # {})
    BY <2>2, Majority
  <2>4. \A i \in P \cup N : Clear(e, f[i], c)
    BY DEF Clear, Sign
  <2> QED
    BY <2>1, <2>3, <2>4
<1>5. ASSUME NEW c \in Candidates, NEW d \in Directions
      PROVE  g(d, c) \in {-1, 0, 1} /\ (c \notin e.active => g(d, c) = 0)
  <2> DEFINE P == {i \in sn(c) : against(d, c, i) > 0}
             N == {i \in sn(c) : against(d, c, i) < 0}
  <2>1. P \subseteq DOMAIN f /\ N \subseteq DOMAIN f
    OBVIOUS
  <2>2. IsFiniteSet(P) /\ IsFiniteSet(N)
    BY <1>2, <2>1, FS_Subset
  <2>3. g(d, c) \in {-1, 0, 1} /\ (g(d, c) # 0 => P # {} \/ N # {})
    BY <2>2, Majority
  <2>4. c \notin e.active => sn(c) = {}
    BY DEF Observes
  <2> QED
    BY <2>1, <2>3, <2>4
<1> HIDE DEF p, k, g
<1>6. /\ e.pos \in [Candidates -> Int] /\ e.clean \in [Candidates -> Int]
      /\ e.neg \in [Directions -> [Candidates -> Int]]
  BY DEF EvidenceRec
<1>7. pos \in [Candidates -> Int]
  BY <1>3, <1>6
<1>8. clean \in [Candidates -> Int] /\ \A c \in Candidates : clean[c] = e.clean[c] + k(c)
  BY <1>4, <1>6
<1>9. /\ neg \in [Directions -> [Candidates -> Int]]
      /\ \A d \in Directions : \A c \in Candidates : neg[d][c] = e.neg[d][c] + g(d, c)
  BY <1>5, <1>6
<1>10. \A c \in Candidates : /\ clean[c] - e.clean[c] \in {-1, 0, 1}
                             /\ clean[c] # e.clean[c] => \E i \in DOMAIN f : Clear(e, f[i], c)
  BY <1>4, <1>6, <1>8
<1>11. \A c \in Candidates \ e.active : \A d \in Directions : neg[d][c] = e.neg[d][c]
  BY <1>5, <1>6, <1>9
<1> HIDE DEF pos, clean, neg
<1>12. /\ b \in EvidenceRec /\ b.active = e.active /\ b.uncovered = e.uncovered
       /\ b.discovered = e.discovered /\ b.clean = clean /\ b.neg = neg
  BY <1>7, <1>8, <1>9 DEF EvidenceRec
<1> QED
  BY <1>1, <1>10, <1>11, <1>12 DEF Applied

\* The best evidence for an item is evidence in some direction.
LEMMA BestIs ==
  ASSUME NEW c \in Configs, NEW v \in Int
  PROVE  Best(c, v) \in {v, -v}
<1> DEFINE S == {Toward(d, v) : d \in Dirs(c)}
<1>1. c.dir \in {"Late", "Early", "Either"}
  BY RunAssumption
<1>2. S # {} /\ S \subseteq {v, -v}
  BY <1>1 DEF Dirs, Toward
<1> HIDE DEF S
<1>3. \E m \in S : \A x \in S : m >= x
  <2>1. CASE v \in S /\ -v \in S
    BY <1>2, <2>1
  <2>2. CASE ~(v \in S /\ -v \in S)
    <3>1. PICK m \in S : TRUE
      BY <1>2
    <3>2. m \in Int /\ \A x \in S : x = m
      BY <1>2, <2>2, <3>1
    <3> QED
      BY <3>2
  <2> QED
    BY <2>1, <2>2
<1>4. Max(S) \in S
  BY <1>3 DEF Max
<1> QED
  BY <1>2, <1>4 DEF Best, S

\* Committed items are active and have the evidence that commits.
LEMMA CommittedEarned ==
  ASSUME NEW c \in Configs, NEW e \in EvidenceRec, NEW i \in Committed(c, e)
  PROVE  /\ i \in e.active /\ i \in Candidates
         /\ c.cleanOnly => e.clean[i] >= CommitAt \/ -e.clean[i] >= CommitAt
<1>1. i \in e.active /\ i \in Candidates
  BY DEF Committed, Leaders, EvidenceRec
<1>2. Best(c, CommitEvidence(c, e)[i]) >= CommitAt
  BY DEF Committed
<1>3. ASSUME c.cleanOnly PROVE e.clean[i] >= CommitAt \/ -e.clean[i] >= CommitAt
  <2>1. e.clean[i] \in Int /\ CommitEvidence(c, e)[i] = e.clean[i]
    BY <1>1, <1>3 DEF CommitEvidence, EvidenceRec
  <2>2. Best(c, e.clean[i]) \in {e.clean[i], -e.clean[i]}
    BY <2>1, BestIs
  <2> QED
    BY <1>2, <2>1, <2>2
<1> QED
  BY <1>1, <1>3

-----------------------------------------------------------------------------
(* Types.                                                                  *)

Ids == Candidates \cup {Control(Baseline, j) : j \in 0..Width}

\* The items and controls a comparison may place are finitely many.
LEMMA IdsFinite == IsFiniteSet(Ids) /\ \A S \in SUBSET Ids : IsFiniteSet(S) /\ Cardinality(S) \in Nat
<1> DEFINE C == {Control(Baseline, j) : j \in 0..Width}
           f == [j \in 0..Width |-> Control(Baseline, j)]
<1>1. f \in Surjection(0..Width, C)
  BY DEF Surjection
<1>2. M - 1 \in Int /\ Width \in Int
  BY SolverAssumption
<1>3. IsFiniteSet(0..Width) /\ IsFiniteSet(Candidates)
  BY <1>2, FS_Interval DEF Candidates
<1> HIDE DEF f, C
<1>4. IsFiniteSet(C)
  BY <1>1, <1>3, FS_Surjection
<1>5. IsFiniteSet(Candidates \cup C)
  BY <1>3, <1>4, FS_Union
<1>6. IsFiniteSet(Ids)
  BY <1>5 DEF Ids, C
<1> QED
  BY <1>6, FS_Subset, FS_CardinalityType

Loop == {"plan", "wave", "gather", "settle", "fill", "collect", "fold", "drain"}
Serving == Loop \cup {"reply"}
Phases == Serving \cup {"init", "refused", "idle", "exited"}
Errors == {"none", "pending", "ctx", "lifetime", "fail", "canceled", "closed", "busy", "overflow"}

ServerRec ==
  [phase : Phases, cur : Callers, nominee : Candidates \cup {NoItem}, pending : BOOLEAN,
   cancelled : BOOLEAN, found : Candidates \cup {NoItem}, err : Errors, updated : SUBSET Candidates]
CountRec ==
  [done : Nat, launched : Int, end : Int, places : Int, discarded : Int, lost : Int]
ReplyRec ==
  [outcome : {"none", "error", "found", "negative", "paused", "inconclusive"},
   item : Candidates \cup {NoItem}, cost : Int, err : Errors]
CallerRec == [pc : {"idle", "send", "wait"}, budget : Nat, gone : BOOLEAN, reply : ReplyRec]
FlagsRec == [lifetime : BOOLEAN, closed : BOOLEAN, advancing : BOOLEAN]
SeenRec ==
  [completed : Int, places : Int, folded : Seq(Nat), faults : Int, advances : Int,
   wins : [Candidates -> Int]]

Outs == results \cup held
Live == workers \cup Outs

Outcome(o) ==
  /\ o.index \in Nat /\ o.items \in SUBSET Ids /\ o.err \in {"none", "fail", "canceled"}
  /\ o.err = "none" => DOMAIN o.ranks = o.items

Typed ==
  /\ cfg \in Configs /\ ev \in EvidenceRec /\ srv \in ServerRec /\ count \in CountRec
  /\ run \in FlagsRec /\ call \in [Callers -> CallerRec]
  /\ told \in [last : Int, shown : Int] /\ seen \in SeenRec
  /\ \A w \in workers : w.index \in Nat /\ w.items \in SUBSET Ids
  /\ \A o \in Outs : Outcome(o)

-----------------------------------------------------------------------------
(* The invariant.                                                          *)

\* What was dispatched and not folded carries the indices from done to
\* launched, each once, wherever it is.
Tickets ==
  /\ workers \cap Outs = {} /\ results \cap held = {}
  /\ srv.phase \in Loop => /\ Indexed(Live, count.done, count.launched)
                           /\ count.done <= count.launched /\ count.launched - count.done <= Window
  /\ srv.phase \notin Loop => Live = {}
  /\ seen.folded = [i \in 1..count.done |-> i - 1]

\* Waves and rolling windows take their own ways through the loop.
Modes ==
  /\ srv.phase \in {"plan", "wave", "gather"} => ~cfg.rolling
  /\ srv.phase \in {"fill", "collect", "fold", "drain"} => cfg.rolling
  /\ srv.phase \in {"plan", "settle"} /\ ~cfg.rolling => count.launched = count.done
  /\ srv.phase \in {"fill", "collect", "fold", "settle"} => \A o \in held : o.err = "none"

\* Evidence: an eliminated item crossed in every direction, clean evidence rests
\* on clean wins, and a find was committed.
Deserved(c) == c \in ev.active /\ (cfg.cleanOnly => seen.wins[c] >= CommitAt)
Weighed ==
  /\ \A i \in Candidates \ ev.active : \A d \in Dirs(cfg) : ev.neg[d][i] >= ElimAt
  /\ \A c \in Candidates : -seen.wins[c] <= ev.clean[c] /\ ev.clean[c] <= seen.wins[c]
  /\ srv.found # NoItem => srv.phase \in {"drain", "reply", "exited"} /\ Deserved(srv.found)

\* Why an advance ends without an answer.
Stopped == run.lifetime \/ call[srv.cur].gone
Fault(outs) == \E o \in outs : o.err = "fail"
Bad(outs) == \E o \in outs : o.err # "none"
Caused ==
  /\ srv.err # "canceled"
  /\ srv.err # "none" => srv.phase \in {"drain", "reply", "exited"}
  /\ srv.err = "pending" => srv.phase = "drain" /\ Bad(held)
  /\ srv.phase = "drain" =>
       /\ srv.err \in {"none", "pending"}
       /\ srv.found # NoItem \/ ev.active = {} \/ count.launched = count.done
            \/ srv.err = "pending" \/ Stopped
  /\ srv.phase \in Loop /\ srv.cancelled =>
       run.lifetime \/ srv.phase = "drain" \/ (srv.phase = "gather" /\ Bad(held))
  /\ srv.phase \in Loop /\ (\E o \in Outs : o.err = "canceled") =>
       Stopped \/ Fault(Outs) \/ (srv.phase = "drain" /\ srv.err = "none")

\* Comparisons that completed are folded, discarded or waiting.
Good == {o \in Outs : o.err = "none"}
Balanced ==
  /\ seen.completed = count.done + count.discarded + Cardinality(Good)
  /\ seen.places = count.places + count.lost + Sizes(Good)
NoneLost == count.discarded = 0 /\ count.lost = 0
Accounted ==
  /\ srv.phase \notin {"reply", "exited"} => Balanced /\ NoneLost
  /\ srv.phase = "reply" =>
       /\ Balanced \/ (srv.found = NoItem /\ (srv.err # "none" \/ Stopped))
       /\ NoneLost \/ srv.found # NoItem \/ ev.active = {}

\* One caller at a time is served, and answered with what happened.
Calls ==
  /\ \A c \in Callers : call[c].pc # "idle" => run.advancing
  /\ \A c, d \in Callers : call[c].pc # "idle" /\ call[d].pc # "idle" => c = d
  /\ \A c \in Callers : call[c].pc = "send" => call[c].reply = NoReply
  /\ srv.phase \in Serving => call[srv.cur].pc = "wait" /\ call[srv.cur].reply = NoReply
Answered(r, waits) ==
  /\ r.outcome \in {"found", "negative"} => srv.phase = "exited"
  /\ r.outcome = "found" => r.item \in Candidates /\ Deserved(r.item)
  /\ r.outcome = "negative" => ev.active = {}
  /\ waits /\ r.outcome \notin {"none", "error"} =>
       /\ srv.phase \in {"idle", "exited"}
       /\ r.cost = seen.completed /\ count.places + count.lost = seen.places
       /\ told.shown = r.cost
  /\ r.err # "canceled"
Replied == \A c \in Callers : Answered(call[c].reply, call[c].pc = "wait")

RunInv == Typed /\ Tickets /\ Modes /\ Weighed /\ Caused /\ Accounted /\ Calls /\ Replied

-----------------------------------------------------------------------------
(* The callers.                                                            *)

\* A caller's step leaves the loop alone, and nothing that stops it is undone.
LEMMA CallersKeep ==
  ASSUME RunInv, Typed', Calls', Replied',
         cfg' = cfg, ev' = ev, srv' = srv, count' = count, workers' = workers,
         results' = results, held' = held,
         seen'.completed = seen.completed, seen'.places = seen.places,
         seen'.folded = seen.folded, seen'.wins = seen.wins,
         srv.phase \in Serving /\ Stopped => Stopped',
         run.lifetime => run'.lifetime
  PROVE  RunInv'
<1>1. Outs' = Outs /\ Live' = Live /\ Good' = Good
  BY DEF Outs, Live, Good
<1>2. Tickets'
  BY <1>1 DEF RunInv, Tickets
<1>3. Modes'
  BY DEF RunInv, Modes
<1>4. Weighed'
  BY DEF RunInv, Weighed, Deserved
<1>5. Caused'
  BY <1>1 DEF RunInv, Caused, Serving, Loop
<1>6. Accounted'
  BY <1>1 DEF RunInv, Accounted, Balanced, NoneLost, Serving
<1> QED
  BY <1>2, <1>3, <1>4, <1>5, <1>6 DEF RunInv

\* A refusal is an error with its cause.
LEMMA FailsIs ==
  ASSUME NEW e \in Errors
  PROVE  Fails(e) \in ReplyRec /\ Fails(e).outcome = "error" /\ Fails(e).err = e
<1>1. NoReply \in ReplyRec
  BY DEF NoReply, ReplyRec, Errors
<1> QED
  BY <1>1 DEF Fails, ReplyRec

\* A caller is refused, or offers its command to the loop.
LEMMA AdvanceKeeps == ASSUME RunInv, NEW c \in Callers, NEW b \in Offers, Advance(c, b) PROVE RunInv'
<1>1. /\ call[c].pc = "idle" /\ cfg' = cfg /\ ev' = ev /\ srv' = srv /\ count' = count
      /\ workers' = workers /\ results' = results /\ held' = held /\ told' = told
      /\ seen' = [seen EXCEPT !.advances = @ + 1]
  BY DEF Advance
<1>2. /\ call \in [Callers -> CallerRec] /\ call[c] \in CallerRec /\ run \in FlagsRec /\ seen \in SeenRec
      /\ srv \in ServerRec
  BY DEF RunInv, Typed
<1>3. b \in Nat
  BY RunAssumption DEF Offers
<1>4. seen' \in SeenRec /\ seen'.completed = seen.completed /\ seen'.places = seen.places
      /\ seen'.folded = seen.folded /\ seen'.wins = seen.wins
  BY <1>1, <1>2 DEF SeenRec
<1>5. CASE \E refusal \in {"closed", "busy"} :
             call' = [call EXCEPT ![c].reply = Fails(refusal)] /\ run' = run
  <2>1. PICK refusal \in {"closed", "busy"} :
             call' = [call EXCEPT ![c].reply = Fails(refusal)] /\ run' = run
    BY <1>5
  <2>2. Fails(refusal) \in ReplyRec /\ Fails(refusal).outcome = "error" /\ Fails(refusal).err = refusal
    BY FailsIs DEF Errors
  <2>4. /\ call' \in [Callers -> CallerRec] /\ call'[c].reply = Fails(refusal)
        /\ \A d \in Callers : call'[d].pc = call[d].pc /\ call'[d].gone = call[d].gone
        /\ \A d \in Callers \ {c} : call'[d] = call[d]
    BY <1>2, <2>1, <2>2 DEF CallerRec
  <2>5. Typed'
    BY <1>1, <1>4, <2>1, <2>4 DEF RunInv, Typed, Outs, Outcome
  <2>6. Calls'
    BY <1>1, <2>1, <2>4 DEF RunInv, Calls
  <2>7. Answered(call[c].reply, call[c].pc = "wait")'
    BY <2>2, <2>4, <2>1 DEF Answered
  <2>8. ASSUME NEW d \in Callers \ {c} PROVE Answered(call[d].reply, call[d].pc = "wait")'
    BY <1>1, <1>4, <2>4 DEF RunInv, Replied, Answered, Deserved
  <2>9. Replied'
    BY <2>7, <2>8 DEF Replied
  <2> QED
    BY <1>1, <1>2, <1>4, <2>1, <2>4, <2>5, <2>6, <2>9, CallersKeep DEF Stopped, ServerRec
<1>6. CASE /\ run' = [run EXCEPT !.advancing = TRUE] /\ ~run.advancing
           /\ call' = [call EXCEPT ![c] = [pc |-> "send", budget |-> b, gone |-> FALSE, reply |-> NoReply]]
  <2>1. NoReply \in ReplyRec /\ NoReply.outcome = "none" /\ NoReply.err = "none"
    BY DEF NoReply, ReplyRec, Errors
  <2>2. /\ call' \in [Callers -> CallerRec]
        /\ call'[c] = [pc |-> "send", budget |-> b, gone |-> FALSE, reply |-> NoReply]
        /\ \A d \in Callers \ {c} : call'[d] = call[d]
    BY <1>2, <1>3, <1>6, <2>1 DEF CallerRec
  <2>3. /\ run' \in FlagsRec /\ run'.advancing /\ run'.lifetime = run.lifetime
        /\ \A d \in Callers : call[d].pc = "idle"
    BY <1>2, <1>6 DEF FlagsRec, RunInv, Calls
  <2>4. Typed'
    BY <1>1, <1>4, <2>2, <2>3 DEF RunInv, Typed, Outs, Outcome
  <2>5. Calls' /\ srv.phase \notin Serving
    BY <1>1, <1>2, <2>2, <2>3 DEF RunInv, Calls, ServerRec
  <2>6. Answered(call[c].reply, call[c].pc = "wait")'
    BY <2>1, <2>2 DEF Answered
  <2>7. ASSUME NEW d \in Callers \ {c} PROVE Answered(call[d].reply, call[d].pc = "wait")'
    BY <1>1, <1>4, <2>2 DEF RunInv, Replied, Answered, Deserved
  <2>8. Replied'
    BY <2>6, <2>7 DEF Replied
  <2> QED
    BY <1>1, <1>4, <2>3, <2>4, <2>5, <2>8, CallersKeep
<1> QED
  BY <1>5, <1>6 DEF Advance

\* A caller's own step: what it does to its call and to the flags.
LEMMA CallerMoves ==
  ASSUME RunInv, NEW c \in Callers, NEW r \in CallerRec, call' = [call EXCEPT ![c] = r],
         run' \in FlagsRec, run'.lifetime = run.lifetime,
         cfg' = cfg, ev' = ev, srv' = srv, count' = count, workers' = workers,
         results' = results, held' = held, told' = told,
         seen' \in SeenRec,
         seen'.completed = seen.completed, seen'.places = seen.places,
         seen'.folded = seen.folded, seen'.wins = seen.wins,
         call[c].gone => r.gone,
         r.pc # "idle" => r.pc = call[c].pc /\ run' = run,
         srv.phase \in Serving => (srv.cur = c => r.pc = "wait"),
         r.pc = "idle" => call[c].pc # "idle",
         r.reply = call[c].reply \/
           (r.pc = "idle" /\ Answered(r.reply, FALSE))
  PROVE  RunInv'
<1>1. /\ call \in [Callers -> CallerRec] /\ srv \in ServerRec
      /\ call' \in [Callers -> CallerRec] /\ call'[c] = r
      /\ \A d \in Callers \ {c} : call'[d] = call[d]
  BY DEF RunInv, Typed
<1>2. Typed'
  BY <1>1 DEF RunInv, Typed, Outs, Outcome
<1>3. Calls'
  <2>1. CASE r.pc = "idle"
    <3>1. \A d \in Callers : call'[d].pc = "idle"
      BY <1>1, <2>1 DEF RunInv, Calls
    <3>2. srv.phase \notin Serving
      BY <1>1, <2>1 DEF RunInv, Calls, ServerRec
    <3> QED
      BY <3>1, <3>2 DEF Calls
  <2>2. CASE r.pc # "idle"
    <3>1. r.reply = call[c].reply /\ r.pc = call[c].pc /\ run' = run
      BY <2>2
    <3>2. \A d \in Callers : call'[d].pc = call[d].pc /\ call'[d].reply = call[d].reply
      BY <1>1, <3>1
    <3> QED
      BY <1>1, <3>1, <3>2 DEF RunInv, Calls, ServerRec
  <2> QED
    BY <2>1, <2>2
<1>4. Answered(call[c].reply, call[c].pc = "wait")'
  <2>1. Answered(call[c].reply, call[c].pc = "wait")
    BY DEF RunInv, Replied
  <2>2. CASE r.reply = call[c].reply /\ r.pc = "idle"
    BY <1>1, <2>1, <2>2 DEF Answered, Deserved
  <2>3. CASE r.reply = call[c].reply /\ r.pc # "idle"
    BY <1>1, <2>1, <2>3 DEF Answered, Deserved
  <2>4. CASE r.pc = "idle" /\ Answered(r.reply, FALSE)
    BY <1>1, <2>4 DEF Answered, Deserved
  <2> QED
    BY <2>2, <2>3, <2>4
<1>5. ASSUME NEW d \in Callers \ {c} PROVE Answered(call[d].reply, call[d].pc = "wait")'
  <2>1. Answered(call[d].reply, call[d].pc = "wait")
    BY DEF RunInv, Replied
  <2> QED
    BY <1>1, <2>1 DEF Answered, Deserved
<1>6. Replied'
  BY <1>4, <1>5 DEF Replied
<1>7. srv.phase \in Serving /\ Stopped => Stopped'
  BY <1>1 DEF Stopped, ServerRec
<1> QED
  BY <1>2, <1>3, <1>6, <1>7, CallersKeep

\* The context of a caller ends.
LEMMA CancelKeeps == ASSUME RunInv, NEW c \in Callers, CancelCaller(c) PROVE RunInv'
<1> DEFINE r == [call[c] EXCEPT !.gone = TRUE]
<1>1. /\ call \in [Callers -> CallerRec] /\ call[c] \in CallerRec /\ run \in FlagsRec
      /\ seen \in SeenRec /\ call[c].pc \in {"send", "wait"}
  BY DEF RunInv, Typed, CancelCaller
<1>2. /\ r \in CallerRec /\ r.gone /\ r.pc = call[c].pc /\ r.reply = call[c].reply
      /\ call' = [call EXCEPT ![c] = r]
  BY <1>1 DEF CancelCaller, CallerRec
<1>3. seen' \in SeenRec /\ seen'.completed = seen.completed /\ seen'.places = seen.places
      /\ seen'.folded = seen.folded /\ seen'.wins = seen.wins
  <2>1. seen' = [seen EXCEPT !.faults = @ + 1]
    BY DEF CancelCaller
  <2> QED
    BY <1>1, <2>1 DEF SeenRec
<1>4. srv.phase \in Serving => (srv.cur = c => r.pc = "wait")
  BY <1>2 DEF RunInv, Calls
<1> QED
  BY <1>1, <1>2, <1>3, <1>4, CallerMoves DEF CancelCaller

\* A caller whose command was not taken gives up.
LEMMA GiveUpKeeps == ASSUME RunInv, NEW c \in Callers, GiveUp(c) PROVE RunInv'
<1>1. PICK err \in {"ctx", "closed"} :
        call' = [call EXCEPT ![c].pc = "idle", ![c].reply = Fails(err)]
  BY DEF GiveUp
<1> DEFINE r == [call[c] EXCEPT !.pc = "idle", !.reply = Fails(err)]
<1>2. /\ call \in [Callers -> CallerRec] /\ call[c] \in CallerRec /\ run \in FlagsRec
      /\ seen \in SeenRec /\ call[c].pc = "send"
      /\ run' \in FlagsRec /\ run'.lifetime = run.lifetime
  BY DEF RunInv, Typed, GiveUp, FlagsRec
<1>3. Fails(err) \in ReplyRec /\ Fails(err).outcome = "error" /\ Fails(err).err = err
  BY FailsIs DEF Errors
<1>5. Answered(Fails(err), FALSE)
  BY <1>3 DEF Answered
<1>6. /\ r \in CallerRec /\ r.gone = call[c].gone /\ r.pc = "idle" /\ r.reply = Fails(err)
      /\ call' = [call EXCEPT ![c] = r]
  BY <1>1, <1>2, <1>3 DEF CallerRec
<1>7. srv.phase \in Serving => srv.cur # c
  BY <1>2 DEF RunInv, Calls
<1> QED
  BY <1>2, <1>5, <1>6, <1>7, CallerMoves DEF GiveUp

\* A caller takes its reply back.
LEMMA ReturnKeeps == ASSUME RunInv, NEW c \in Callers, Return(c) PROVE RunInv'
<1> DEFINE p == call[c].reply
           q == [p EXCEPT !.outcome = IF Identifying /\ p.outcome = "paused" THEN "inconclusive" ELSE p.outcome]
           r == [call[c] EXCEPT !.pc = "idle", !.reply = q]
<1>2. /\ call \in [Callers -> CallerRec] /\ call[c] \in CallerRec /\ run \in FlagsRec
      /\ seen \in SeenRec /\ call[c].pc = "wait" /\ p.outcome # "none"
      /\ run' \in FlagsRec /\ run'.lifetime = run.lifetime
  BY DEF RunInv, Typed, Return, FlagsRec
<1>3. /\ q \in ReplyRec /\ q.item = p.item /\ q.err = p.err
      /\ q.outcome = p.outcome \/ q.outcome = "inconclusive"
  BY <1>2 DEF CallerRec, ReplyRec
<1>5. Answered(q, FALSE)
  BY <1>3 DEF RunInv, Replied, Answered
<1>6. /\ r \in CallerRec /\ r.gone = call[c].gone /\ r.pc = "idle" /\ r.reply = q
  BY <1>2, <1>3 DEF CallerRec
<1>7. call' = [call EXCEPT ![c] = r]
  BY <1>2 DEF Return, CallerRec
<1>8. srv.phase \in Serving => srv.cur # c
  BY <1>2 DEF RunInv, Calls, NoReply
<1> HIDE DEF q, r
<1> QED
  BY <1>2, <1>5, <1>6, <1>7, <1>8, CallerMoves DEF Return

\* Closing the run only sets its flags.
LEMMA CloseKeeps == ASSUME RunInv, Close \/ CloseReturns PROVE RunInv'
<1>1. /\ run \in FlagsRec /\ call' = call /\ cfg' = cfg /\ ev' = ev /\ srv' = srv
      /\ count' = count /\ workers' = workers /\ results' = results /\ held' = held
      /\ told' = told /\ seen' = seen
  BY DEF RunInv, Typed, Close, CloseReturns
<1>2. run' \in FlagsRec /\ run'.advancing = run.advancing /\ (run.lifetime => run'.lifetime)
  BY <1>1 DEF Close, CloseReturns, Closing, FlagsRec
<1>3. Typed'
  BY <1>1, <1>2 DEF RunInv, Typed, Outs, Outcome
<1>4. Calls'
  BY <1>1, <1>2 DEF RunInv, Calls
<1>5. Replied'
  BY <1>1 DEF RunInv, Replied, Answered, Deserved
<1>6. Stopped => Stopped'
  BY <1>1, <1>2 DEF Stopped
<1> QED
  BY <1>1, <1>2, <1>3, <1>4, <1>5, <1>6, CallersKeep

-----------------------------------------------------------------------------
(* The comparisons.                                                        *)

\* What is underway is finite.
LEMMA LiveFinite ==
  ASSUME Typed, Tickets
  PROVE  /\ IsFiniteSet(Live) /\ IsFiniteSet(Outs) /\ IsFiniteSet(held) /\ IsFiniteSet(Good)
         /\ \A o \in Outs : IsFiniteSet(o.items)
         /\ Cardinality(Good) \in Nat /\ Sizes(Good) \in Nat
         /\ \A S \in SUBSET Outs : IsFiniteSet(S) /\ Cardinality(S) \in Nat /\ Sizes(S) \in Nat
<1>1. IsFiniteSet(Live)
  <2>1. CASE srv.phase \in Loop
    <3>1. count.done \in Int /\ count.launched \in Int
      BY DEF Typed, CountRec
    <3> QED
      BY <2>1, <3>1, IndexedSize DEF Tickets
  <2>2. CASE srv.phase \notin Loop
    BY <2>2, FS_EmptySet DEF Tickets
  <2> QED
    BY <2>1, <2>2
<1>2. \A o \in Outs : IsFiniteSet(o.items)
  BY IdsFinite DEF Typed, Outcome
<1>3. ASSUME NEW S \in SUBSET Outs PROVE IsFiniteSet(S) /\ Cardinality(S) \in Nat /\ Sizes(S) \in Nat
  <2>1. IsFiniteSet(S)
    BY <1>1, FS_Subset DEF Live
  <2> QED
    BY <1>2, <2>1, SizesFinite, FS_CardinalityType
<1>4. Good \in SUBSET Outs /\ held \in SUBSET Outs
  BY DEF Good, Outs
<1> QED
  BY <1>1, <1>2, <1>3, <1>4

\* A comparison that returns moves its ticket from the workers to the results.
LEMMA DeliverKeeps ==
  ASSUME RunInv, NEW w \in workers, NEW o,
         o.index = w.index, o.items = w.items, Outcome(o), o.err = "canceled" => Cancelled,
         workers' = workers \ {w}, results' = results \cup {o}, held' = held,
         cfg' = cfg, ev' = ev, srv' = srv, count' = count, run' = run, call' = call, told' = told,
         seen' \in SeenRec, seen'.folded = seen.folded, seen'.wins = seen.wins,
         o.err = "none" => /\ seen'.completed = seen.completed + 1
                           /\ seen'.places = seen.places + Cardinality(o.items),
         o.err # "none" => seen'.completed = seen.completed /\ seen'.places = seen.places
  PROVE  RunInv'
<1>1. srv.phase \in Loop /\ Indexed(Live, count.done, count.launched) /\ w \in Live
  BY DEF RunInv, Tickets, Live
<1>2. o \notin Outs /\ o \notin workers \ {w}
  BY <1>1 DEF Indexed, Live, Outs, RunInv, Tickets
<1>3. Outs' = Outs \cup {o} /\ Live' = (Live \ {w}) \cup {o}
  BY DEF Outs, Live, RunInv, Tickets
<1>4. Typed'
  BY <1>3 DEF RunInv, Typed, Outcome
<1>5. Tickets'
  <2>1. workers' \cap Outs' = {} /\ results' \cap held' = {}
    BY <1>2, <1>3 DEF RunInv, Tickets, Outs
  <2>2. Indexed(Live', count.done, count.launched)
    BY <1>1, <1>3 DEF Indexed
  <2> QED
    BY <1>1, <2>1, <2>2 DEF RunInv, Tickets
<1>6. Modes' /\ Weighed'
  BY DEF RunInv, Modes, Weighed, Deserved
<1>7. Caused'
  <2>1. o.err = "canceled" => Stopped \/ srv.cancelled
    BY DEF Cancelled, Stopped
  <2>2. Fault(Outs) => Fault(Outs')
    BY <1>3 DEF Fault
  <2>3. srv.cancelled => Stopped \/ srv.phase = "drain" \/ Bad(held)
    BY <1>1 DEF RunInv, Caused, Stopped
  <2>4. srv.phase = "drain" => srv.err = "none" \/ Bad(held)
    BY <1>1 DEF RunInv, Caused
  <2>5. Bad(held) => Fault(Outs) \/ \E p \in Outs : p.err = "canceled"
    BY DEF Bad, Fault, Outs, RunInv, Typed, Outcome
  <2>6. (\E p \in Outs' : p.err = "canceled") =>
          Stopped \/ Fault(Outs') \/ (srv.phase = "drain" /\ srv.err = "none")
    BY <1>1, <1>3, <2>1, <2>2, <2>3, <2>4, <2>5 DEF RunInv, Caused
  <2>7. Stopped' = Stopped
    BY DEF Stopped
  <2> QED
    BY <2>6, <2>7 DEF RunInv, Caused
<1>8. Accounted'
  <2>1. /\ seen \in SeenRec /\ count \in CountRec
        /\ IsFiniteSet(Good) /\ Cardinality(Good) \in Nat /\ Sizes(Good) \in Nat
        /\ \A p \in Outs : IsFiniteSet(p.items)
    BY LiveFinite DEF RunInv, Typed
  <2>2. o.items \in SUBSET Ids /\ IsFiniteSet(o.items) /\ Cardinality(o.items) \in Nat
    BY IdsFinite DEF Outcome
  <2>3. Balanced
    BY <1>1 DEF RunInv, Accounted, Loop
  <2>4. CASE o.err = "none"
    <3>1. Good' = Good \cup {o} /\ o \notin Good
      BY <1>2, <1>3, <2>4 DEF Good
    <3>2. Cardinality(Good') = Cardinality(Good) + 1
      BY <2>1, <3>1, FS_AddElement
    <3>3. IsFiniteSet({o}) /\ Good \cap {o} = {}
      BY <3>1, FS_Singleton
    <3>4. \A p \in Good : IsFiniteSet(p.items)
      BY <2>1 DEF Good
    <3>5. Sizes(Good \cup {o}) = Sizes(Good) + Sizes({o})
      BY <2>1, <2>2, <3>3, <3>4, SizesUnion
    <3>6. Sizes(Good') = Sizes(Good) + Cardinality(o.items)
      BY <2>2, <3>1, <3>5, SizesOne
    <3>7. /\ seen.completed \in Int /\ seen.places \in Int /\ count.done \in Int
          /\ count.places \in Int /\ count.lost \in Int /\ count.discarded \in Int
      BY <2>1 DEF SeenRec, CountRec
    <3>8. Balanced'
      BY <2>1, <2>2, <2>3, <2>4, <3>2, <3>6, <3>7 DEF Balanced
    <3> QED
      BY <1>1, <3>8 DEF RunInv, Accounted, NoneLost, Loop
  <2>5. CASE o.err # "none"
    <3>1. Good' = Good
      BY <1>3, <2>5 DEF Good
    <3>2. Balanced'
      BY <2>3, <2>5, <3>1 DEF Balanced
    <3> QED
      BY <1>1, <3>2 DEF RunInv, Accounted, NoneLost, Loop
  <2> QED
    BY <2>4, <2>5
<1>9. Calls'
  BY DEF RunInv, Calls
<1>10. Replied'
  <2>1. srv.phase \notin {"idle", "exited"}
    BY <1>1 DEF Loop
  <2> QED
    BY <2>1 DEF RunInv, Replied, Answered, Deserved
<1> QED
  BY <1>4, <1>5, <1>6, <1>7, <1>8, <1>9, <1>10 DEF RunInv

\* The counts of the account are integers.
LEMMA SeenInts ==
  ASSUME NEW s \in SeenRec
  PROVE  s.completed \in Int /\ s.places \in Int /\ s.faults \in Int
BY DEF SeenRec

\* A fault moves no other count.
LEMMA SeenFault ==
  ASSUME NEW s \in SeenRec, NEW a \in Int, NEW t, t = [s EXCEPT !.faults = a]
  PROVE  /\ t \in SeenRec /\ t.folded = s.folded /\ t.wins = s.wins
         /\ t.completed = s.completed /\ t.places = s.places
BY DEF SeenRec

\* A comparison returns, fails or is cancelled.
LEMMA CompareKeeps ==
  ASSUME RunInv, NEW w \in workers, CompareReturns(w) \/ CompareFails(w) \/ CompareCancelled(w)
  PROVE  RunInv'
<1>1. /\ seen \in SeenRec /\ w.index \in Nat /\ w.items \in SUBSET Ids
      /\ Cardinality(w.items) \in Nat
  BY IdsFinite DEF RunInv, Typed
<1> DEFINE out(ranks, err) ==
      [index |-> w.index, items |-> w.items, confirming |-> w.confirming, ranks |-> ranks, err |-> err]
<1>2. CASE CompareReturns(w)
  <2>1. PICK ranks \in Rankings(w.items) : Deliver(w, ranks, "none")
    BY <1>2 DEF CompareReturns
  <2>2. DOMAIN ranks = w.items
    BY DEF Rankings
  <2>3. Outcome(out(ranks, "none"))
    BY <1>1, <2>2 DEF Outcome
  <2>4. seen' = [seen EXCEPT !.completed = @ + 1, !.places = @ + Cardinality(w.items)]
    BY <1>2 DEF CompareReturns
  <2>5. /\ seen' \in SeenRec /\ seen'.folded = seen.folded /\ seen'.wins = seen.wins
        /\ seen'.completed = seen.completed + 1 /\ seen'.places = seen.places + Cardinality(w.items)
    <3>1. seen.completed + 1 \in Int /\ seen.places + Cardinality(w.items) \in Int
      BY <1>1, SeenInts
    <3> DEFINE a == seen.completed + 1
               b == seen.places + Cardinality(w.items)
    <3>2. seen' = [seen EXCEPT !.completed = a, !.places = b]
      BY <2>4
    <3>4. a \in Int /\ b \in Int
      BY <3>1
    <3> HIDE DEF a, b
    <3>3. /\ seen' \in SeenRec /\ seen'.folded = seen.folded /\ seen'.wins = seen.wins
          /\ seen'.completed = a /\ seen'.places = b
      BY <1>1, <3>2, <3>4 DEF SeenRec
    <3> QED
      BY <3>3 DEF a, b
  <2> QED
    BY <2>1, <2>3, <2>5, DeliverKeeps DEF Deliver
<1>3. CASE CompareFails(w)
  <2>1. Deliver(w, <<>>, "fail") /\ Outcome(out(<<>>, "fail"))
    BY <1>1, <1>3 DEF CompareFails, Outcome
  <2>2. seen' = [seen EXCEPT !.faults = @ + 1]
    BY <1>3 DEF CompareFails
  <2>3. /\ seen' \in SeenRec /\ seen'.folded = seen.folded /\ seen'.wins = seen.wins
        /\ seen'.completed = seen.completed /\ seen'.places = seen.places
    <3>1. seen.faults + 1 \in Int
      BY <1>1, SeenInts
    <3> QED
      BY <1>1, <2>2, <3>1, SeenFault
  <2> QED
    BY <2>1, <2>3, DeliverKeeps DEF Deliver
<1>4. CASE CompareCancelled(w)
  <2>1. Cancelled /\ Deliver(w, <<>>, "canceled") /\ Outcome(out(<<>>, "canceled")) /\ seen' = seen
    BY <1>1, <1>4 DEF CompareCancelled, Outcome
  <2> QED
    BY <1>1, <2>1, DeliverKeeps DEF Deliver
<1> QED
  BY <1>2, <1>3, <1>4

-----------------------------------------------------------------------------
(* The loop between comparisons.                                           *)

\* A step from one place of the loop to another, before any answer is known.
LEMMA ServerMoves ==
  ASSUME RunInv, cfg' = cfg, count' = count, workers' = workers, results' = results, held' = held,
         run' = run, call' = call, seen' = seen, told' = told,
         srv' \in ServerRec, srv'.cur = srv.cur, srv'.found = srv.found, srv'.err = srv.err,
         ev' \in EvidenceRec, ev'.active = ev.active, ev'.neg = ev.neg, ev'.clean = ev.clean,
         srv.phase \notin {"drain", "reply", "exited"},
         srv'.phase \in Loop => srv.phase \in Loop,
         srv'.phase \notin Loop => Live = {},
         srv'.phase \in Serving => srv.phase \in Serving,
         srv.phase = "idle" => srv'.phase \in {"idle", "exited"},
         Modes',
         srv'.phase = "drain" => ev.active = {} \/ count.launched = count.done \/ Stopped,
         srv'.phase \in Loop /\ srv'.cancelled =>
           run.lifetime \/ srv'.phase = "drain" \/ (srv'.phase = "gather" /\ Bad(held))
  PROVE  RunInv'
<1>1. Outs' = Outs /\ Live' = Live /\ Good' = Good /\ Stopped' = Stopped
  BY DEF Outs, Live, Good, Stopped
<1>2. srv.err = "none" /\ srv.found = NoItem
  BY DEF RunInv, Caused, Weighed
<1>3. Typed'
  BY <1>1 DEF RunInv, Typed
<1>4. Tickets'
  BY <1>1 DEF RunInv, Tickets
<1>5. Weighed'
  BY <1>2 DEF RunInv, Weighed
<1>6. Caused'
  BY <1>1, <1>2 DEF RunInv, Caused
<1>7. Accounted'
  BY <1>1 DEF RunInv, Accounted, Balanced, NoneLost
<1>8. Calls'
  BY DEF RunInv, Calls
<1>9. Replied'
  <2>1. ASSUME NEW c \in Callers PROVE Answered(call[c].reply, call[c].pc = "wait")'
    BY DEF RunInv, Replied, Answered, Deserved
  <2> QED
    BY <2>1 DEF Replied
<1> QED
  BY <1>3, <1>4, <1>5, <1>6, <1>7, <1>8, <1>9 DEF RunInv

\* The loop accepts the request or refuses it, and exits when the run is closed.
LEMMA ServeInitKeeps == ASSUME RunInv, ServeInit \/ ServeStop PROVE RunInv'
<1>1. PICK p \in {"refused", "idle", "exited"} : srv' = [srv EXCEPT !.phase = p]
  BY DEF ServeInit, ServeStop
<1>2. /\ srv \in ServerRec /\ srv.phase \in {"init", "idle"} /\ (srv.phase = "idle" => p = "exited")
  BY <1>1 DEF RunInv, Typed, ServeInit, ServeStop, ServerRec
<1>3. /\ srv' \in ServerRec /\ srv'.cur = srv.cur /\ srv'.found = srv.found
      /\ srv'.err = srv.err /\ srv'.phase = p
  BY <1>1, <1>2 DEF ServerRec, Phases
<1>4. Modes'
  BY <1>3 DEF Modes
<1>5. /\ cfg' = cfg /\ count' = count /\ workers' = workers /\ results' = results /\ held' = held
      /\ run' = run /\ call' = call /\ seen' = seen /\ told' = told /\ ev' = ev
  BY DEF ServeInit, ServeStop
<1>6. srv.phase \notin Loop /\ srv'.phase \notin Serving /\ srv'.phase \notin Loop /\ Live = {}
  BY <1>2, <1>3 DEF Loop, Serving, RunInv, Tickets
<1>7. ev \in EvidenceRec
  BY DEF RunInv, Typed
<1> QED
  BY <1>2, <1>3, <1>4, <1>5, <1>6, <1>7, ServerMoves

\* The end of the lifetime cancels the advance.
LEMMA LifetimeKeeps == ASSUME RunInv, LifetimeCancels PROVE RunInv'
<1>1. /\ srv' = [srv EXCEPT !.cancelled = TRUE] /\ srv \in ServerRec /\ run.lifetime
      /\ cfg' = cfg /\ count' = count /\ workers' = workers /\ results' = results /\ held' = held
      /\ run' = run /\ call' = call /\ seen' = seen /\ told' = told /\ ev' = ev
  BY DEF LifetimeCancels, RunInv, Typed
<1>2. /\ srv' \in ServerRec /\ srv'.phase = srv.phase /\ srv'.cur = srv.cur
      /\ srv'.found = srv.found /\ srv'.err = srv.err
  BY <1>1 DEF ServerRec
<1>3. Outs' = Outs /\ Live' = Live /\ Good' = Good /\ Stopped' = Stopped
  BY <1>1, <1>2 DEF Outs, Live, Good, Stopped
<1>4. Typed'
  BY <1>1, <1>2, <1>3 DEF RunInv, Typed
<1>5. Tickets' /\ Modes'
  BY <1>1, <1>2, <1>3 DEF RunInv, Tickets, Modes
<1>6. Weighed'
  BY <1>1, <1>2 DEF RunInv, Weighed, Deserved
<1>7. Caused'
  BY <1>1, <1>2, <1>3 DEF RunInv, Caused
<1>8. Accounted'
  BY <1>1, <1>2, <1>3 DEF RunInv, Accounted, Balanced, NoneLost
<1>9. Calls'
  BY <1>1, <1>2 DEF RunInv, Calls
<1>10. Replied'
  BY <1>1, <1>2 DEF RunInv, Replied, Answered, Deserved
<1> QED
  BY <1>4, <1>5, <1>6, <1>7, <1>8, <1>9, <1>10 DEF RunInv

\* A wave begins, or the advance is over before it.
LEMMA PlanKeeps == ASSUME RunInv, PlanWave PROVE RunInv'
<1>1. /\ srv.phase = "plan" /\ srv \in ServerRec /\ ev \in EvidenceRec
      /\ cfg' = cfg /\ count' = count /\ workers' = workers /\ results' = results /\ held' = held
      /\ run' = run /\ call' = call /\ seen' = seen /\ told' = told
  BY DEF PlanWave, RunInv, Typed
<1>2. ~cfg.rolling /\ count.launched = count.done /\ (srv.cancelled => run.lifetime)
  BY <1>1 DEF RunInv, Modes, Caused, Loop
<1>3. Live = {}
  <2>1. Indexed(Live, count.done, count.done) /\ count.done \in Int
    BY <1>1, <1>2 DEF RunInv, Tickets, Loop, Typed, CountRec
  <2> QED
    BY <2>1 DEF Indexed
<1>4. CASE srv' = [srv EXCEPT !.phase = "reply"] /\ ev' = ev
  <2>1. /\ srv' \in ServerRec /\ srv'.phase = "reply" /\ srv'.cur = srv.cur
        /\ srv'.found = srv.found /\ srv'.err = srv.err
    BY <1>1, <1>4 DEF ServerRec, Phases, Serving
  <2>2. Modes' /\ srv.phase \in Serving
    BY <1>1, <2>1 DEF Modes, Serving, Loop
  <2> QED
    BY <1>1, <1>3, <1>4, <2>1, <2>2, ServerMoves DEF Loop
<1>5. CASE \E nominee \in Candidates \cup {NoItem} :
             /\ srv' = [srv EXCEPT !.phase = "wave", !.nominee = nominee]
             /\ ev' = [ev EXCEPT !.discovered = @ /\ nominee = NoItem]
  <2>1. PICK nominee \in Candidates \cup {NoItem} :
             /\ srv' = [srv EXCEPT !.phase = "wave", !.nominee = nominee]
             /\ ev' = [ev EXCEPT !.discovered = @ /\ nominee = NoItem]
    BY <1>5
  <2>2. /\ srv' \in ServerRec /\ srv'.phase = "wave" /\ srv'.cur = srv.cur
        /\ srv'.found = srv.found /\ srv'.err = srv.err /\ srv'.cancelled = srv.cancelled
    BY <1>1, <2>1 DEF ServerRec, Phases, Serving, Loop
  <2>3. ev' \in EvidenceRec /\ ev'.active = ev.active /\ ev'.neg = ev.neg /\ ev'.clean = ev.clean
    BY <1>1, <2>1 DEF EvidenceRec
  <2>4. Modes' /\ srv.phase \in Serving
    BY <1>1, <1>2, <2>2 DEF Modes, Serving, Loop
  <2> QED
    BY <1>1, <1>2, <1>3, <2>2, <2>3, <2>4, ServerMoves DEF Loop
<1>6. Nominees(cfg, ev) \subseteq Candidates
  BY <1>1 DEF Nominees, Leaders, EvidenceRec
<1> QED
  BY <1>4, <1>5, <1>6 DEF PlanWave

\* A launched wave is gathered.
LEMMA WaveLaunchedKeeps == ASSUME RunInv, WaveLaunched PROVE RunInv'
<1>1. /\ srv.phase = "wave" /\ srv \in ServerRec /\ ev \in EvidenceRec
      /\ srv' = [srv EXCEPT !.phase = "gather"]
      /\ cfg' = cfg /\ count' = count /\ workers' = workers /\ results' = results /\ held' = held
      /\ run' = run /\ call' = call /\ seen' = seen /\ told' = told /\ ev' = ev
  BY DEF WaveLaunched, RunInv, Typed
<1>2. /\ srv' \in ServerRec /\ srv'.phase = "gather" /\ srv'.cur = srv.cur
      /\ srv'.found = srv.found /\ srv'.err = srv.err /\ srv'.cancelled = srv.cancelled
  BY <1>1 DEF ServerRec, Phases, Serving, Loop
<1>3. Modes' /\ (srv.cancelled => run.lifetime) /\ srv.phase \in Serving
  BY <1>1, <1>2 DEF RunInv, Modes, Caused, Loop, Serving
<1> QED
  BY <1>1, <1>2, <1>3, ServerMoves DEF Loop

\* A full window waits; without work, or when stopped, it drains.
LEMMA RollFilledKeeps == ASSUME RunInv, RollFilled PROVE RunInv'
<1>1. /\ srv.phase = "fill" /\ srv \in ServerRec /\ ev \in EvidenceRec
      /\ srv' = [srv EXCEPT !.phase = AfterFill, !.cancelled = @ \/ AfterFill = "drain"]
      /\ cfg' = cfg /\ count' = count /\ workers' = workers /\ results' = results /\ held' = held
      /\ run' = run /\ call' = call /\ seen' = seen /\ told' = told /\ ev' = ev
  BY DEF RollFilled, RunInv, Typed
<1>2. AfterFill \in {"collect", "drain"}
  BY DEF AfterFill
<1>3. /\ srv' \in ServerRec /\ srv'.phase = AfterFill /\ srv'.cur = srv.cur
      /\ srv'.found = srv.found /\ srv'.err = srv.err
      /\ srv'.phase # "drain" => srv'.cancelled = srv.cancelled
  BY <1>1, <1>2 DEF ServerRec, Phases, Serving, Loop
<1>4. Modes' /\ (srv.cancelled => run.lifetime) /\ srv.phase \in Serving
  BY <1>1, <1>2, <1>3 DEF RunInv, Modes, Caused, Loop, Serving
<1>5. count.done <= count.launched /\ count.done \in Int /\ count.launched \in Int
  BY <1>1 DEF RunInv, Tickets, Loop, Typed, CountRec
<1>6. AfterFill = "drain" => ev.active = {} \/ count.launched = count.done \/ Stopped
  BY <1>4, <1>5 DEF AfterFill, Cancelled, Stopped
<1> QED
  BY <1>1, <1>2, <1>3, <1>4, <1>6, ServerMoves DEF Loop

-----------------------------------------------------------------------------
(* Dispatch.                                                               *)

\* The library's least and greatest of two numbers.
LEMMA Extremes ==
  ASSUME NEW a \in Int, NEW b \in Int
  PROVE  /\ Min({a, b}) \in {a, b} /\ Min({a, b}) <= a /\ Min({a, b}) <= b
         /\ Max({a, b}) \in {a, b}
<1>1. \E x \in {a, b} : \A y \in {a, b} : x <= y
  OBVIOUS
<1>2. \E x \in {a, b} : \A y \in {a, b} : x >= y
  OBVIOUS
<1> QED
  BY <1>1, <1>2 DEF Min, Max

\* The window admits at least one comparison.
LEMMA WindowInt == Window \in Nat \ {0}
<1>1. Channel \in Int /\ 1 \in Int /\ MaxTotal \in Nat \ {0}
  BY RunAssumption
<1> DEFINE a == Max({Channel, 1})
<1>2. a \in Int /\ a >= 1
  <2>1. \E x \in {Channel, 1} : \A y \in {Channel, 1} : x >= y
    BY <1>1
  <2>2. a \in {Channel, 1} /\ \A y \in {Channel, 1} : a >= y
    BY <2>1 DEF Max
  <2> QED
    BY <1>1, <2>2
<1>3. Window = Min({a, MaxTotal})
  BY DEF Window, ResolveConcurrency
<1> HIDE DEF a
<1>4. Min({a, MaxTotal}) \in {a, MaxTotal}
  BY <1>1, <1>2, Extremes
<1> QED
  BY <1>1, <1>2, <1>3, <1>4

\* A comparison places candidates and controls.
LEMMA PlacesIds ==
  ASSUME NEW c \in Configs, NEW e \in EvidenceRec
  PROVE  /\ Discoveries(c, e) \subseteq SUBSET Ids
         /\ \A i \in Candidates : Confirmation(c, i) \in SUBSET Ids
<1> DEFINE controls(want) == {Control(Baseline, j) : j \in 0..(UpTo(c.supply, want) - 1)}
<1>1. c.supply \in Int /\ Width \in Nat \ {0, 1}
  BY RunAssumption, SolverAssumption
<1>2. ASSUME NEW want \in Int, want <= Width PROVE controls(want) \subseteq Ids
  <2>1. UpTo(c.supply, want) \in Int /\ UpTo(c.supply, want) <= Width
    <3>1. Min({c.supply, want}) \in {c.supply, want} /\ Min({c.supply, want}) <= want
      BY <1>1, Extremes
    <3> DEFINE m == Min({c.supply, want})
    <3>2. m \in Int /\ m <= Width
      BY <1>1, <1>2, <3>1
    <3> HIDE DEF m
    <3>3. UpTo(c.supply, want) \in {0, m}
      BY DEF UpTo, m
    <3> QED
      BY <1>1, <3>2, <3>3
  <2>2. 0..(UpTo(c.supply, want) - 1) \subseteq 0..Width
    BY <1>1, <2>1
  <2> QED
    BY <2>2 DEF Ids
<1>3. \A i \in Candidates : Confirmation(c, i) \in SUBSET Ids
  <2>1. Width - 1 \in Int /\ Width - 1 <= Width
    BY <1>1
  <2>2. controls(Width - 1) \subseteq Ids
    BY <1>2, <2>1
  <2> QED
    BY <2>2 DEF Confirmation, Ids
<1>4. ASSUME NEW S \in Selections(c, e)
      PROVE  S \subseteq Candidates /\ controls(Width - Cardinality(S)) \subseteq Ids
  <2>1. S \subseteq Candidates
    BY DEF Selections, kSubset, EvidenceRec
  <2>2. IsFiniteSet(S) /\ Cardinality(S) \in Nat
    BY <2>1, IdsFinite DEF Ids
  <2>3. Width - Cardinality(S) \in Int /\ Width - Cardinality(S) <= Width
    BY <1>1, <2>2
  <2> QED
    BY <1>2, <2>1, <2>3
<1>5. ASSUME NEW items \in Comparisons(c, e) PROVE items \in SUBSET Ids
  <2>1. PICK S \in Selections(c, e), pad \in SUBSET (Candidates \ e.active) :
          items = S \cup controls(Width - Cardinality(S)) \cup pad
    BY DEF Comparisons
  <2> QED
    BY <1>4, <2>1 DEF Ids
<1> QED
  BY <1>3, <1>5 DEF Discoveries

\* A dispatched comparison takes the next index.
LEMMA StartKeeps ==
  ASSUME RunInv, NEW items \in SUBSET Ids, NEW confirming, Start(items, confirming),
         srv.phase \in {"wave", "fill"}, count.launched - count.done < Window,
         srv' \in ServerRec, srv'.phase = srv.phase, srv'.cur = srv.cur,
         srv'.found = srv.found, srv'.err = srv.err, srv'.cancelled = srv.cancelled,
         ev' \in EvidenceRec, ev'.active = ev.active, ev'.neg = ev.neg, ev'.clean = ev.clean
  PROVE  RunInv'
<1> DEFINE w == [index |-> count.launched, items |-> items, confirming |-> confirming]
<1>1. /\ workers' = workers \cup {w} /\ count' = [count EXCEPT !.launched = @ + 1]
      /\ cfg' = cfg /\ results' = results /\ held' = held
      /\ run' = run /\ call' = call /\ seen' = seen /\ told' = told
      /\ count \in CountRec
  BY DEF Start, RunInv, Typed
<1>2. /\ srv.phase \in Loop /\ srv.phase \notin {"drain", "reply", "exited", "settle", "plan", "idle"}
      /\ Indexed(Live, count.done, count.launched) /\ count.done <= count.launched
  BY DEF Loop, RunInv, Tickets
<1>3. /\ count' \in CountRec /\ count'.launched = count.launched + 1
      /\ count'.done = count.done /\ count'.places = count.places
      /\ count'.discarded = count.discarded /\ count'.lost = count.lost
      /\ count.done \in Nat /\ count.launched \in Nat
  BY <1>1, <1>2 DEF CountRec
<1>4. w.index = count.launched /\ w.items = items
  OBVIOUS
<1> HIDE DEF w
<1>5. Outs' = Outs /\ Live' = Live \cup {w} /\ Good' = Good
  BY <1>1 DEF Outs, Live, Good
<1>6. w \notin Live
  BY <1>2, <1>3, <1>4 DEF Indexed
<1>7. Typed'
  BY <1>1, <1>3, <1>4, <1>5 DEF RunInv, Typed
<1>8. Tickets'
  <2>1. Indexed(Live', count'.done, count'.launched)
    BY <1>2, <1>3, <1>4, <1>5, <1>6 DEF Indexed
  <2>2. count'.launched - count'.done <= Window
    BY <1>3, WindowInt
  <2>3. workers' \cap Outs' = {}
    BY <1>1, <1>5, <1>6 DEF RunInv, Tickets, Live
  <2> QED
    BY <1>1, <1>2, <1>3, <2>1, <2>2, <2>3 DEF RunInv, Tickets
<1>9. Modes'
  BY <1>1, <1>2 DEF RunInv, Modes
<1>10. Weighed'
  BY <1>1 DEF RunInv, Weighed, Deserved
<1>11. Caused'
  BY <1>1, <1>2, <1>5 DEF RunInv, Caused, Stopped
<1>12. Accounted'
  BY <1>1, <1>2, <1>3, <1>5 DEF RunInv, Accounted, Balanced, NoneLost
<1>13. Calls'
  BY <1>1 DEF RunInv, Calls
<1>14. Replied'
  <2>1. ASSUME NEW c \in Callers PROVE Answered(call[c].reply, call[c].pc = "wait")'
    BY <1>1, <1>2 DEF RunInv, Replied, Answered, Deserved
  <2> QED
    BY <2>1 DEF Replied
<1> QED
  BY <1>7, <1>8, <1>9, <1>10, <1>11, <1>12, <1>13, <1>14 DEF RunInv

\* A wave dispatches its next comparison.
LEMMA WaveLaunchKeeps == ASSUME RunInv, WaveLaunch PROVE RunInv'
<1>1. /\ srv.phase = "wave" /\ srv' = srv /\ srv \in ServerRec /\ ev \in EvidenceRec
      /\ cfg \in Configs /\ count \in CountRec
  BY DEF WaveLaunch, RunInv, Typed
<1>2. count.launched - count.done < Window
  <2>1. /\ count.end - count.done \in Int /\ count.launched - count.done \in Int /\ Window \in Int
    BY <1>1, WindowInt DEF CountRec
  <2>2. /\ Min({Window, count.end - count.done}) <= Window
        /\ Min({Window, count.end - count.done}) \in {Window, count.end - count.done}
    BY <2>1, Extremes
  <2>3. count.launched - count.done < Min({Window, count.end - count.done})
    BY DEF WaveLaunch
  <2> QED
    BY <2>1, <2>2, <2>3
<1>3. CASE srv.nominee # NoItem /\ Start(Confirmation(cfg, srv.nominee), srv.nominee) /\ ev' = ev
  <2>1. srv.nominee \in Candidates
    BY <1>1, <1>3 DEF ServerRec
  <2>2. Confirmation(cfg, srv.nominee) \in SUBSET Ids
    BY <1>1, <2>1, PlacesIds
  <2> QED
    BY <1>1, <1>2, <1>3, <2>2, StartKeeps
<1>4. CASE /\ \E items \in Discoveries(cfg, ev) : Start(items, NoItem)
           /\ ev' = [ev EXCEPT !.discovered = TRUE]
  <2>1. PICK items \in Discoveries(cfg, ev) : Start(items, NoItem)
    BY <1>4
  <2>2. items \in SUBSET Ids
    BY <1>1, PlacesIds
  <2>3. ev' \in EvidenceRec /\ ev'.active = ev.active /\ ev'.neg = ev.neg /\ ev'.clean = ev.clean
    BY <1>1, <1>4 DEF EvidenceRec
  <2> QED
    BY <1>1, <1>2, <2>1, <2>2, <2>3, StartKeeps
<1> QED
  BY <1>3, <1>4 DEF WaveLaunch

\* A rolling window dispatches a confirmation or a discovery.
LEMMA RollLaunchKeeps == ASSUME RunInv, RollLaunch PROVE RunInv'
<1>1. /\ srv.phase = "fill" /\ srv \in ServerRec /\ ev \in EvidenceRec /\ cfg \in Configs
      /\ count.launched - count.done < Window
  BY DEF RollLaunch, RunInv, Typed, CanFill
<1>2. CASE /\ \E nominee \in Nominees(cfg, ev) : Start(Confirmation(cfg, nominee), nominee)
           /\ srv' = [srv EXCEPT !.pending = TRUE] /\ ev' = ev
  <2>1. PICK nominee \in Nominees(cfg, ev) : Start(Confirmation(cfg, nominee), nominee)
    BY <1>2
  <2>2. nominee \in Candidates
    BY <1>1 DEF Nominees, Leaders, EvidenceRec
  <2>3. Confirmation(cfg, nominee) \in SUBSET Ids
    BY <1>1, <2>2, PlacesIds
  <2>4. /\ srv' \in ServerRec /\ srv'.phase = srv.phase /\ srv'.cur = srv.cur
        /\ srv'.found = srv.found /\ srv'.err = srv.err /\ srv'.cancelled = srv.cancelled
    BY <1>1, <1>2 DEF ServerRec
  <2> QED
    BY <1>1, <1>2, <2>1, <2>3, <2>4, StartKeeps
<1>3. CASE \E items \in Discoveries(cfg, ev) :
             /\ Start(items, NoItem) /\ srv' = srv
             /\ ev' = [ev EXCEPT !.uncovered = (@ \cap ev.active) \ items]
  <2>1. PICK items \in Discoveries(cfg, ev) :
             /\ Start(items, NoItem) /\ srv' = srv
             /\ ev' = [ev EXCEPT !.uncovered = (@ \cap ev.active) \ items]
    BY <1>3
  <2>2. items \in SUBSET Ids
    BY <1>1, PlacesIds
  <2>3. ev' \in EvidenceRec /\ ev'.active = ev.active /\ ev'.neg = ev.neg /\ ev'.clean = ev.clean
    BY <1>1, <2>1 DEF EvidenceRec
  <2> QED
    BY <1>1, <2>1, <2>2, <2>3, StartKeeps
<1> QED
  BY <1>2, <1>3 DEF RollLaunch

-----------------------------------------------------------------------------
(* Commands, results and folds.                                            *)

\* The loop takes a command from the one caller that waits to send it.
LEMMA TakeKeeps == ASSUME RunInv, NEW c \in Callers, TakeCommand(c) PROVE RunInv'
<1>1. /\ srv.phase = "idle" /\ srv \in ServerRec /\ call[c].pc = "send" /\ call[c] \in CallerRec
      /\ call \in [Callers -> CallerRec] /\ count \in CountRec /\ cfg \in Configs
      /\ cfg' = cfg /\ ev' = ev /\ workers' = workers /\ results' = results /\ held' = held
      /\ run' = run /\ seen' = seen /\ told' = told
  BY DEF TakeCommand, RunInv, Typed
<1>2. Live = {} /\ Outs = {} /\ held = {} /\ srv.phase \notin Loop
  BY <1>1 DEF RunInv, Tickets, Live, Outs, Loop
<1>3. /\ Outs' = Outs /\ Live' = Live /\ Good' = Good
  BY <1>1 DEF Outs, Live, Good
<1>4. \A d \in Callers \ {c} : call[d].pc = "idle"
  BY <1>1 DEF RunInv, Calls
<1>5. call[c].reply = NoReply /\ run.advancing
  BY <1>1 DEF RunInv, Calls
<1>6. srv.found = NoItem /\ srv.err = "none"
  BY <1>1 DEF RunInv, Weighed, Caused
<1>7. ASSUME NEW d \in Callers
      PROVE  /\ call[d].reply.outcome \notin {"found", "negative"}
             /\ call[d].reply.err # "canceled"
  BY <1>1 DEF RunInv, Replied, Answered
<1>8. CASE /\ call' = [call EXCEPT ![c].pc = "wait", ![c].reply = Fails("overflow")]
           /\ srv' = [srv EXCEPT !.phase = "exited", !.cur = c] /\ count' = count
  <2>1. Fails("overflow") \in ReplyRec /\ Fails("overflow").outcome = "error" /\ Fails("overflow").err = "overflow"
    BY FailsIs DEF Errors
  <2>2. /\ call' \in [Callers -> CallerRec] /\ call'[c].pc = "wait" /\ call'[c].reply = Fails("overflow")
        /\ \A d \in Callers \ {c} : call'[d] = call[d]
    BY <1>1, <1>8, <2>1 DEF CallerRec
  <2>3. /\ srv' \in ServerRec /\ srv'.phase = "exited" /\ srv'.found = NoItem /\ srv'.err = "none"
    BY <1>1, <1>6, <1>8 DEF ServerRec, Phases
  <2>4. Typed'
    BY <1>1, <1>3, <1>8, <2>2, <2>3 DEF RunInv, Typed
  <2>5. Tickets' /\ Modes'
    BY <1>1, <1>2, <1>3, <1>8, <2>3 DEF RunInv, Tickets, Modes, Loop
  <2>6. Weighed' /\ Caused' /\ Accounted'
    BY <1>1, <2>3 DEF RunInv, Weighed, Caused, Accounted, Loop
  <2>7. Calls'
    BY <1>1, <1>4, <1>5, <2>2, <2>3 DEF RunInv, Calls, Serving, Loop
  <2>8. ASSUME NEW d \in Callers PROVE Answered(call[d].reply, call[d].pc = "wait")'
    BY <1>4, <1>7, <2>1, <2>2 DEF Answered
  <2> QED
    BY <2>4, <2>5, <2>6, <2>7, <2>8 DEF RunInv, Replied
<1>9. CASE /\ call' = [call EXCEPT ![c].pc = "wait"]
           /\ srv' = [srv EXCEPT !.phase = Looping, !.cur = c, !.cancelled = FALSE,
                                 !.found = NoItem, !.err = "none", !.pending = FALSE]
           /\ count' = [count EXCEPT !.end = count.done + call[c].budget,
                                     !.launched = count.done, !.discarded = 0, !.lost = 0]
  <2>1. /\ call' \in [Callers -> CallerRec] /\ call'[c].pc = "wait" /\ call'[c].reply = NoReply
        /\ \A d \in Callers \ {c} : call'[d] = call[d]
    BY <1>1, <1>5, <1>9 DEF CallerRec
  <2>2. /\ Looping \in {"fill", "plan"} /\ (Looping = "fill" => cfg.rolling)
        /\ (Looping = "plan" => ~cfg.rolling)
    BY DEF Looping
  <2>3. /\ srv' \in ServerRec /\ srv'.phase = Looping /\ srv'.found = NoItem /\ srv'.err = "none"
        /\ srv'.cur = c /\ srv'.cancelled = FALSE
    BY <1>1, <1>9, <2>2 DEF ServerRec, Phases, Serving, Loop, Errors
  <2>4. call[c].budget \in Int /\ count.done \in Nat
    BY <1>1 DEF CallerRec, CountRec
  <2>5. /\ count' \in CountRec /\ count'.done = count.done /\ count'.launched = count.done
        /\ count'.places = count.places /\ count'.discarded = 0 /\ count'.lost = 0
        /\ count.done \in Nat
    <3> DEFINE end == count.done + call[c].budget
    <3>1. end \in Int
      BY <2>4
    <3>2. count' = [count EXCEPT !.end = end, !.launched = count.done, !.discarded = 0, !.lost = 0]
      BY <1>9
    <3> HIDE DEF end
    <3>3. /\ count'.done = count.done /\ count'.launched = count.done /\ count'.end = end
          /\ count'.places = count.places /\ count'.discarded = 0 /\ count'.lost = 0
      BY <1>1, <3>2 DEF CountRec
    <3>4. count' = [done |-> count'.done, launched |-> count'.launched, end |-> count'.end,
                    places |-> count'.places, discarded |-> count'.discarded, lost |-> count'.lost]
      BY <1>1, <3>2 DEF CountRec
    <3>5. count.places \in Int
      BY <1>1 DEF CountRec
    <3> QED
      BY <2>4, <3>1, <3>3, <3>4, <3>5 DEF CountRec
  <2>6. Typed'
    BY <1>1, <1>3, <2>1, <2>3, <2>5 DEF RunInv, Typed
  <2>7. Tickets'
    <3>1. Indexed({}, count.done, count.done)
      BY <2>5 DEF Indexed
    <3> QED
      BY <1>1, <1>2, <1>3, <2>2, <2>3, <2>5, <3>1, WindowInt DEF RunInv, Tickets, Loop
  <2>8. Modes'
    BY <1>1, <1>2, <2>2, <2>3, <2>5 DEF Modes
  <2>9. Weighed'
    BY <1>1, <2>3 DEF RunInv, Weighed
  <2>10. Caused'
    BY <1>2, <1>3, <2>2, <2>3 DEF Caused
  <2>11. Balanced /\ NoneLost
    BY <1>1 DEF RunInv, Accounted
  <2>12. Accounted'
    BY <1>1, <1>3, <2>2, <2>3, <2>5, <2>11 DEF Accounted, Balanced, NoneLost
  <2>13. Calls'
    BY <1>1, <1>4, <1>5, <2>1, <2>3 DEF RunInv, Calls
  <2>14. ASSUME NEW d \in Callers PROVE Answered(call[d].reply, call[d].pc = "wait")'
    <3>1. call'[d].reply = call[d].reply
      BY <1>5, <2>1
    <3>2. call'[d].pc = "wait" => call[d].reply.outcome = "none"
      BY <1>4, <1>5, <2>1 DEF NoReply
    <3> QED
      BY <1>7, <3>1, <3>2 DEF Answered
  <2> QED
    BY <2>6, <2>7, <2>8, <2>9, <2>10, <2>12, <2>13, <2>14 DEF RunInv, Replied
<1> QED
  BY <1>8, <1>9 DEF TakeCommand

\* Receiving only moves outcomes from the channel to the loop.
LEMMA ReceiveKeeps ==
  ASSUME RunInv, cfg' = cfg, ev' = ev, count' = count, workers' = workers,
         run' = run, call' = call, seen' = seen, told' = told,
         results' \cup held' = Outs, results' \cap held' = {},
         srv.phase \in {"gather", "collect"}, srv'.phase \in Loop,
         srv' \in ServerRec, srv'.cur = srv.cur, srv'.found = srv.found,
         Modes', Caused'
  PROVE  RunInv'
<1>1. Outs' = Outs /\ Live' = Live /\ Good' = Good
  BY DEF Outs, Live, Good
<1>2. srv.phase \in Loop /\ srv'.phase \notin {"idle", "reply", "exited"}
  BY DEF Loop
<1>3. srv.found = NoItem
  BY DEF RunInv, Weighed
<1>4. Typed'
  BY <1>1 DEF RunInv, Typed
<1>5. Tickets'
  BY <1>1, <1>2 DEF RunInv, Tickets
<1>6. Weighed'
  BY <1>3 DEF RunInv, Weighed
<1>7. Accounted'
  BY <1>1, <1>2 DEF RunInv, Accounted, Balanced, NoneLost
<1>8. Calls'
  BY <1>2 DEF RunInv, Calls, Serving
<1>9. Replied'
  <2>1. ASSUME NEW c \in Callers PROVE Answered(call[c].reply, call[c].pc = "wait")'
    BY <1>2 DEF RunInv, Replied, Answered, Deserved
  <2> QED
    BY <2>1 DEF Replied
<1> QED
  BY <1>4, <1>5, <1>6, <1>7, <1>8, <1>9 DEF RunInv

\* A wave gathers one outcome.
LEMMA WaveReceiveKeeps == ASSUME RunInv, NEW o \in results, WaveReceive(o) PROVE RunInv'
<1>1. /\ srv.phase = "gather" /\ srv \in ServerRec
      /\ results' = results \ {o} /\ held' = held \cup {o}
      /\ srv' = [srv EXCEPT !.cancelled = @ \/ o.err # "none"]
      /\ cfg' = cfg /\ ev' = ev /\ count' = count /\ workers' = workers
      /\ run' = run /\ call' = call /\ seen' = seen /\ told' = told
  BY DEF WaveReceive, RunInv, Typed
<1>2. /\ srv' \in ServerRec /\ srv'.cur = srv.cur /\ srv'.found = srv.found
      /\ srv'.phase = srv.phase /\ srv'.err = srv.err
      /\ srv'.cancelled => srv.cancelled \/ o.err # "none"
  BY <1>1 DEF ServerRec
<1>3. results' \cup held' = Outs /\ results' \cap held' = {}
  BY <1>1 DEF Outs, RunInv, Tickets
<1>4. Modes'
  BY <1>1, <1>2 DEF RunInv, Modes
<1>5. Bad(held') <=> Bad(held) \/ o.err # "none"
  BY <1>1 DEF Bad
<1>6. Outs' = Outs /\ Stopped' = Stopped
  BY <1>1, <1>2, <1>3 DEF Outs, Stopped
<1>7. Caused'
  BY <1>1, <1>2, <1>5, <1>6 DEF RunInv, Caused, Loop
<1> QED
  BY <1>1, <1>2, <1>3, <1>4, <1>7, ReceiveKeeps DEF Loop

\* A rolling window gathers every outcome that is ready.
LEMMA RollReceiveKeeps == ASSUME RunInv, RollReceive PROVE RunInv'
<1>1. /\ srv.phase = "collect" /\ srv \in ServerRec
      /\ results' = {} /\ held' = held \cup results
      /\ cfg' = cfg /\ ev' = ev /\ count' = count /\ workers' = workers
      /\ run' = run /\ call' = call /\ seen' = seen /\ told' = told
  BY DEF RollReceive, RunInv, Typed
<1>2. cfg.rolling /\ (srv.cancelled => run.lifetime) /\ srv.err = "none"
  BY <1>1 DEF RunInv, Modes, Caused, Loop
<1>3. results' \cup held' = Outs /\ results' \cap held' = {}
  BY <1>1 DEF Outs
<1>4. (\E p \in Outs : p.err = "canceled") => Stopped \/ Fault(Outs)
  BY <1>1 DEF RunInv, Caused, Loop
<1>5. CASE /\ \E o \in results : o.err # "none"
           /\ srv' = [srv EXCEPT !.phase = "drain", !.err = "pending", !.cancelled = TRUE]
  <2>1. /\ srv' \in ServerRec /\ srv'.cur = srv.cur /\ srv'.found = srv.found
        /\ srv'.phase = "drain" /\ srv'.err = "pending"
    BY <1>1, <1>5 DEF ServerRec, Phases, Serving, Loop, Errors
  <2>2. Modes'
    BY <1>1, <1>2, <2>1 DEF Modes
  <2>3. Bad(held')
    BY <1>1, <1>5 DEF Bad
  <2>4. Outs' = Outs /\ Stopped' = Stopped
    BY <1>1, <1>3, <2>1 DEF Outs, Stopped
  <2>5. Caused'
    BY <1>4, <2>1, <2>3, <2>4 DEF Caused
  <2> QED
    BY <1>1, <1>3, <2>1, <2>2, <2>5, ReceiveKeeps DEF Loop
<1>6. CASE /\ ~(\E o \in results : o.err # "none")
           /\ \E p \in {"fold", "fill"} : \E u \in {srv.updated, {}} :
                srv' = [srv EXCEPT !.phase = p, !.updated = u]
  <2>1. PICK p \in {"fold", "fill"}, u \in {srv.updated, {}} :
          srv' = [srv EXCEPT !.phase = p, !.updated = u]
    BY <1>6
  <2>2. /\ srv' \in ServerRec /\ srv'.cur = srv.cur /\ srv'.found = srv.found
        /\ srv'.phase = p /\ srv'.err = srv.err /\ srv'.cancelled = srv.cancelled
    BY <1>1, <2>1 DEF ServerRec, Phases, Serving, Loop, Errors
  <2>3. \A o \in held \cup results : o.err = "none"
    <3>1. \A o \in held : o.err = "none"
      BY <1>1 DEF RunInv, Modes
    <3> QED
      BY <1>6, <3>1
  <2>4. Modes'
    BY <1>1, <1>2, <2>2, <2>3 DEF Modes
  <2>5. Outs' = Outs /\ Stopped' = Stopped
    BY <1>1, <1>3, <2>2 DEF Outs, Stopped
  <2>6. Caused'
    BY <1>1, <1>2, <1>4, <2>2, <2>5 DEF Caused
  <2> QED
    BY <1>1, <1>3, <2>2, <2>4, <2>6, ReceiveKeeps DEF Loop
<1>7. ASSUME srv' = [srv EXCEPT !.phase = "fill"]
      PROVE  srv' = [srv EXCEPT !.phase = "fill", !.updated = srv.updated]
  BY <1>1, <1>7 DEF ServerRec
<1> QED
  BY <1>5, <1>6, <1>7 DEF RollReceive

-----------------------------------------------------------------------------
(* Folds.                                                                  *)

\* The outcomes of one fold, by dispatch index, and the clean wins among them.
InOrder(outs) ==
  [i \in 1..Cardinality(outs) |-> CHOOSE o \in outs :
     Cardinality({p \in outs : p.index < o.index}) = i - 1]
CleanWins(outs, c) == {o \in outs : Observes(ev, o, c) /\ Controls(o.items) # {} /\ Score(o.ranks, c) # 0}

\* Consecutive outcomes are folded from the first index to the last.
LEMMA InOrderIs ==
  ASSUME NEW S, NEW a \in Int, NEW n \in Nat, Indexed(S, a, a + n)
  PROVE  /\ DOMAIN InOrder(S) = 1..n
         /\ \A i \in 1..n : InOrder(S)[i] \in S /\ InOrder(S)[i].index = a + i - 1
<1>1. a + n \in Int /\ a <= a + n /\ (a + n) - a = n
  OBVIOUS
<1>2. Cardinality(S) = n
  BY <1>1, IndexedSize
<1>3. ASSUME NEW i \in 1..n
      PROVE  InOrder(S)[i] \in S /\ InOrder(S)[i].index = a + i - 1
  <2> DEFINE P(o) == Cardinality({p \in S : p.index < o.index}) = i - 1
             q == CHOOSE o \in S : P(o)
  <2>1. PICK o \in S : o.index = a + i - 1
    <3>1. a + i - 1 \in a..(a + n - 1)
      OBVIOUS
    <3> QED
      BY <3>1 DEF Indexed
  <2>2. Cardinality({p \in S : p.index < o.index}) = o.index - a
    BY <1>1, IndexedBefore
  <2>3. P(o)
    BY <2>1, <2>2
  <2>4. q \in S /\ P(q)
    BY <2>3
  <2>5. InOrder(S)[i] = q
    BY <1>2 DEF InOrder
  <2>6. Cardinality({p \in S : p.index < q.index}) = q.index - a
    BY <1>1, <2>4, IndexedBefore
  <2>7. q.index \in Int
    BY <2>4 DEF Indexed
  <2>8. Cardinality({p \in S : p.index < q.index}) = i - 1
    BY <2>4
  <2> HIDE DEF q
  <2>9. q.index = a + i - 1
    BY <2>6, <2>7, <2>8
  <2> QED
    BY <2>4, <2>5, <2>9
<1> QED
  BY <1>2, <1>3 DEF InOrder

\* Folding n more outcomes continues the count of indices.
LEMMA Counting ==
  ASSUME NEW d \in Nat, NEW n \in Nat, NEW s, DOMAIN s = 1..n, \A i \in 1..n : s[i] = d + i - 1,
         s \in Seq(Nat)
  PROVE  [i \in 1..d |-> i - 1] \o s = [i \in 1..(d + n) |-> i - 1]
<1> DEFINE r == [i \in 1..d |-> i - 1]
           t == [i \in 1..(d + n) |-> i - 1]
<1>1. r \in Seq(Nat) /\ Len(r) = d /\ t \in Seq(Nat) /\ Len(t) = d + n
  OBVIOUS
<1>2. Len(s) = n
  OBVIOUS
<1>3. /\ r \o s \in Seq(Nat) /\ Len(r \o s) = d + n
      /\ \A i \in 1..(d + n) : (r \o s)[i] = IF i <= d THEN r[i] ELSE s[i - d]
  BY <1>1, <1>2
<1>4. \A i \in 1..(d + n) : (r \o s)[i] = t[i]
  BY <1>3
<1> QED
  BY <1>1, <1>3, <1>4, SeqEqual

\* What a fold writes.
LEMMA FoldDoes ==
  ASSUME NEW outs, NEW next, Fold(outs, next)
  PROVE  /\ ev' = [Apply(ev, InOrder(outs)) EXCEPT
                     !.discovered = IF cfg.rolling THEN InOrder(outs)[1].confirming = NoItem ELSE @]
         /\ count' = [count EXCEPT !.done = @ + Cardinality(outs), !.places = @ + Sizes(outs)]
         /\ srv' = [next EXCEPT !.updated = @ \cup Updated(ev, InOrder(outs))]
         /\ seen' = [seen EXCEPT
                       !.folded = @ \o [i \in DOMAIN InOrder(outs) |-> InOrder(outs)[i].index],
                       !.wins = [c \in Candidates |-> @[c] + Cardinality(CleanWins(outs, c))]]
BY DEF Fold, InOrder, CleanWins

\* The evidence of a fold stays within what its outcomes showed.
LEMMA FoldWeighs ==
  ASSUME RunInv, NEW outs \in SUBSET Outs, NEW n \in Nat, NEW next, Fold(outs, next),
         Indexed(outs, count.done, count.done + n), \A o \in outs : o.err = "none"
  PROVE  /\ ev' \in EvidenceRec /\ ev'.active = ev.active
         /\ \A i \in Candidates \ ev.active : \A d \in Directions : ev'.neg[d][i] = ev.neg[d][i]
         /\ seen'.wins \in [Candidates -> Int]
         /\ \A c \in Candidates :
              /\ seen'.wins[c] >= seen.wins[c]
              /\ -seen'.wins[c] <= ev'.clean[c] /\ ev'.clean[c] <= seen'.wins[c]
<1> DEFINE f == InOrder(outs)
           b == Apply(ev, f)
<1>1. /\ ev \in EvidenceRec /\ seen \in SeenRec /\ seen.wins \in [Candidates -> Int] /\ count.done \in Int
      /\ ev.clean \in [Candidates -> Int]
  BY DEF RunInv, Typed, SeenRec, CountRec, EvidenceRec
<1>2. /\ ev' = [b EXCEPT !.discovered = IF cfg.rolling THEN f[1].confirming = NoItem ELSE @]
      /\ seen'.wins = [c \in Candidates |-> seen.wins[c] + Cardinality(CleanWins(outs, c))]
  <2>1. /\ ev' = [b EXCEPT !.discovered = IF cfg.rolling THEN f[1].confirming = NoItem ELSE @]
        /\ seen' = [seen EXCEPT
                      !.folded = @ \o [i \in DOMAIN f |-> f[i].index],
                      !.wins = [c \in Candidates |-> @[c] + Cardinality(CleanWins(outs, c))]]
    BY FoldDoes, Zenon
  <2> DEFINE wins == [c \in Candidates |-> seen.wins[c] + Cardinality(CleanWins(outs, c))]
             folded == seen.folded \o [i \in DOMAIN f |-> f[i].index]
  <2>2. seen' = [seen EXCEPT !.folded = folded, !.wins = wins]
    BY <2>1, Zenon
  <2> HIDE DEF wins, folded
  <2>3. seen'.wins = wins
    BY <1>1, <2>2 DEF SeenRec
  <2> QED
    BY <2>1, <2>3, Zenon DEF wins
<1>3. DOMAIN f = 1..n /\ \A i \in 1..n : f[i] \in outs
  BY <1>1, InOrderIs
<1> HIDE DEF f
<1>4. Applied(ev, b, f)
  BY <1>1, <1>3, ApplyMoves
<1> HIDE DEF b
<1>5. /\ ev' \in EvidenceRec /\ ev'.active = ev.active /\ ev'.clean = b.clean /\ ev'.neg = b.neg
      /\ b.clean \in [Candidates -> Int]
  BY <1>2, <1>4 DEF Applied, EvidenceRec
<1>6. \A i \in Candidates \ ev.active : \A d \in Directions : ev'.neg[d][i] = ev.neg[d][i]
  BY <1>4, <1>5 DEF Applied
<1>7. ASSUME NEW c \in Candidates
      PROVE  /\ Cardinality(CleanWins(outs, c)) \in Nat
             /\ b.clean[c] # ev.clean[c] => Cardinality(CleanWins(outs, c)) >= 1
  <2>1. IsFiniteSet(CleanWins(outs, c)) /\ Cardinality(CleanWins(outs, c)) \in Nat
    BY LiveFinite DEF RunInv, CleanWins
  <2>2. ASSUME b.clean[c] # ev.clean[c] PROVE CleanWins(outs, c) # {}
    <3>1. PICK i \in DOMAIN f : Clear(ev, f[i], c)
      BY <1>4, <2>2 DEF Applied
    <3>2. f[i] \in outs /\ Outcome(f[i]) /\ f[i].err = "none"
      BY <1>3, <3>1 DEF RunInv, Typed
    <3> QED
      BY <3>1, <3>2 DEF Clear, CleanWins, Outcome
  <2>3. Cardinality(CleanWins(outs, c)) = 0 => CleanWins(outs, c) = {}
    BY <2>1, FS_EmptySet
  <2> QED
    BY <2>1, <2>2, <2>3
<1>8. seen'.wins \in [Candidates -> Int]
  BY <1>1, <1>2, <1>7
<1>9. ASSUME NEW c \in Candidates
      PROVE  /\ seen'.wins[c] >= seen.wins[c]
             /\ -seen'.wins[c] <= ev'.clean[c] /\ ev'.clean[c] <= seen'.wins[c]
  <2>1. seen'.wins[c] = seen.wins[c] + Cardinality(CleanWins(outs, c))
    BY <1>2
  <2>2. -seen.wins[c] <= ev.clean[c] /\ ev.clean[c] <= seen.wins[c]
    BY DEF RunInv, Weighed
  <2>3. b.clean[c] - ev.clean[c] \in {-1, 0, 1}
    BY <1>4 DEF Applied
  <2>4. b.clean[c] \in Int /\ ev.clean[c] \in Int /\ seen.wins[c] \in Int
    BY <1>1, <1>5
  <2> QED
    BY <1>5, <1>7, <2>1, <2>2, <2>3, <2>4
<1> QED
  BY <1>5, <1>6, <1>8, <1>9

\* The counters and the account of a fold.
LEMMA FoldCounts ==
  ASSUME RunInv, NEW outs \in SUBSET Outs, NEW n \in Nat, NEW next, Fold(outs, next),
         Indexed(outs, count.done, count.done + n)
  PROVE  /\ Cardinality(outs) = n
         /\ count' \in CountRec /\ count'.done = count.done + n /\ count'.launched = count.launched
         /\ count'.places = count.places + Sizes(outs)
         /\ count'.discarded = count.discarded /\ count'.lost = count.lost
         /\ seen'.completed = seen.completed /\ seen'.places = seen.places
         /\ seen'.folded = [i \in 1..count'.done |-> i - 1]
         /\ seen'.wins \in [Candidates -> Int] => seen' \in SeenRec
<1> DEFINE f == InOrder(outs)
           s == [i \in DOMAIN f |-> f[i].index]
           wins == [c \in Candidates |-> seen.wins[c] + Cardinality(CleanWins(outs, c))]
<1>1. /\ count \in CountRec /\ seen \in SeenRec /\ count.done \in Nat /\ count.places \in Int
      /\ Sizes(outs) \in Nat
  BY LiveFinite DEF RunInv, Typed, CountRec
<1>2. Cardinality(outs) = n
  <2>1. /\ count.done \in Int /\ count.done + n \in Int /\ count.done <= count.done + n
        /\ (count.done + n) - count.done = n
    BY <1>1
  <2> QED
    BY <2>1, IndexedSize
<1>3. DOMAIN f = 1..n /\ \A i \in 1..n : f[i].index = count.done + i - 1
  BY <1>1, InOrderIs
<1>4. DOMAIN s = 1..n /\ s \in Seq(Nat) /\ \A i \in 1..n : s[i] = count.done + i - 1
  BY <1>1, <1>3
<1>5. /\ count' = [count EXCEPT !.done = @ + Cardinality(outs), !.places = @ + Sizes(outs)]
      /\ seen' = [seen EXCEPT !.folded = @ \o s,
                              !.wins = [c \in Candidates |-> @[c] + Cardinality(CleanWins(outs, c))]]
  BY FoldDoes, Zenon
<1> HIDE DEF f, s
<1>6. /\ count' \in CountRec /\ count'.done = count.done + n /\ count'.launched = count.launched
      /\ count'.places = count.places + Sizes(outs)
      /\ count'.discarded = count.discarded /\ count'.lost = count.lost
  <2> DEFINE done == count.done + n
             places == count.places + Sizes(outs)
  <2>1. done \in Nat /\ places \in Int
    BY <1>1
  <2>2. count' = [count EXCEPT !.done = done, !.places = places]
    BY <1>2, <1>5
  <2> HIDE DEF done, places
  <2>3. /\ count' \in CountRec /\ count'.done = done /\ count'.launched = count.launched
        /\ count'.places = places
        /\ count'.discarded = count.discarded /\ count'.lost = count.lost
    BY <1>1, <2>1, <2>2 DEF CountRec
  <2> QED
    BY <2>3 DEF done, places
<1> DEFINE folded == seen.folded \o s
<1>7. folded = [i \in 1..(count.done + n) |-> i - 1]
  <2>1. [i \in 1..count.done |-> i - 1] \o s = [i \in 1..(count.done + n) |-> i - 1]
    BY <1>1, <1>4, Counting, Zenon
  <2> QED
    BY <2>1 DEF RunInv, Tickets
<1> HIDE DEF folded
<1>8. folded \in Seq(Nat)
  <2>1. count.done + n \in Nat /\ \A i \in 1..(count.done + n) : i - 1 \in Nat
    BY <1>1
  <2> QED
    BY <1>7, <2>1
<1>9. seen' = [seen EXCEPT !.folded = folded, !.wins = wins]
  BY <1>5, Zenon DEF folded
<1> HIDE DEF wins
<1>10. /\ seen'.completed = seen.completed /\ seen'.places = seen.places
       /\ seen'.folded = folded /\ seen'.wins = wins
       /\ wins \in [Candidates -> Int] => seen' \in SeenRec
  BY <1>1, <1>8, <1>9 DEF SeenRec
<1> QED
  BY <1>2, <1>6, <1>7, <1>10

\* A fold takes the next indices out of the loop's hands, and nothing else.
LEMMA FoldKeeps ==
  ASSUME RunInv, NEW outs \in SUBSET held, NEW n \in Nat, NEW next \in ServerRec, Fold(outs, next),
         Indexed(outs, count.done, count.done + n), \A o \in held : o.err = "none",
         held' = held \ outs, cfg' = cfg, workers' = workers, results' = results,
         run' = run, call' = call, told' = told,
         srv.phase \in {"gather", "fold"}, next.phase \in {"settle", "fold"},
         next.cur = srv.cur, next.found = srv.found, next.err = srv.err,
         next.phase = "fold" => cfg.rolling,
         next.phase = "settle" /\ ~cfg.rolling => count.launched = count.done + n,
         next.cancelled => run.lifetime
  PROVE  RunInv'
<1>1. /\ srv.phase \in Loop /\ next.phase \in Loop
      /\ next.phase \notin {"plan", "wave", "gather", "fill", "collect", "drain", "reply", "exited", "idle"}
      /\ srv.found = NoItem /\ srv.err = "none"
  BY DEF Loop, RunInv, Weighed, Caused
<1>2. outs \in SUBSET Outs /\ n \in Nat /\ \A o \in outs : o.err = "none"
  BY DEF Outs
<1>3. /\ srv' \in ServerRec /\ srv'.phase = next.phase /\ srv'.cur = next.cur
      /\ srv'.found = next.found /\ srv'.err = next.err /\ srv'.cancelled = next.cancelled
  <2> DEFINE updated == next.updated \cup Updated(ev, InOrder(outs))
  <2>1. srv' = [next EXCEPT !.updated = updated]
    BY FoldDoes, Zenon
  <2>2. updated \in SUBSET Candidates
    BY DEF Updated, ServerRec
  <2> HIDE DEF updated
  <2> QED
    BY <2>1, <2>2 DEF ServerRec
<1>4. /\ Cardinality(outs) = n
      /\ count' \in CountRec /\ count'.done = count.done + n /\ count'.launched = count.launched
      /\ count'.places = count.places + Sizes(outs)
      /\ count'.discarded = count.discarded /\ count'.lost = count.lost
      /\ seen'.completed = seen.completed /\ seen'.places = seen.places
      /\ seen'.folded = [i \in 1..count'.done |-> i - 1]
      /\ seen'.wins \in [Candidates -> Int] => seen' \in SeenRec
  BY <1>2, FoldCounts
<1>5. /\ ev' \in EvidenceRec /\ ev'.active = ev.active
      /\ \A i \in Candidates \ ev.active : \A d \in Directions : ev'.neg[d][i] = ev.neg[d][i]
      /\ seen'.wins \in [Candidates -> Int]
      /\ \A c \in Candidates :
           /\ seen'.wins[c] >= seen.wins[c]
           /\ -seen'.wins[c] <= ev'.clean[c] /\ ev'.clean[c] <= seen'.wins[c]
  BY <1>2, FoldWeighs
<1>6. Outs' = Outs \ outs /\ Live' = Live \ outs /\ Good' = Good \ outs /\ Stopped' = Stopped
  BY <1>3 DEF Outs, Live, Good, Stopped, RunInv, Tickets
<1>7. Typed'
  BY <1>3, <1>4, <1>5, <1>6 DEF RunInv, Typed
<1>8. Tickets'
  <2>1. /\ Indexed(Live, count.done, count.launched) /\ count.launched - count.done <= Window
        /\ count.done \in Nat /\ count.launched \in Int
    BY <1>1 DEF RunInv, Tickets, Typed, CountRec
  <2>2. outs \subseteq Live
    BY <1>2 DEF Live
  <2>3. count.done + n <= count.launched
    <3> SUFFICES ASSUME n > 0 PROVE count.done + n <= count.launched
      BY <1>1, <2>1 DEF RunInv, Tickets
    <3>1. (count.done + n) - 1 \in count.done..((count.done + n) - 1)
      BY <2>1
    <3>2. \A i \in count.done..((count.done + n) - 1) : \E o \in outs : o.index = i
      BY Zenon DEF Indexed
    <3>3. PICK o \in outs : o.index = (count.done + n) - 1
      BY <3>1, <3>2, Zenon
    <3> QED
      BY <2>1, <2>2, <3>3 DEF Indexed
  <2>4. Indexed(Live', count.done + n, count.launched)
    <3>1. ASSUME NEW o \in Live \ outs PROVE o.index \in (count.done + n)..(count.launched - 1)
      <4>1. o.index \in count.done..(count.launched - 1)
        BY <2>1 DEF Indexed
      <4>2. o.index \notin count.done..((count.done + n) - 1)
        <5>1. ASSUME NEW p \in outs, p.index = o.index PROVE FALSE
          BY <2>1, <2>2, <3>1, <5>1 DEF Indexed
        <5>2. \A i \in count.done..((count.done + n) - 1) : \E p \in outs : p.index = i
          BY Zenon DEF Indexed
        <5> QED
          BY <5>1, <5>2, Zenon
      <4> QED
        BY <2>1, <4>1, <4>2
    <3>2. ASSUME NEW i \in (count.done + n)..(count.launched - 1) PROVE \E o \in Live \ outs : o.index = i
      <4>1. PICK o \in Live : o.index = i
        BY <2>1 DEF Indexed
      <4>2. o \notin outs
        BY <2>1, <4>1 DEF Indexed
      <4> QED
        BY <4>1, <4>2
    <3>3. \A o, p \in Live \ outs : o.index = p.index => o = p
      BY <2>1 DEF Indexed
    <3> QED
      BY <1>6, <3>1, <3>2, <3>3 DEF Indexed
  <2>5. count'.launched - count'.done <= Window
    BY <1>4, <2>1, WindowInt
  <2> QED
    BY <1>1, <1>3, <1>4, <1>6, <2>3, <2>4, <2>5 DEF RunInv, Tickets, Outs
<1>9. Modes'
  BY <1>1, <1>3, <1>4 DEF Modes
<1>10. Weighed'
  <2>1. Dirs(cfg) \subseteq Directions
    BY RunAssumption DEF RunInv, Typed, Dirs, Directions
  <2> QED
    BY <1>1, <1>3, <1>5, <2>1 DEF RunInv, Weighed
<1>11. Caused'
  <2>1. Fault(Outs) => Fault(Outs')
    BY <1>2, <1>6 DEF Fault
  <2>2. (\E o \in Outs' : o.err = "canceled") => Stopped \/ Fault(Outs')
    BY <1>1, <1>6, <2>1 DEF RunInv, Caused
  <2> QED
    BY <1>1, <1>3, <1>6, <2>2 DEF Caused
<1>12. Accounted'
  <2>1. /\ IsFiniteSet(Good) /\ IsFiniteSet(outs) /\ Cardinality(outs) \in Nat /\ Sizes(outs) \in Nat
        /\ \A o \in Outs : IsFiniteSet(o.items)
    BY <1>2, LiveFinite DEF RunInv
  <2>2. outs \subseteq Good /\ Good = outs \cup Good' /\ outs \cap Good' = {} /\ Good' \subseteq Outs
    BY <1>2, <1>6 DEF Good
  <2>3. IsFiniteSet(Good') /\ Cardinality(Good') \in Nat /\ Sizes(Good') \in Nat
    BY <2>2, LiveFinite DEF RunInv
  <2>4. Cardinality(Good) = Cardinality(outs) + Cardinality(Good')
    <3>1. Cardinality(outs \cap Good') = 0
      BY <2>2, FS_EmptySet
    <3>2. Cardinality(outs \cup Good') = Cardinality(outs) + Cardinality(Good') - Cardinality(outs \cap Good')
      BY <2>1, <2>3, FS_Union
    <3> QED
      BY <2>1, <2>2, <2>3, <3>1, <3>2
  <2>5. Sizes(Good) = Sizes(outs) + Sizes(Good')
    BY <1>2, <2>1, <2>2, <2>3, SizesUnion
  <2>6. Balanced /\ NoneLost
    BY <1>1 DEF RunInv, Accounted, Loop
  <2>7. /\ count.done \in Int /\ count.discarded \in Int /\ count.places \in Int /\ count.lost \in Int
    BY DEF RunInv, Typed, CountRec
  <2>8. Balanced' /\ NoneLost'
    BY <1>4, <2>1, <2>3, <2>4, <2>5, <2>6, <2>7 DEF Balanced, NoneLost
  <2> QED
    BY <1>1, <1>3, <2>8 DEF Accounted
<1>13. Calls'
  BY <1>1, <1>3 DEF RunInv, Calls, Serving
<1>14. Replied'
  <2>1. ASSUME NEW c \in Callers PROVE Answered(call[c].reply, call[c].pc = "wait")'
    BY <1>1, <1>3 DEF RunInv, Replied, Answered, Loop
  <2> QED
    BY <2>1 DEF Replied
<1> QED
  BY <1>7, <1>8, <1>9, <1>10, <1>11, <1>12, <1>13, <1>14 DEF RunInv

\* The failure reported is one that happened, and an induced cancellation only
\* when nothing else failed.
LEMMA LoopErrorIs ==
  ASSUME Typed, NEW outs \in SUBSET Outs
  PROVE  /\ LoopError(outs) \in {"none", "ctx", "lifetime", "fail", "canceled"}
         /\ LoopError(outs) = "none" <=> ~Stopped /\ ~Bad(outs)
         /\ LoopError(outs) = "canceled" => ~Stopped /\ Bad(outs) /\ ~Fault(outs)
<1> DEFINE failed == {o \in outs : o.err # "none"}
           real == {o \in failed : o.err = "fail"}
           pool == IF real # {} THEN real ELSE failed
           first == CHOOSE o \in pool : \A p \in pool : o.index <= p.index
<1>1. \A o \in outs : o.index \in Nat /\ o.err \in {"none", "fail", "canceled"}
  BY DEF Typed, Outcome
<1>2. Failure(outs) = IF pool = {} THEN "none" ELSE first.err
  BY DEF Failure
<1>3. /\ pool \subseteq failed /\ (pool = {} <=> ~Bad(outs))
      /\ Fault(outs) => \A o \in pool : o.err = "fail"
      /\ \A o \in pool : o.index \in Nat /\ o.err \in {"fail", "canceled"}
  BY <1>1 DEF Bad, Fault
<1> HIDE DEF pool
<1>4. pool # {} => first \in pool
  <2>1. ASSUME pool # {} PROVE \E o \in pool : \A p \in pool : o.index <= p.index
    BY <1>3, <2>1, FirstOf
  <2> QED
    BY <2>1
<1> HIDE DEF first
<1>5. /\ Failure(outs) \in {"none", "fail", "canceled"} /\ (Failure(outs) = "none" <=> ~Bad(outs))
      /\ Failure(outs) = "canceled" => Bad(outs) /\ ~Fault(outs)
  BY <1>2, <1>3, <1>4
<1> QED
  BY <1>5 DEF LoopError, Stopped

\* A wave is folded whole or dropped whole.
LEMMA WaveFoldKeeps == ASSUME RunInv, WaveFold PROVE RunInv'
<1>1. /\ srv.phase = "gather" /\ Cardinality(held) = count.launched - count.done /\ held' = {}
      /\ cfg' = cfg /\ workers' = workers /\ results' = results
      /\ run' = run /\ call' = call /\ told' = told
      /\ srv \in ServerRec /\ srv.cur \in Callers /\ count.done \in Nat /\ count.launched \in Int
  BY DEF WaveFold, WaveComplete, RunInv, Typed, CountRec, ServerRec
<1>2. Indexed(Live, count.done, count.launched) /\ count.done <= count.launched
  BY <1>1 DEF RunInv, Tickets, Loop
<1>3. held = Live
  <2>1. IsFiniteSet(Live) /\ Cardinality(Live) = count.launched - count.done
    BY <1>1, <1>2, IndexedSize
  <2>2. held \subseteq Live
    BY DEF Live, Outs
  <2> QED
    BY <1>1, <2>1, <2>2, FS_Subset
<1>4. workers = {} /\ results = {} /\ Outs = held
  BY <1>3 DEF Live, Outs, RunInv, Tickets
<1>5. /\ ~cfg.rolling /\ srv.found = NoItem /\ srv.err = "none"
      /\ (\E o \in Outs : o.err = "canceled") => Stopped \/ Fault(Outs)
      /\ srv.cancelled => run.lifetime \/ Bad(held)
  BY <1>1 DEF RunInv, Modes, Weighed, Caused, Loop
<1>6. /\ LoopError(held) \in {"none", "ctx", "lifetime", "fail", "canceled"}
      /\ LoopError(held) = "none" <=> ~Stopped /\ ~Bad(held)
      /\ LoopError(held) = "canceled" => ~Stopped /\ Bad(held) /\ ~Fault(held)
  <2>1. held \in SUBSET Outs
    BY DEF Outs
  <2> QED
    BY <2>1, LoopErrorIs DEF RunInv
<1>7. ASSUME NEW e, e = LoopError(held), e # "none", srv' = [srv EXCEPT !.phase = "reply", !.err = e],
             ev' = ev, count' = count, seen' = seen
      PROVE  RunInv'
  <2>1. e # "canceled"
    <3>1. \A o \in held : o.err \in {"none", "fail", "canceled"}
      BY <1>4 DEF RunInv, Typed, Outcome
    <3> QED
      BY <1>4, <1>5, <1>6, <1>7, <3>1 DEF Bad, Fault
  <2>2. e \in Errors /\ e # "pending"
    BY <1>6, <1>7 DEF Errors
  <2>3. /\ srv' \in ServerRec /\ srv'.phase = "reply" /\ srv'.cur = srv.cur
        /\ srv'.found = NoItem /\ srv'.err = e
    BY <1>1, <1>5, <1>7, <2>2 DEF ServerRec, Phases, Serving
  <2>4. Outs' = {} /\ Live' = {}
    BY <1>1, <1>4 DEF Outs, Live
  <2>5. Typed'
    BY <1>1, <1>4, <1>7, <2>3, <2>4 DEF RunInv, Typed
  <2>6. Tickets' /\ Modes'
    BY <1>1, <1>4, <1>7, <2>3, <2>4 DEF RunInv, Tickets, Modes, Loop
  <2>7. Weighed'
    BY <1>1, <1>7, <2>3 DEF RunInv, Weighed
  <2>8. Caused'
    BY <2>1, <2>2, <2>3, <2>4 DEF Caused, Loop
  <2>9. Accounted'
    BY <1>1, <1>7, <2>3 DEF RunInv, Accounted, NoneLost
  <2>10. Calls'
    BY <1>1, <1>7, <2>3 DEF RunInv, Calls, Serving, Loop
  <2>11. ASSUME NEW c \in Callers PROVE Answered(call[c].reply, call[c].pc = "wait")'
    BY <1>1, <1>7, <2>3 DEF RunInv, Replied, Answered
  <2> QED
    BY <2>5, <2>6, <2>7, <2>8, <2>9, <2>10, <2>11 DEF RunInv, Replied
<1>8. ASSUME LoopError(held) = "none", Fold(held, [srv EXCEPT !.phase = "settle", !.updated = {}])
      PROVE  RunInv'
  <2> DEFINE n == count.launched - count.done
             next == [srv EXCEPT !.phase = "settle", !.updated = {}]
  <2>1. n \in Nat /\ count.done + n = count.launched
    BY <1>1, <1>2
  <2>2. Indexed(held, count.done, count.done + n)
    BY <1>2, <1>3, <2>1
  <2>3. /\ next \in ServerRec /\ next.phase = "settle" /\ next.cur = srv.cur
        /\ next.found = srv.found /\ next.err = srv.err /\ next.cancelled = srv.cancelled
    BY <1>1 DEF ServerRec, Phases, Serving, Loop
  <2>4. Fold(held, next)
    BY <1>8
  <2>5. (\A o \in held : o.err = "none") /\ (srv.cancelled => run.lifetime)
    BY <1>5, <1>6, <1>8 DEF Bad
  <2>6. held' = held \ held /\ held \in SUBSET held
    BY <1>1
  <2> HIDE DEF n, next
  <2>7. next.cancelled => run.lifetime
    BY <2>3, <2>5
  <2> QED
    BY <1>1, <2>1, <2>2, <2>3, <2>4, <2>5, <2>6, <2>7, FoldKeeps
<1> QED
  BY <1>1, <1>7, <1>8 DEF WaveFold

\* A rolling fold takes the one outcome that is next, or settles what it folded.
LEMMA RollFoldKeeps == ASSUME RunInv, RollFold PROVE RunInv'
<1>1. /\ srv.phase = "fold" /\ srv \in ServerRec /\ ev \in EvidenceRec /\ count.done \in Nat
      /\ cfg' = cfg /\ workers' = workers /\ results' = results
      /\ run' = run /\ call' = call /\ told' = told
  BY DEF RollFold, RunInv, Typed, CountRec
<1>2. cfg.rolling /\ (srv.cancelled => run.lifetime) /\ \A o \in held : o.err = "none"
  BY <1>1 DEF RunInv, Modes, Caused, Loop
<1>3. ASSUME NEW o \in held, FoldNext(o), held' = held \ {o},
             Fold({o}, [srv EXCEPT !.pending = @ /\ o.confirming = NoItem])
      PROVE  RunInv'
  <2> DEFINE next == [srv EXCEPT !.pending = @ /\ o.confirming = NoItem]
  <2>1. /\ next \in ServerRec /\ next.phase = "fold" /\ next.cur = srv.cur
        /\ next.found = srv.found /\ next.err = srv.err /\ next.cancelled = srv.cancelled
    BY <1>1 DEF ServerRec
  <2>2. Indexed({o}, count.done, count.done + 1)
    BY <1>1, <1>3 DEF Indexed, FoldNext
  <2>3. Fold({o}, next)
    BY <1>3
  <2>4. {o} \in SUBSET held /\ 1 \in Nat /\ held' = held \ {o}
    BY <1>3
  <2> HIDE DEF next
  <2> QED
    BY <1>1, <1>2, <2>1, <2>2, <2>3, <2>4, FoldKeeps
<1>4. ASSUME srv' = [srv EXCEPT !.phase = "settle"], ev' = ev, count' = count, held' = held, seen' = seen
      PROVE  RunInv'
  <2>1. /\ srv' \in ServerRec /\ srv'.phase = "settle" /\ srv'.cur = srv.cur
        /\ srv'.found = srv.found /\ srv'.err = srv.err /\ srv'.cancelled = srv.cancelled
    BY <1>1, <1>4 DEF ServerRec, Phases, Serving, Loop
  <2>2. Modes' /\ srv.phase \in Serving
    BY <1>1, <1>2, <1>4, <2>1 DEF Modes, Serving, Loop
  <2> QED
    BY <1>1, <1>2, <1>4, <2>1, <2>2, ServerMoves DEF Loop
<1> QED
  BY <1>1, <1>3, <1>4 DEF RollFold

\* What settling leaves as it was.
LEMMA SettleMoves ==
  ASSUME RunInv, srv.phase = "settle", told' = Due(count.done), cfg' = cfg, count' = count,
         workers' = workers, results' = results, held' = held, run' = run, call' = call, seen' = seen,
         srv' \in ServerRec, srv'.cur = srv.cur, srv'.err = srv.err, ev' \in EvidenceRec,
         srv'.phase \in {"plan", "fill", "drain", "reply"}, srv'.phase = "reply" => ~cfg.rolling,
         Modes', Weighed',
         srv'.phase = "drain" => srv'.found # NoItem \/ ev'.active = {},
         srv'.phase \in {"plan", "fill"} /\ srv'.cancelled => srv.cancelled
  PROVE  RunInv'
<1>1. Outs' = Outs /\ Live' = Live /\ Good' = Good /\ Stopped' = Stopped
  BY DEF Outs, Live, Good, Stopped
<1>2. told' \in [last : Int, shown : Int]
  BY DEF RunInv, Typed, Due, CountRec
<1>3. Typed'
  BY <1>1, <1>2 DEF RunInv, Typed
<1>4. Tickets'
  <2>1. ASSUME srv'.phase = "reply" PROVE Live = {}
    <3>1. count.launched = count.done /\ Indexed(Live, count.done, count.launched) /\ count.done \in Int
      BY <2>1 DEF RunInv, Modes, Tickets, Loop, Typed, CountRec
    <3> QED
      BY <3>1 DEF Indexed
  <2> QED
    BY <1>1, <2>1 DEF RunInv, Tickets, Loop
<1>5. Caused'
  <2>1. srv.err = "none" /\ (srv.cancelled => run.lifetime)
    BY DEF RunInv, Caused, Loop
  <2>2. (\E o \in Outs : o.err = "canceled") => Stopped \/ Fault(Outs)
    BY DEF RunInv, Caused, Loop
  <2> QED
    BY <1>1, <2>1, <2>2 DEF Caused, Loop
<1>6. Accounted'
  BY <1>1 DEF RunInv, Accounted, Balanced, NoneLost
<1>7. Calls'
  BY DEF RunInv, Calls, Serving, Loop
<1>8. ASSUME NEW c \in Callers PROVE Answered(call[c].reply, call[c].pc = "wait")'
  BY DEF RunInv, Replied, Answered
<1> QED
  BY <1>3, <1>4, <1>5, <1>6, <1>7, <1>8 DEF RunInv, Replied

\* A commit is earned, and an item eliminated here crossed in every direction.
LEMMA SettleKeeps == ASSUME RunInv, SettleEvidence PROVE RunInv'
<1>1. /\ srv.phase = "settle" /\ srv \in ServerRec /\ ev \in EvidenceRec /\ cfg \in Configs
      /\ told' = Due(count.done) /\ cfg' = cfg /\ count' = count
      /\ workers' = workers /\ results' = results /\ held' = held
      /\ run' = run /\ call' = call /\ seen' = seen
  BY DEF SettleEvidence, RunInv, Typed
<1>2. cfg.rolling \in BOOLEAN
  BY <1>1, RunAssumption
<1>3. ASSUME NEW c \in Committed(cfg, ev), ev' = ev,
             srv' = [srv EXCEPT !.found = c, !.phase = IF cfg.rolling THEN "drain" ELSE "reply",
                                !.cancelled = @ \/ cfg.rolling]
      PROVE  RunInv'
  <2>1. /\ c \in ev.active /\ c \in Candidates
        /\ cfg.cleanOnly => ev.clean[c] >= CommitAt \/ -ev.clean[c] >= CommitAt
    BY <1>1, CommittedEarned
  <2>2. c # NoItem
    BY <2>1, SolverAssumption DEF Candidates, NoItem
  <2> DEFINE p == IF cfg.rolling THEN "drain" ELSE "reply"
             s == srv.cancelled \/ cfg.rolling
  <2>3. p \in {"drain", "reply"} /\ (p = "drain" <=> cfg.rolling)
    OBVIOUS
  <2>4. srv' = [srv EXCEPT !.found = c, !.phase = p, !.cancelled = s]
    BY <1>3, Zenon
  <2>5. s \in BOOLEAN
    OBVIOUS
  <2> HIDE DEF p, s
  <2>6. /\ srv' \in ServerRec /\ srv'.phase = p /\ srv'.cur = srv.cur
        /\ srv'.found = c /\ srv'.err = srv.err
    BY <1>1, <2>1, <2>3, <2>4, <2>5 DEF ServerRec, Phases, Serving, Loop
  <2>7. Modes'
    BY <1>1, <2>3, <2>6 DEF Modes
  <2>8. Deserved(c)
    <3>1. /\ ev.clean[c] \in Int /\ seen.wins[c] \in Int /\ CommitAt \in Int
          /\ -seen.wins[c] <= ev.clean[c] /\ ev.clean[c] <= seen.wins[c]
      BY <1>1, <2>1, SolverAssumption DEF RunInv, Typed, Weighed, EvidenceRec, SeenRec
    <3> QED
      BY <2>1, <3>1 DEF Deserved
  <2>9. Weighed'
    BY <1>1, <1>3, <2>3, <2>6, <2>8 DEF RunInv, Weighed, Deserved
  <2> QED
    BY <1>1, <1>3, <2>2, <2>3, <2>6, <2>7, <2>9, SettleMoves
<1>4. ASSUME ev' = Eliminate(cfg, ev, srv.updated), NEW over \in BOOLEAN,
             over => cfg.rolling /\ ev'.active = {},
             srv' = [srv EXCEPT !.phase = IF over THEN "drain" ELSE Looping, !.cancelled = @ \/ over]
      PROVE  RunInv'
  <2>1. /\ ev' \in EvidenceRec /\ ev'.neg = ev.neg /\ ev'.clean = ev.clean /\ ev'.active \subseteq ev.active
        /\ \A c \in ev.active \ ev'.active : \A d \in Dirs(cfg) : ev.neg[d][c] >= ElimAt
    BY <1>1, <1>4 DEF Eliminate, EvidenceRec
  <2> DEFINE p == IF over THEN "drain" ELSE Looping
             s == srv.cancelled \/ over
  <2>2. /\ p \in {"drain", "plan", "fill"} /\ (p = "drain" => over)
        /\ (p = "plan" => ~cfg.rolling) /\ (p = "fill" => cfg.rolling)
    BY DEF Looping
  <2>3. srv' = [srv EXCEPT !.phase = p, !.cancelled = s]
    BY <1>4, Zenon
  <2>4. s \in BOOLEAN /\ (p # "drain" /\ s => srv.cancelled)
    OBVIOUS
  <2> HIDE DEF p, s
  <2>5. /\ srv' \in ServerRec /\ srv'.phase = p /\ srv'.cur = srv.cur
        /\ srv'.found = srv.found /\ srv'.err = srv.err /\ srv'.cancelled = s
    BY <1>1, <2>2, <2>3, <2>4 DEF ServerRec, Phases, Serving, Loop
  <2>6. Modes'
    BY <1>1, <1>4, <2>2, <2>5 DEF RunInv, Modes
  <2>7. srv.found = NoItem
    BY <1>1 DEF RunInv, Weighed
  <2>8. Weighed'
    BY <1>1, <2>1, <2>5, <2>7 DEF RunInv, Weighed
  <2> QED
    BY <1>1, <1>4, <2>1, <2>2, <2>4, <2>5, <2>6, <2>8, SettleMoves
<1>5. ASSUME Committed(cfg, ev) = {}, ev' = Eliminate(cfg, ev, srv.updated),
             srv' = LET over == cfg.rolling /\ ev'.active = {}
                    IN [srv EXCEPT !.phase = IF over THEN "drain" ELSE Looping, !.cancelled = @ \/ over]
      PROVE  RunInv'
  <2> DEFINE over == cfg.rolling /\ ev'.active = {}
  <2>1. over \in BOOLEAN /\ (over => cfg.rolling /\ ev'.active = {})
    OBVIOUS
  <2>2. srv' = [srv EXCEPT !.phase = IF over THEN "drain" ELSE Looping, !.cancelled = @ \/ over]
    BY <1>5, Zenon
  <2> HIDE DEF over
  <2> QED
    BY <1>4, <1>5, <2>1, <2>2, Zenon
<1> QED
  BY <1>1, <1>3, <1>5, Zenon DEF SettleEvidence

-----------------------------------------------------------------------------
(* The end of an advance.                                                  *)

\* A drain empties the window, and counts what a decided run threw away.
LEMMA DrainKeeps == ASSUME RunInv, Drain PROVE RunInv'
<1> DEFINE drained == held \cup results
<1>1. /\ srv.phase = "drain" /\ workers = {} /\ held' = {} /\ results' = {} /\ workers' = workers
      /\ srv \in ServerRec /\ count \in CountRec /\ ev' = ev /\ cfg' = cfg
      /\ run' = run /\ call' = call /\ told' = told /\ seen' = seen
  BY DEF Drain, DrainComplete, RunInv, Typed
<1>2. /\ count.done \in Nat /\ count.launched \in Int /\ count.places \in Int
      /\ count.done <= count.launched /\ Indexed(Live, count.done, count.launched)
  BY <1>1 DEF CountRec, RunInv, Tickets, Loop
<1>3. drained = Outs /\ Live = Outs /\ Outs' = {} /\ Live' = {} /\ Good' = {} /\ {o \in drained : o.err = "none"} = Good
  BY <1>1 DEF Outs, Live, Good
<1>4. Cardinality(Outs) = count.launched - count.done
  BY <1>2, <1>3, IndexedSize
<1>5. Cardinality(Good) \in Nat /\ Sizes(Good) \in Nat /\ (Outs = {} => Cardinality(Good) = 0 /\ Sizes(Good) = 0)
  <2>1. Outs = {} => Good = {}
    BY DEF Good
  <2> QED
    BY <2>1, LiveFinite, FS_EmptySet, SizesNone DEF RunInv
<1>6. /\ LoopError(drained) \in {"none", "ctx", "lifetime", "fail", "canceled"}
      /\ LoopError(drained) = "none" <=> ~Stopped /\ ~Bad(drained)
      /\ LoopError(drained) = "canceled" => ~Stopped /\ Bad(drained) /\ ~Fault(drained)
  BY <1>3, LoopErrorIs DEF RunInv
<1>7. /\ srv.err \in {"none", "pending"} /\ (srv.err = "pending" => Bad(held))
      /\ srv.found # NoItem \/ ev.active = {} \/ count.launched = count.done
           \/ srv.err = "pending" \/ Stopped
      /\ (\E o \in Outs : o.err = "canceled") => Stopped \/ Fault(Outs) \/ srv.err = "none"
  BY <1>1 DEF RunInv, Caused, Loop
<1> DEFINE e == IF srv.err = "pending" THEN LoopError(drained) ELSE srv.err
<1>8. srv' = [srv EXCEPT !.phase = "reply", !.err = e]
  BY Zenon DEF Drain
<1>9. /\ e \in Errors \ {"canceled", "pending"} /\ (srv.err = "pending" => e # "none")
  <2>1. srv.err = "pending" => Bad(drained)
    BY <1>7 DEF Bad
  <2>2. ASSUME srv.err = "pending", LoopError(drained) = "canceled" PROVE FALSE
    <3>1. \A o \in Outs : o.err \in {"none", "fail", "canceled"}
      BY DEF RunInv, Typed, Outcome
    <3> QED
      BY <1>3, <1>6, <1>7, <2>2, <3>1 DEF Bad, Fault
  <2> QED
    BY <1>6, <1>7, <2>1, <2>2 DEF Errors
<1>10. count' = IF srv.found # NoItem \/ ev.active = {} THEN Discard(drained) ELSE DiscardFree(drained)
  BY Zenon DEF Drain
<1> HIDE DEF drained, e
<1>11. /\ srv' \in ServerRec /\ srv'.phase = "reply" /\ srv'.cur = srv.cur
       /\ srv'.found = srv.found /\ srv'.err = e
  BY <1>1, <1>8, <1>9 DEF ServerRec, Phases, Serving
<1>12. Stopped' = Stopped
  BY <1>1, <1>11 DEF Stopped
<1>13. /\ count' \in CountRec /\ count'.done = count.done /\ count'.places = count.places
       /\ srv.found # NoItem \/ ev.active = {} =>
            count'.discarded = Cardinality(Good) /\ count'.lost = Sizes(Good)
       /\ srv.found = NoItem /\ ev.active # {} =>
            count'.discarded = count.discarded /\ count'.lost = count.lost
  <2> DEFINE launched == count.launched - Cardinality(drained)
             a == Cardinality({o \in drained : o.err = "none"})
             b == Sizes({o \in drained : o.err = "none"})
  <2>1. launched \in Int
    BY <1>2, <1>3, <1>4
  <2>2. a = Cardinality(Good) /\ b = Sizes(Good) /\ a \in Int /\ b \in Int
    BY <1>3, <1>5
  <2>3. CASE srv.found # NoItem \/ ev.active = {}
    <3>1. count' = [count EXCEPT !.launched = launched, !.discarded = a, !.lost = b]
      BY <1>10, <2>3, Zenon DEF Discard
    <3> HIDE DEF launched, a, b
    <3>2. /\ count' \in CountRec /\ count'.done = count.done /\ count'.places = count.places
          /\ count'.discarded = a /\ count'.lost = b
      BY <1>1, <2>1, <2>2, <3>1 DEF CountRec
    <3> QED
      BY <2>2, <2>3, <3>2
  <2>4. CASE ~(srv.found # NoItem \/ ev.active = {})
    <3>1. count' = [count EXCEPT !.launched = launched]
      BY <1>10, <2>4, Zenon DEF DiscardFree
    <3> HIDE DEF launched
    <3>2. /\ count' \in CountRec /\ count'.done = count.done /\ count'.places = count.places
          /\ count'.discarded = count.discarded /\ count'.lost = count.lost
      BY <1>1, <2>1, <3>1 DEF CountRec
    <3> QED
      BY <2>4, <3>2
  <2> QED
    BY <2>3, <2>4
<1>14. Typed'
  BY <1>1, <1>3, <1>11, <1>13 DEF RunInv, Typed
<1>15. Tickets' /\ Modes'
  BY <1>1, <1>3, <1>11, <1>13 DEF RunInv, Tickets, Modes, Loop
<1>16. Weighed'
  BY <1>1, <1>11 DEF RunInv, Weighed, Deserved
<1>17. Caused'
  BY <1>3, <1>9, <1>11 DEF Caused, Loop
<1>18. Accounted'
  <2>1. Balanced /\ NoneLost
    BY <1>1 DEF RunInv, Accounted
  <2>2. Cardinality(Good') = 0 /\ Sizes(Good') = 0
    BY <1>3, FS_EmptySet, SizesNone
  <2>3. seen.completed = count.done + Cardinality(Good) /\ seen.places = count.places + Sizes(Good)
    BY <1>2, <1>5, <2>1 DEF Balanced, NoneLost
  <2>4. CASE srv.found # NoItem \/ ev.active = {}
    <3>1. Balanced'
      BY <1>1, <1>2, <1>5, <1>13, <2>2, <2>3, <2>4 DEF Balanced
    <3> QED
      BY <1>1, <1>11, <2>4, <3>1 DEF Accounted
  <2>5. CASE srv.found = NoItem /\ ev.active # {}
    <3>1. NoneLost'
      BY <1>13, <2>1, <2>5 DEF NoneLost
    <3>2. CASE count.launched = count.done
      <4>1. Outs = {}
        BY <1>2, <1>3, <3>2 DEF Indexed
      <4>2. Balanced'
        BY <1>1, <1>2, <1>5, <1>13, <2>1, <2>2, <2>3, <2>5, <4>1 DEF Balanced, NoneLost
      <4> QED
        BY <1>11, <3>1, <4>2 DEF Accounted
    <3>3. CASE srv.err = "pending" \/ Stopped
      BY <1>9, <1>11, <1>12, <2>5, <3>1, <3>3 DEF Accounted
    <3> QED
      BY <1>7, <2>5, <3>2, <3>3
  <2> QED
    BY <2>4, <2>5
<1>19. Calls'
  BY <1>1, <1>11 DEF RunInv, Calls, Serving, Loop
<1>20. ASSUME NEW c \in Callers PROVE Answered(call[c].reply, call[c].pc = "wait")'
  BY <1>1, <1>11 DEF RunInv, Replied, Answered
<1> QED
  BY <1>14, <1>15, <1>16, <1>17, <1>18, <1>19, <1>20 DEF RunInv, Replied

\* The answer is what the advance did.
LEMMA AnswerIs ==
  ASSUME RunInv, srv.phase = "reply"
  PROVE  /\ Answer \in ReplyRec /\ Answer.outcome \in {"found", "error", "negative", "paused"}
         /\ Answer.err # "canceled"
         /\ Answer.outcome = "found" <=> srv.found # NoItem
         /\ Answer.outcome = "found" => Answer.item = srv.found
         /\ Answer.outcome = "negative" => ev.active = {}
         /\ Answer.outcome # "error" => Answer.cost = count.done + count.discarded
         /\ srv.found = NoItem /\ (srv.err # "none" \/ Stopped) => Answer.outcome = "error"
         /\ Answer.outcome = "paused" => srv.err = "none" /\ ~Stopped /\ ev.active # {}
<1>1. /\ srv \in ServerRec /\ srv.err \in Errors /\ srv.err # "canceled"
      /\ count.done \in Int /\ count.discarded \in Int /\ srv.found \in Candidates \cup {NoItem}
  BY DEF RunInv, Typed, CountRec, ServerRec, Caused
<1>2. /\ LoopError({}) \in {"none", "ctx", "lifetime", "fail", "canceled"}
      /\ LoopError({}) = "none" <=> ~Stopped /\ ~Bad({})
      /\ LoopError({}) = "canceled" => Bad({})
  BY LoopErrorIs DEF RunInv
<1>3. ~Bad({})
  BY DEF Bad
<1> DEFINE err == IF srv.err # "none" THEN srv.err ELSE LoopError({})
           cost == count.done + count.discarded
           outcome == IF srv.found # NoItem THEN "found"
                      ELSE IF err # "none" THEN "error"
                      ELSE IF ev.active = {} THEN "negative" ELSE "paused"
<1>4. /\ Answer.outcome = outcome
      /\ Answer.item = (IF outcome = "found" THEN srv.found ELSE NoItem)
      /\ Answer.cost = (IF outcome = "error" THEN 0 ELSE cost)
      /\ Answer.err = (IF outcome = "error" THEN err ELSE "none")
      /\ Answer = [outcome |-> Answer.outcome, item |-> Answer.item, cost |-> Answer.cost, err |-> Answer.err]
  BY DEF Answer
<1>5. err \in Errors \ {"canceled"} /\ (err = "none" <=> srv.err = "none" /\ ~Stopped)
  BY <1>1, <1>2, <1>3 DEF Errors
<1>6. cost \in Int
  BY <1>1
<1> HIDE DEF err, cost
<1>7. /\ outcome \in {"found", "error", "negative", "paused"}
      /\ outcome = "found" <=> srv.found # NoItem
      /\ outcome = "negative" => ev.active = {}
      /\ srv.found = NoItem /\ err # "none" => outcome = "error"
      /\ outcome = "paused" => err = "none" /\ ev.active # {}
  OBVIOUS
<1> HIDE DEF outcome
<1>8. Answer \in ReplyRec
  <2>1. /\ Answer.item \in Candidates \cup {NoItem} /\ Answer.cost \in Int /\ Answer.err \in Errors
        /\ Answer.outcome \in {"none", "error", "found", "negative", "paused", "inconclusive"}
    BY <1>1, <1>4, <1>5, <1>6, <1>7 DEF Errors
  <2> QED
    BY <1>4, <2>1 DEF ReplyRec
<1>9. Answer.outcome # "error" => Answer.cost = count.done + count.discarded
  BY <1>4 DEF cost
<1> QED
  BY <1>4, <1>5, <1>7, <1>8, <1>9

\* A reply ends the advance; only a pause keeps the run.
LEMMA ReplyKeeps == ASSUME RunInv, Reply PROVE RunInv'
<1>0. PICK c \in Callers : c = srv.cur
  BY DEF RunInv, Typed, ServerRec
<1> DEFINE p == IF Answer.outcome = "paused" THEN "idle" ELSE "exited"
<1>1. /\ srv.phase = "reply" /\ srv \in ServerRec /\ c \in Callers /\ count \in CountRec
      /\ call \in [Callers -> CallerRec] /\ call[c] \in CallerRec
      /\ call' = [call EXCEPT ![c].reply = Answer]
      /\ srv' = [srv EXCEPT !.phase = p, !.cancelled = TRUE]
      /\ ev' = ev /\ cfg' = cfg /\ count' = count /\ workers' = workers /\ results' = results
      /\ held' = held /\ run' = run /\ seen' = seen
  BY <1>0 DEF Reply, RunInv, Typed
<1>2. /\ Answer \in ReplyRec /\ Answer.outcome \in {"found", "error", "negative", "paused"}
      /\ Answer.err # "canceled"
      /\ Answer.outcome = "found" <=> srv.found # NoItem
      /\ Answer.outcome = "found" => Answer.item = srv.found
      /\ Answer.outcome = "negative" => ev.active = {}
      /\ Answer.outcome # "error" => Answer.cost = count.done + count.discarded
      /\ srv.found = NoItem /\ (srv.err # "none" \/ Stopped) => Answer.outcome = "error"
      /\ Answer.outcome = "paused" => srv.err = "none" /\ ~Stopped /\ ev.active # {}
  BY <1>1, AnswerIs
<1>3. /\ Live = {} /\ Outs = {} /\ Good = {}
      /\ Outs' = Outs /\ Live' = Live
  BY <1>1 DEF RunInv, Tickets, Loop, Live, Outs, Good
<1>4. p \in {"idle", "exited"} /\ (p = "idle" <=> Answer.outcome = "paused")
  OBVIOUS
<1>5. /\ told' = CASE Answer.outcome = "error" -> told
                   [] Answer.outcome = "paused" -> [last |-> count.done, shown |-> count.done]
                   [] OTHER -> [told EXCEPT !.shown = Answer.cost]
  BY Zenon DEF Reply
<1> HIDE DEF p
<1>6. srv' \in ServerRec /\ srv'.phase = p /\ srv'.cur = srv.cur /\ srv'.found = srv.found /\ srv'.err = srv.err
  BY <1>1, <1>4 DEF ServerRec, Phases
<1>7. /\ call' \in [Callers -> CallerRec] /\ call'[c].reply = Answer
      /\ call[c].pc = "wait" /\ call'[c].pc = "wait"
      /\ \A d \in Callers \ {c} : call'[d] = call[d] /\ call[d].pc = "idle"
  <2>1. call[c].pc = "wait"
    BY <1>0, <1>1 DEF RunInv, Calls, Serving
  <2>2. call' \in [Callers -> CallerRec] /\ call'[c] = [call[c] EXCEPT !.reply = Answer]
    BY <1>1, <1>2 DEF CallerRec
  <2> QED
    BY <1>1, <2>1, <2>2 DEF RunInv, Calls, CallerRec
<1>8. /\ told' \in [last : Int, shown : Int]
      /\ Answer.outcome = "paused" => told'.shown = count.done
      /\ Answer.outcome \in {"found", "negative"} => told'.shown = Answer.cost
  <2>1. told \in [last : Int, shown : Int] /\ count.done \in Int /\ Answer.cost \in Int
    BY <1>1, <1>2 DEF RunInv, Typed, CountRec, ReplyRec
  <2>2. CASE Answer.outcome = "error"
    BY <1>5, <2>1, <2>2
  <2>3. CASE Answer.outcome = "paused"
    BY <1>5, <2>1, <2>3
  <2>4. CASE Answer.outcome \in {"found", "negative"}
    BY <1>5, <2>1, <2>4
  <2> QED
    BY <1>2, <2>2, <2>3, <2>4
<1>9. Answer.outcome # "error" =>
        /\ seen.completed = count.done + count.discarded /\ seen.places = count.places + count.lost
  <2>1. Cardinality(Good) = 0 /\ Sizes(Good) = 0
    BY <1>3, FS_EmptySet, SizesNone
  <2>2. Answer.outcome # "error" => Balanced
    BY <1>1, <1>2 DEF RunInv, Accounted
  <2>3. count.done \in Int /\ count.discarded \in Int /\ count.places \in Int /\ count.lost \in Int
    BY <1>1 DEF CountRec
  <2> QED
    BY <2>1, <2>2, <2>3 DEF Balanced
<1>10. Answer.outcome = "paused" => NoneLost
  BY <1>1, <1>2 DEF RunInv, Accounted
<1>11. Typed'
  BY <1>1, <1>3, <1>6, <1>7, <1>8 DEF RunInv, Typed
<1>12. Tickets' /\ Modes'
  BY <1>1, <1>3, <1>4, <1>6 DEF RunInv, Tickets, Modes, Loop
<1>13. Weighed'
  BY <1>1, <1>2, <1>4, <1>6 DEF RunInv, Weighed, Deserved
<1>14. Caused'
  BY <1>1, <1>2, <1>4, <1>6 DEF RunInv, Caused, Loop
<1>15. Accounted'
  <2>1. Good' = Good
    BY <1>3 DEF Good
  <2>2. ASSUME p = "idle" PROVE Balanced' /\ NoneLost'
    BY <1>1, <1>2, <1>4, <1>10, <2>1, <2>2 DEF RunInv, Accounted, Balanced, NoneLost
  <2> QED
    BY <1>4, <1>6, <2>2 DEF Accounted
<1>16. Calls'
  BY <1>1, <1>4, <1>6, <1>7 DEF RunInv, Calls, Serving, Loop
<1>17. Answered(call[c].reply, call[c].pc = "wait")'
  <2>1. srv.found # NoItem => srv.found \in Candidates /\ Deserved(srv.found)
    BY <1>1 DEF RunInv, Weighed, ServerRec
  <2>2. Deserved(srv.found)' <=> Deserved(srv.found)
    BY <1>1, <1>6 DEF Deserved
  <2>3. Answer.outcome = "found" => Answer.item \in Candidates /\ Answer.item \in ev.active
                                    /\ (cfg.cleanOnly => seen.wins[Answer.item] >= CommitAt)
    BY <1>2, <2>1 DEF Deserved
  <2>4. Answer.outcome # "error" =>
          /\ Answer.cost = seen.completed /\ count.places + count.lost = seen.places
          /\ told'.shown = Answer.cost
    <3>1. count.done \in Int /\ count.discarded \in Int
      BY <1>1 DEF CountRec
    <3> QED
      BY <1>2, <1>8, <1>9, <1>10, <3>1 DEF NoneLost
  <2> QED
    BY <1>1, <1>2, <1>4, <1>6, <1>7, <2>3, <2>4 DEF Answered, Deserved
<1>18. ASSUME NEW d \in Callers \ {c} PROVE Answered(call[d].reply, call[d].pc = "wait")'
  BY <1>1, <1>7 DEF RunInv, Replied, Answered
<1>19. Replied'
  BY <1>17, <1>18 DEF Replied
<1> QED
  BY <1>11, <1>12, <1>13, <1>14, <1>15, <1>16, <1>19 DEF RunInv

-----------------------------------------------------------------------------
(* The theorems.                                                           *)

\* A run that has not begun has nothing underway.
LEMMA RunInvInit == Init => RunInv
<1> SUFFICES ASSUME Init PROVE RunInv
  OBVIOUS
<1>1. /\ cfg \in Configs /\ ev = InitialEvidence(cfg)
      /\ srv = [phase |-> "init", cur |-> CHOOSE c \in Callers : TRUE, nominee |-> NoItem,
                pending |-> FALSE, cancelled |-> FALSE, found |-> NoItem, err |-> "none", updated |-> {}]
      /\ count = [done |-> 0, launched |-> 0, end |-> 0, places |-> 0, discarded |-> 0, lost |-> 0]
      /\ workers = {} /\ results = {} /\ held = {}
      /\ run = [lifetime |-> FALSE, closed |-> FALSE, advancing |-> FALSE]
      /\ call = [c \in Callers |-> [pc |-> "idle", budget |-> 0, gone |-> FALSE, reply |-> NoReply]]
      /\ told = [last |-> 0, shown |-> 0]
      /\ seen = [completed |-> 0, places |-> 0, folded |-> <<>>, faults |-> 0, advances |-> 0,
                 wins |-> [c \in Candidates |-> 0]]
  BY DEF Init
<1>2. (CHOOSE c \in Callers : TRUE) \in Callers
  BY RunAssumption
<1>3. srv \in ServerRec
  BY <1>1, <1>2 DEF ServerRec, Phases, Errors
<1>4. /\ ev \in EvidenceRec /\ ev.active = Candidates
      /\ \A c \in Candidates : ev.clean[c] = 0
  BY <1>1 DEF InitialEvidence, EvidenceRec, Directions
<1>5. count \in CountRec /\ run \in FlagsRec
  BY <1>1 DEF CountRec, FlagsRec
<1>6. NoReply \in ReplyRec /\ NoReply.outcome = "none" /\ NoReply.err = "none"
  BY DEF NoReply, ReplyRec, Errors
<1>7. call \in [Callers -> CallerRec] /\ \A c \in Callers : call[c].pc = "idle" /\ call[c].reply = NoReply
  BY <1>1, <1>6 DEF CallerRec
<1>8. seen \in SeenRec /\ seen.folded = [i \in 1..0 |-> i - 1]
  BY <1>1 DEF SeenRec
<1>9. Outs = {} /\ Live = {} /\ Good = {}
  BY <1>1 DEF Outs, Live, Good
<1>10. Typed
  <2>1. told \in [last : Int, shown : Int]
    BY <1>1
  <2>2. (\A w \in workers : w.index \in Nat /\ w.items \in SUBSET Ids) /\ \A o \in Outs : Outcome(o)
    BY <1>1, <1>9
  <2> QED
    BY <1>1, <1>3, <1>4, <1>5, <1>7, <1>8, <2>1, <2>2 DEF Typed
<1>11. Tickets /\ Modes
  BY <1>1, <1>8, <1>9 DEF Tickets, Modes, Loop
<1>12. Weighed /\ Caused
  BY <1>1, <1>4, <1>9 DEF Weighed, Caused, Loop
<1>13. Accounted
  BY <1>1, <1>9, FS_EmptySet, SizesNone DEF Accounted, Balanced, NoneLost
<1>14. Calls
  BY <1>1, <1>7 DEF Calls, Serving, Loop
<1>15. Replied
  BY <1>6, <1>7 DEF Replied, Answered
<1> QED
  BY <1>10, <1>11, <1>12, <1>13, <1>14, <1>15 DEF RunInv

\* Every step keeps the invariant.
LEMMA RunInvStep == RunInv /\ [Next]_vars => RunInv'
<1> SUFFICES ASSUME RunInv, [Next]_vars PROVE RunInv'
  OBVIOUS
<1>1. CASE ServeInit \/ ServeStop
  BY <1>1, ServeInitKeeps
<1>2. CASE PlanWave
  BY <1>2, PlanKeeps
<1>3. CASE WaveLaunch
  BY <1>3, WaveLaunchKeeps
<1>4. CASE WaveLaunched
  BY <1>4, WaveLaunchedKeeps
<1>5. CASE RollLaunch
  BY <1>5, RollLaunchKeeps
<1>6. CASE RollFilled
  BY <1>6, RollFilledKeeps
<1>7. CASE SettleEvidence
  BY <1>7, SettleKeeps
<1>8. CASE WaveFold
  BY <1>8, WaveFoldKeeps
<1>9. CASE RollReceive
  BY <1>9, RollReceiveKeeps
<1>10. CASE RollFold
  BY <1>10, RollFoldKeeps
<1>11. CASE Drain
  BY <1>11, DrainKeeps
<1>12. CASE Reply
  BY <1>12, ReplyKeeps
<1>13. CASE LifetimeCancels
  BY <1>13, LifetimeKeeps
<1>14. CASE \E c \in Callers : TakeCommand(c)
  BY <1>14, TakeKeeps
<1>15. CASE \E o \in results : WaveReceive(o)
  BY <1>15, WaveReceiveKeeps
<1>16. CASE Compare
  BY <1>16, CompareKeeps DEF Compare
<1>17. CASE Close \/ CloseReturns
  BY <1>17, CloseKeeps
<1>18. CASE \E c \in Callers : GiveUp(c) \/ Return(c)
  BY <1>18, GiveUpKeeps, ReturnKeeps
<1>19. CASE \E c \in Callers : CancelCaller(c) \/ \E b \in Offers : Advance(c, b)
  BY <1>19, CancelKeeps, AdvanceKeeps
<1>20. CASE UNCHANGED vars
  <2>1. /\ cfg' = cfg /\ ev' = ev /\ srv' = srv /\ count' = count /\ workers' = workers
        /\ results' = results /\ held' = held /\ run' = run /\ call' = call
        /\ told' = told /\ seen' = seen
    BY <1>20 DEF vars
  <2>2. Outs' = Outs /\ Live' = Live /\ Good' = Good /\ Stopped' = Stopped
    BY <2>1 DEF Outs, Live, Good, Stopped
  <2>3. Typed' /\ Tickets' /\ Modes'
    BY <2>1, <2>2 DEF RunInv, Typed, Tickets, Modes
  <2>4. Weighed' /\ Caused' /\ Accounted'
    BY <2>1, <2>2 DEF RunInv, Weighed, Deserved, Caused, Accounted, Balanced, NoneLost
  <2>5. Calls' /\ Replied'
    BY <2>1 DEF RunInv, Calls, Replied, Answered, Deserved
  <2> QED
    BY <2>3, <2>4, <2>5 DEF RunInv
<1> QED
  BY <1>1, <1>2, <1>3, <1>4, <1>5, <1>6, <1>7, <1>8, <1>9, <1>10, <1>11, <1>12, <1>13, <1>14, <1>15,
     <1>16, <1>17, <1>18, <1>19, <1>20 DEF Next, Runs, Serve, Ending

\* The solver's loop (RollFold, WaveFold in ranking's outlier run) folds the
\* outcomes of its comparison goroutines in dispatch order, each exactly once,
\* never has more than a window of them underway, and leaves none behind when it
\* answers: with any number of callers, of comparisons and of items.
THEOREM FoldedInOrder == Spec => []FoldedInDispatchOrder
<1>1. RunInv => FoldedInDispatchOrder
  <2> SUFFICES ASSUME RunInv PROVE FoldedInDispatchOrder
    OBVIOUS
  <2>1. Live = workers \cup results \cup held
    BY DEF Live, Outs
  <2>2. Cardinality(Live) <= Window
    <3>1. CASE srv.phase \in Loop
      <4>1. count.done \in Int /\ count.launched \in Int
        BY DEF RunInv, Typed, CountRec
      <4>2. /\ Indexed(Live, count.done, count.launched) /\ count.done <= count.launched
            /\ count.launched - count.done <= Window
        BY <3>1 DEF RunInv, Tickets
      <4>3. Cardinality(Live) = count.launched - count.done
        BY <4>1, <4>2, IndexedSize
      <4> QED
        BY <4>2, <4>3
    <3>2. CASE srv.phase \notin Loop
      <4>1. Live = {}
        BY <3>2 DEF RunInv, Tickets
      <4>2. Cardinality(Live) = 0
        BY <4>1, FS_EmptySet
      <4> QED
        BY <4>2, WindowInt
    <3> QED
      BY <3>1, <3>2
  <2>3. srv.phase \in {"idle", "exited", "refused"} => workers = {} /\ results = {} /\ held = {}
    BY <2>1 DEF RunInv, Tickets, Loop
  <2> QED
    BY <2>1, <2>2, <2>3 DEF FoldedInDispatchOrder, RunInv, Tickets
<1> QED
  BY <1>1, RunInvInit, RunInvStep, PTL DEF Spec

\* A reply of the run (Reply after a pause, a commit, an exhausted population or
\* a failure) names an item that earned it, counts exactly the comparisons the
\* channel completed, and never blames a comparison the run itself cancelled:
\* for every solver, population and threshold.
THEOREM RepliesEarned == Spec => []RepliesAccount
<1>1. RunInv => RepliesAccount
  <2> SUFFICES ASSUME RunInv, NEW c \in Callers
      PROVE  LET r == call[c].reply IN
               /\ Earned(r)
               /\ call[c].pc = "wait" /\ r.outcome \notin {"none", "error"} =>
                    /\ r.cost = seen.completed
                    /\ count.places + count.lost = seen.places
                    /\ told.shown = r.cost
               /\ r.err # "canceled"
    BY DEF RepliesAccount
  <2>1. Answered(call[c].reply, call[c].pc = "wait")
    BY DEF RunInv, Replied
  <2>2. Earned(call[c].reply)
    BY <2>1 DEF Answered, Earned, Deserved, RunInv, Weighed
  <2> QED
    BY <2>1, <2>2 DEF Answered
<1> QED
  BY <1>1, RunInvInit, RunInvStep, PTL DEF Spec
=============================================================================
