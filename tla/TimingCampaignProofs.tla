------------------------ MODULE TimingCampaignProofs ------------------------
(***************************************************************************)
(* Proofs about TimingCampaign for every accepted plan and any number of   *)
(* disturbances: measured requests go to primed connections only, and      *)
(* what Run returns is what the workers did.  Each step of a worker has    *)
(* one of seven effects on the account of units, trials and connections,   *)
(* which the second half adds up.                                          *)
(***************************************************************************)
EXTENDS TimingCampaign, FiniteSetTheorems, WellFoundedInduction, TLAPS

Causes == {"none", "stop", "deadline", "output", "acquisition", "recovery", "warmup"}

\* Where a worker stands: at a barrier, priming, measuring, or gone.
Barrier == {"arrive", "evaluate", "parked", "opening"}
Warming == {"prime", "wop", "wpublish", "check"}
Measuring == {"unit", "op", "publish", "take"}
Gone == {"report", "done"}

WorkerRec ==
  [pc : {"acquire", "dial"} \cup Barrier \cup Warming \cup Measuring \cup {"dispose"} \cup Gone,
   slot : Nat, goal : {"barrier", "ready"}, ret : {"initial", "unit", "op"},
   held : [Slots -> {"none", "ok", "lost", "retired"}], acq : [Slots -> Nat],
   fresh : SUBSET Slots, warm : BOOLEAN, measured : BOOLEAN, replacing : BOOLEAN,
   unit : Nat, rot : Nat, wi : Nat, released : SUBSET Requests, fault : BOOLEAN,
   wreleased : SUBSET Requests, wfault : BOOLEAN, entered : BOOLEAN, whole : BOOLEAN,
   err : Causes, left : Nat]

PhasesRec ==
  [acquired : SUBSET WorkerIds, warmed : SUBSET WorkerIds,
   acquisitionOpen : BOOLEAN, warmupOpen : BOOLEAN, opening : BOOLEAN]

CountsRec ==
  [attempted : Nat, complete : Nat, cycles : Nat, cyclesComplete : Nat,
   acquired : Nat, closed : Nat, failed : Nat, warmups : Nat]

Typed ==
  /\ wk \in [WorkerIds -> WorkerRec]
  /\ phases \in PhasesRec /\ counts \in CountsRec
  /\ published \in [phases : SUBSET BOOLEAN, indices : SUBSET Nat]
  /\ cause \in Causes /\ next \in Nat
  /\ late \in BOOLEAN /\ output \in BOOLEAN

-----------------------------------------------------------------------------
\* Min finds the least member of a set of naturals.
LEMMA MinIn ==
  ASSUME NEW N, N \subseteq Nat, N # {}
  PROVE  Min(N) \in N /\ \A n \in N : Min(N) <= n
<1> DEFINE R1 == {ss \in Nat \X Nat : ss[1] < ss[2]}
<1>1. IsWellFoundedOn(R1, Nat)
  BY NatLessThanWellFounded DEF OpToRel
<1> HIDE DEF R1
<1>2. \E m \in N : \A n \in N : ~(<<n, m>> \in R1)
  BY <1>1, WFMin
<1>3. \A m, n \in N : ~(<<n, m>> \in R1) => m <= n
  BY DEF R1
<1>4. \E m \in N : \A n \in N : m <= n
  BY <1>2, <1>3
<1> QED
  BY <1>4 DEF Min

\* The sizes of an accepted plan.
LEMMA PlanSizes ==
  /\ R.width \in Nat \ {0} /\ UnitCount \in Nat \ {0}
  /\ PerWorker(Plan) \in Nat \ {0} /\ R.workers \in Nat /\ R.units \in Nat
  /\ R.units > 0 => R.workers <= R.units
  /\ Slots \subseteq Nat /\ IsFiniteSet(Slots) /\ WorkerIds \subseteq Nat
<1> DEFINE n == Len(Plan.requests)
           f == [i \in 1..n |-> Plan.requests[i].dest]
           P == Pools(Plan)
<1>1. /\ PlanTyped /\ Plan.requests # << >> /\ ~(Plan.connections < 0)
      /\ Ceiling(Plan) >= PerWorker(Plan)
  BY CampaignAssumption DEF Accepted, PlanRefused
<1>2. n \in Nat \ {0} /\ DOMAIN Plan.requests = 1..n
  BY <1>1 DEF PlanTyped
<1>3. f \in Surjection(1..n, P)
  BY <1>2 DEF Surjection, Pools
<1>4. IsFiniteSet(1..n) /\ Cardinality(1..n) = n
  BY <1>2, FS_Interval
<1>5. IsFiniteSet(P) /\ Cardinality(P) \in Nat
  BY <1>3, <1>4, FS_Surjection, FS_CardinalityType
<1>6. Cardinality(P) # 0
  <2>1. Plan.requests[1].dest \in P
    BY <1>2 DEF Pools
  <2> QED
    BY <1>5, <2>1, FS_EmptySet
<1>7. PerWorker(Plan) \in Nat \ {0}
  BY <1>2, <1>5, <1>6 DEF PerWorker
<1>8. Ceiling(Plan) \in Nat
  BY <1>1, <1>7 DEF Ceiling, PlanTyped
<1>9. Ceiling(Plan) \div PerWorker(Plan) \in Nat
  BY <1>7, <1>8
<1>10. WorkUnits(Plan) \in Nat
  <2>1. Plan.trials \div n \in Nat /\ Plan.trials % n \in Nat
    BY <1>1, <1>2 DEF PlanTyped
  <2> QED
    BY <1>1, <2>1 DEF WorkUnits, Cycles, PlanTyped
<1>11. /\ R.width = n /\ R.workers \in Nat /\ R.units \in Nat
       /\ R.units > 0 => R.workers <= R.units
  BY <1>9, <1>10 DEF R, Resolve, Workers
<1>12. UnitCount \in Nat \ {0}
  BY <1>2, <1>11 DEF UnitCount
<1>13. Slots \subseteq Nat /\ IsFiniteSet(Slots)
  BY <1>7, FS_Interval DEF Slots
<1> QED
  BY <1>2, <1>7, <1>11, <1>12, <1>13 DEF WorkerIds

\* ensure finds a slot without a usable connection, if there is one.
LEMMA FirstLostSlot ==
  ASSUME NEW rec \in WorkerRec
  PROVE  /\ FirstLost(rec) # 0 => FirstLost(rec) \in Slots /\ rec.held[FirstLost(rec)] # "ok"
         /\ FirstLost(rec) = 0 => \A s \in Slots : s >= rec.slot => rec.held[s] = "ok"
<1> DEFINE lost == {s \in Slots : s >= rec.slot /\ rec.held[s] # "ok"}
<1>1. lost \subseteq Nat /\ 0 \notin Slots
  BY PlanSizes DEF Slots
<1>2. CASE lost = {}
  BY <1>2 DEF FirstLost
<1>3. CASE lost # {}
  <2>1. Min(lost) \in lost
    BY <1>1, <1>3, MinIn
  <2>2. FirstLost(rec) = Min(lost)
    BY <1>3 DEF FirstLost
  <2> QED
    BY <1>1, <2>1, <2>2
<1> QED
  BY <1>2, <1>3


-----------------------------------------------------------------------------
(* One worker *)

\* What a worker's place says, given the phases that the consumer was told of:
\* connections wait for priming only where the worker will still prime them, it
\* measures only when both phases were announced, and its unit and slots are in step
\* with what it has published and disposed of.
Fit(r, told) ==
  /\ r.pc \in {"unit", "op", "take"} => r.fresh = {}
  /\ r.pc = "publish" /\ r.err = "none" => r.fresh = {}
  /\ r.pc \in Barrier /\ r.warm => r.fresh = {} /\ FALSE \in told
  /\ r.pc \in Warming => FALSE \in told
  /\ r.pc \in {"acquire", "dial"} /\ r.goal = "ready" => FALSE \in told
  /\ r.pc \in Barrier \/ (r.pc \in {"acquire", "dial"} /\ r.goal = "barrier") => r.ret = "initial"
  /\ r.measured => TRUE \in told /\ FALSE \in told
  /\ r.ret # "initial" \/ r.pc \in Measuring => r.measured
  /\ r.ret = "op" => r.entered /\ r.pc \notin {"unit", "take"}
  /\ r.pc \in {"op", "publish"} => r.ret = "op"
  /\ r.entered /\ r.rot = 0 => r.ret = "op" /\ r.pc # "dispose"
  /\ ~r.entered /\ r.pc # "dispose" => r.rot = 0
  /\ r.rot <= UnitCount
  /\ r.pc \notin {"take", "dispose"} => r.rot < UnitCount
  /\ r.pc # "report" => r.left = 0
  /\ r.pc = "dial" => r.slot \in Slots /\ r.held[r.slot] = "none"
  /\ r.pc \in Gone => \A s \in Slots : r.held[s] = "none"

\* A worker that holds the same slots and is as far with its unit as before; the
\* first trial of a unit enters it.
SameWork(a, b) ==
  /\ b.unit = a.unit /\ b.rot = a.rot /\ b.whole = a.whole /\ b.left = a.left
  /\ \A s \in Slots : b.held[s] = "none" <=> a.held[s] = "none"
  /\ a.pc \notin Gone /\ b.pc \notin Gone
  /\ b.entered # a.entered => b.entered /\ a.rot = 0

\* A worker on its way, that may start to acquire, go on or fail.
Working(r, told) ==
  /\ r \in WorkerRec /\ Fit(r, told)
  /\ r.pc \notin {"take", "dispose"} \cup Gone

\* What a worker becomes.
Becomes(a, b, told) ==
  /\ b \in WorkerRec /\ Fit(b, told) /\ SameWork(a, b)
  /\ b.pc = "opening" => a.pc = "opening" /\ b.warm = a.warm

LEMMA StartsAcquiring ==
  ASSUME NEW told, NEW rec, Working(rec, told), NEW goal \in {"barrier", "ready"},
         IF goal = "ready" THEN FALSE \in told ELSE rec.ret = "initial"
  PROVE  Becomes(rec, Acquiring(rec, goal), told)
<1> DEFINE r == Acquiring(rec, goal)
<1>0. 1 \in Nat
  OBVIOUS
<1>1. /\ r \in WorkerRec /\ r.pc = "acquire" /\ r.goal = goal
      /\ r.ret = rec.ret /\ r.held = rec.held /\ r.fresh = rec.fresh /\ r.measured = rec.measured
      /\ r.unit = rec.unit /\ r.rot = rec.rot /\ r.entered = rec.entered /\ r.whole = rec.whole
      /\ r.left = rec.left
  BY <1>0 DEF Working, WorkerRec, Acquiring
<1> HIDE DEF r
<1>2. Fit(r, told)
  BY <1>1 DEF Working, Fit, Barrier, Warming, Measuring, Gone
<1>3. SameWork(rec, r)
  BY <1>1 DEF Working, SameWork, Gone
<1> QED
  BY <1>1, <1>2, <1>3 DEF Becomes, r

LEMMA GoesBack ==
  ASSUME NEW told, NEW rec, Working(rec, told), rec.fresh = {}, FALSE \in told
  PROVE  Becomes(rec, Returned(rec), told)
<1> DEFINE r == Returned(rec)
<1>1. rec \in WorkerRec /\ NoDials \in [Slots -> Nat]
  BY DEF Working, NoDials
<1>2. CASE rec.ret = "initial"
  <2>1. r = [rec EXCEPT !.pc = "arrive", !.warm = TRUE]
    BY <1>2 DEF Returned
  <2>2. /\ r \in WorkerRec /\ r.pc = "arrive"
        /\ r.ret = rec.ret /\ r.held = rec.held /\ r.fresh = rec.fresh /\ r.measured = rec.measured
        /\ r.unit = rec.unit /\ r.rot = rec.rot /\ r.entered = rec.entered /\ r.whole = rec.whole
        /\ r.left = rec.left
    <3>1. r \in WorkerRec
      BY <1>1, <2>1 DEF WorkerRec, Barrier
    <3>2. /\ r.pc = "arrive"
          /\ r.ret = rec.ret /\ r.held = rec.held /\ r.fresh = rec.fresh /\ r.measured = rec.measured
          /\ r.unit = rec.unit /\ r.rot = rec.rot /\ r.entered = rec.entered /\ r.whole = rec.whole
          /\ r.left = rec.left
      BY <1>1, <2>1 DEF WorkerRec, Barrier
    <3> QED
      BY <3>1, <3>2
  <2> HIDE DEF r
  <2>3. Fit(r, told)
    BY <1>2, <2>2 DEF Working, Fit, Barrier, Warming, Measuring, Gone
  <2>4. SameWork(rec, r)
    BY <1>2, <2>2 DEF Working, SameWork, Gone
  <2> QED
    BY <2>2, <2>3, <2>4 DEF Becomes, r
<1>3. CASE rec.ret = "unit"
  <2>1. r = [rec EXCEPT !.pc = "op", !.ret = "op", !.acq = NoDials,
                        !.entered = TRUE, !.released = {}, !.fault = FALSE]
    BY <1>3 DEF Returned
  <2>2. /\ r \in WorkerRec /\ r.pc = "op" /\ r.ret = "op" /\ r.entered
        /\ r.held = rec.held /\ r.fresh = rec.fresh /\ r.measured = rec.measured
        /\ r.unit = rec.unit /\ r.rot = rec.rot /\ r.whole = rec.whole
        /\ r.left = rec.left
    <3>1. r \in WorkerRec
      BY <1>1, <2>1, ZenonT(40) DEF WorkerRec, Measuring
    <3>2. /\ r.pc = "op" /\ r.ret = "op" /\ r.entered
          /\ r.held = rec.held /\ r.fresh = rec.fresh /\ r.measured = rec.measured
          /\ r.unit = rec.unit /\ r.rot = rec.rot /\ r.whole = rec.whole
          /\ r.left = rec.left
      BY <1>1, <2>1 DEF WorkerRec, Measuring
    <3> QED
      BY <3>1, <3>2
  <2> HIDE DEF r
  <2>3. Fit(r, told)
    BY <1>3, <2>2 DEF Working, Fit, Barrier, Warming, Measuring, Gone
  <2>4. SameWork(rec, r)
    <3>1. rec.entered \in BOOLEAN /\ (~rec.entered => rec.rot = 0) /\ rec.pc \notin Gone
      BY <1>1 DEF Working, Fit, Gone, WorkerRec
    <3> QED
      BY <2>2, <3>1 DEF SameWork, Gone
  <2> QED
    BY <2>2, <2>3, <2>4 DEF Becomes, r
<1>4. CASE rec.ret = "op"
  <2>1. r = [rec EXCEPT !.pc = "op"]
    BY <1>4 DEF Returned
  <2>2. /\ r \in WorkerRec /\ r.pc = "op" /\ r.ret = rec.ret
        /\ r.held = rec.held /\ r.fresh = rec.fresh /\ r.measured = rec.measured
        /\ r.unit = rec.unit /\ r.rot = rec.rot /\ r.entered = rec.entered /\ r.whole = rec.whole
        /\ r.left = rec.left
    BY <1>1, <2>1 DEF WorkerRec, Measuring
  <2> HIDE DEF r
  <2>3. Fit(r, told)
    BY <1>4, <2>2 DEF Working, Fit, Barrier, Warming, Measuring, Gone
  <2>4. SameWork(rec, r)
    BY <1>4, <2>2 DEF Working, SameWork, Gone
  <2> QED
    BY <2>2, <2>3, <2>4 DEF Becomes, r
<1> QED
  BY <1>1, <1>2, <1>3, <1>4 DEF WorkerRec

\* What Fails makes of a worker.
FailedRec(rec, c) ==
  IF rec.ret = "op" THEN [rec EXCEPT !.pc = "publish", !.fault = TRUE, !.err = c]
  ELSE [rec EXCEPT !.pc = "dispose", !.err = c]

LEMMA FailsWith ==
  ASSUME NEW told, NEW rec, Working(rec, told), NEW c \in Causes \ {"none"}
  PROVE  Becomes(rec, FailedRec(rec, c), told)
<1> DEFINE r == FailedRec(rec, c)
<1>1. rec \in WorkerRec
  BY DEF Working
<1>2. CASE rec.ret = "op"
  <2>1. r = [rec EXCEPT !.pc = "publish", !.fault = TRUE, !.err = c]
    BY <1>2 DEF FailedRec
  <2>2. /\ r \in WorkerRec /\ r.pc = "publish" /\ r.ret = rec.ret /\ r.err = c
        /\ r.held = rec.held /\ r.fresh = rec.fresh /\ r.measured = rec.measured
        /\ r.unit = rec.unit /\ r.rot = rec.rot /\ r.entered = rec.entered /\ r.whole = rec.whole
        /\ r.left = rec.left
    <3>1. r \in WorkerRec
      BY <1>1, <2>1, ZenonT(40) DEF WorkerRec, Measuring
    <3>2. /\ r.pc = "publish" /\ r.ret = rec.ret /\ r.err = c
          /\ r.held = rec.held /\ r.fresh = rec.fresh /\ r.measured = rec.measured
          /\ r.unit = rec.unit /\ r.rot = rec.rot /\ r.entered = rec.entered /\ r.whole = rec.whole
          /\ r.left = rec.left
      BY <1>1, <2>1 DEF WorkerRec, Measuring
    <3> QED
      BY <3>1, <3>2
  <2> HIDE DEF r
  <2>3. Fit(r, told)
    BY <1>2, <2>2 DEF Working, Fit, Barrier, Warming, Measuring, Gone
  <2>4. SameWork(rec, r)
    BY <1>2, <2>2 DEF Working, SameWork, Gone
  <2> QED
    BY <2>2, <2>3, <2>4 DEF Becomes, r
<1>3. CASE rec.ret # "op"
  <2>1. r = [rec EXCEPT !.pc = "dispose", !.err = c]
    BY <1>3 DEF FailedRec
  <2>2. /\ r \in WorkerRec /\ r.pc = "dispose" /\ r.ret = rec.ret
        /\ r.held = rec.held /\ r.fresh = rec.fresh /\ r.measured = rec.measured
        /\ r.unit = rec.unit /\ r.rot = rec.rot /\ r.entered = rec.entered /\ r.whole = rec.whole
        /\ r.left = rec.left
    <3>1. r \in WorkerRec
      BY <1>1, <2>1, ZenonT(40) DEF WorkerRec
    <3>2. /\ r.pc = "dispose" /\ r.ret = rec.ret
          /\ r.held = rec.held /\ r.fresh = rec.fresh /\ r.measured = rec.measured
          /\ r.unit = rec.unit /\ r.rot = rec.rot /\ r.entered = rec.entered /\ r.whole = rec.whole
          /\ r.left = rec.left
      BY <1>1, <2>1 DEF WorkerRec
    <3> QED
      BY <3>1, <3>2
  <2> HIDE DEF r
  <2>3. Fit(r, told)
    BY <1>3, <2>2 DEF Working, Fit, Barrier, Warming, Measuring, Gone
  <2>4. SameWork(rec, r)
    BY <1>3, <2>2 DEF Working, SameWork, Gone
  <2> QED
    BY <2>2, <2>3, <2>4 DEF Becomes, r
<1> QED
  BY <1>2, <1>3


\* The requests that may come next are requests of the plan, and so are those that
\* are released with one.
LEMMA NextAreRequests ==
  ASSUME NEW released \in SUBSET Requests, NEW rotation \in Nat,
         NEW q \in NextRequests(Cardinality(released), rotation, released)
  PROVE  q \in Requests /\ released \cup Members(q) \in SUBSET Requests
<1>1. R.width \in Nat \ {0} /\ Requests = 1..R.width
  BY PlanSizes DEF Requests
<1>2. IsFiniteSet(Requests)
  <2>1. \A n \in Nat : IsFiniteSet(1..n)
    BY FS_Interval
  <2> QED
    BY <1>1, <2>1
<1>3. Cardinality(released) \in Nat
  BY <1>2, FS_Subset, FS_CardinalityType
<1>4. q \in Requests
  <2> DEFINE k == IF Plan.arrangement = "rotate" THEN rotation ELSE 0
             p == Cardinality(released) + k
  <2>1. p \in Nat
    BY <1>3
  <2>2. p % R.width \in 0 .. R.width - 1
    BY <1>1, <2>1
  <2>3. Plan.arrangement = "random" => q \in Requests
    BY DEF NextRequests
  <2>4. Plan.arrangement # "random" => q = 1 + (p % R.width)
    BY DEF NextRequests
  <2> HIDE DEF p
  <2> QED
    BY <1>1, <2>2, <2>3, <2>4
<1> QED
  BY <1>4 DEF Members

\* A group leaves its slots occupied.
LEMMA HeldAfterGroup ==
  ASSUME NEW rec \in WorkerRec, NEW used, NEW after \in {"ok", "lost", "retired"}
  PROVE  LET h == HeldAfter(rec, used, after)
         IN  /\ h \in [Slots -> {"none", "ok", "lost", "retired"}]
             /\ \A s \in Slots : h[s] = "none" <=> rec.held[s] = "none"
BY DEF HeldAfter, WorkerRec

-----------------------------------------------------------------------------
(* The run *)

\* The phases that were announced: the flags of the barriers are ahead of the
\* consumer only while their opener stands between them and the channel.
Announced ==
  /\ phases.acquisitionOpen /\ ~phases.opening => FALSE \in published.phases
  /\ phases.warmupOpen /\ ~phases.opening => TRUE \in published.phases
  /\ \A w \in WorkerIds : wk[w].pc = "opening" =>
       /\ phases.opening /\ (wk[w].warm \/ ~phases.warmupOpen)
       /\ \A v \in WorkerIds : wk[v].pc = "opening" => v = w
  /\ counts.warmups > 0 => FALSE \in published.phases
  /\ counts.attempted > 0 => TRUE \in published.phases

PrimedInv ==
  /\ Typed
  /\ \A w \in WorkerIds : Fit(wk[w], published.phases)
  /\ Announced

\* What an account of the run is made of.
Books == <<counts.acquired, counts.closed, counts.attempted, counts.complete,
           counts.cycles, counts.cyclesComplete, published.indices, next, remaining,
           delivered, output, result>>

SameFlags ==
  /\ phases' \in PhasesRec /\ phases'.opening = phases.opening
  /\ phases'.acquisitionOpen = phases.acquisitionOpen
  /\ phases'.warmupOpen = phases.warmupOpen

\* Workers go on without a change to the books.
Walks ==
  /\ wk' \in [WorkerIds -> WorkerRec]
  /\ \A v \in WorkerIds : wk'[v] = wk[v] \/ Becomes(wk[v], wk'[v], published.phases)
  /\ SameFlags /\ UNCHANGED published
  /\ counts' \in CountsRec /\ (counts'.warmups > 0 => FALSE \in published.phases)
  /\ UNCHANGED Books /\ cause' \in Causes /\ late' \in BOOLEAN

LEMMA WalksPrimed ==
  ASSUME PrimedInv, Walks
  PROVE  PrimedInv'
<1>1. /\ published' = published /\ next' = next /\ output' = output
      /\ counts'.attempted = counts.attempted
  BY DEF Walks, Books
<1>2. Typed'
  BY <1>1 DEF Walks, PrimedInv, Typed, SameFlags
<1>3. \A v \in WorkerIds : Fit(wk'[v], published'.phases)
  BY <1>1 DEF PrimedInv, Becomes, Walks
<1>4. \A v \in WorkerIds : wk'[v].pc = "opening" => wk[v].pc = "opening" /\ wk'[v].warm = wk[v].warm
  BY DEF Becomes, Walks
<1>5. Announced'
  BY <1>1, <1>4 DEF Announced, Walks, SameFlags, PrimedInv
<1> QED
  BY <1>2, <1>3, <1>5 DEF PrimedInv

\* A step that sets worker w and leaves the rest alone, except what it disturbs.
Sets(w, r) == wk' = [wk EXCEPT ![w] = r]

Still ==
  /\ UNCHANGED <<phases, counts, published, next, remaining, delivered, output, result, late>>

LEMMA SilentWalk ==
  ASSUME PrimedInv, NEW w \in WorkerIds, NEW r, Becomes(wk[w], r, published.phases),
         Sets(w, r), Still, cause' \in Causes
  PROVE  Walks
<1>1. counts' \in CountsRec /\ (counts'.warmups > 0 => FALSE \in published.phases) /\ late' \in BOOLEAN
  BY DEF PrimedInv, Typed, Announced, Still
<1>2. SameFlags
  BY DEF PrimedInv, Typed, SameFlags, Still
<1>3. UNCHANGED Books
  BY DEF Still, Books
<1>4. /\ wk' \in [WorkerIds -> WorkerRec] /\ wk'[w] = r
      /\ \A v \in WorkerIds \ {w} : wk'[v] = wk[v]
  BY DEF PrimedInv, Typed, Sets, Becomes
<1> QED
  BY <1>1, <1>2, <1>3, <1>4 DEF Walks, Still

LEMMA StepsOfArrival ==
  ASSUME PrimedInv, NEW w \in WorkerIds,
         EnsureCancelled(w) \/ Acquired(w) \/ ArriveCancelled(w) \/ PassesBarrier(w)
  PROVE  Walks
<1> DEFINE rec == wk[w]
           told == published.phases
<1>1. rec \in WorkerRec /\ Fit(rec, told) /\ cause \in Causes
  BY DEF PrimedInv, Typed
<1>2. ASSUME rec.pc \in {"acquire", "arrive", "evaluate", "parked"}, cause # "none",
             Fails(w, rec, cause), Still, UNCHANGED cause
      PROVE  Walks
  <2>1. Working(rec, told)
    BY <1>1, <1>2 DEF Working, Gone
  <2>2. Becomes(rec, FailedRec(rec, cause), told)
    BY <1>1, <1>2, <2>1, FailsWith
  <2>3. Sets(w, FailedRec(rec, cause))
    BY <1>2 DEF Fails, FailedRec, Sets
  <2> QED
    BY <1>1, <1>2, <2>2, <2>3, SilentWalk
<1>3. CASE EnsureCancelled(w)
  BY <1>2, <1>3 DEF EnsureCancelled, Silent, UnchangedRun, Still
<1>4. CASE ArriveCancelled(w)
  BY <1>2, <1>4 DEF ArriveCancelled, Silent, UnchangedRun, Still
<1>5. CASE Acquired(w)
  <2>1. rec.pc = "acquire" /\ UNCHANGED cause /\ Still
    BY <1>5 DEF Acquired, Silent, UnchangedRun, Still
  <2>2. CASE rec.goal = "barrier"
    <3> DEFINE r == [rec EXCEPT !.pc = "arrive", !.warm = FALSE]
    <3>1. Sets(w, r)
      BY <1>5, <2>2 DEF Acquired, Set, Sets
    <3>2. /\ r \in WorkerRec /\ r.pc = "arrive" /\ ~r.warm
          /\ r.ret = rec.ret /\ r.held = rec.held /\ r.fresh = rec.fresh /\ r.measured = rec.measured
          /\ r.unit = rec.unit /\ r.rot = rec.rot /\ r.entered = rec.entered /\ r.whole = rec.whole
          /\ r.left = rec.left
      BY <1>1 DEF WorkerRec, Barrier
    <3> HIDE DEF r
    <3>3. Becomes(rec, r, told)
      BY <1>1, <2>1, <2>2, <3>2 DEF Becomes, Fit, SameWork, Barrier, Warming, Measuring, Gone
    <3> QED
      BY <1>1, <2>1, <3>1, <3>3, SilentWalk
  <2>3. CASE rec.goal = "ready"
    <3> DEFINE r == [rec EXCEPT !.pc = "prime", !.wi = 0]
    <3>1. Sets(w, r)
      BY <1>5, <2>3 DEF Acquired, Set, Sets
    <3>2. /\ r \in WorkerRec /\ r.pc = "prime"
          /\ r.ret = rec.ret /\ r.held = rec.held /\ r.fresh = rec.fresh /\ r.measured = rec.measured
          /\ r.unit = rec.unit /\ r.rot = rec.rot /\ r.entered = rec.entered /\ r.whole = rec.whole
          /\ r.left = rec.left
      BY <1>1 DEF WorkerRec, Warming
    <3> HIDE DEF r
    <3>3. Becomes(rec, r, told)
      BY <1>1, <2>1, <2>3, <3>2 DEF Becomes, Fit, SameWork, Barrier, Warming, Measuring, Gone
    <3> QED
      BY <1>1, <2>1, <3>1, <3>3, SilentWalk
  <2> QED
    BY <1>1, <2>2, <2>3 DEF WorkerRec
<1>6. CASE PassesBarrier(w)
  <2>1. /\ rec.pc \in {"arrive", "evaluate"} /\ UNCHANGED cause /\ Still
        /\ Open(rec.warm) /\ ~phases.opening
    BY <1>6 DEF PassesBarrier, Silent, UnchangedRun, Still
  <2>2. CASE rec.warm
    <3> DEFINE r == [rec EXCEPT !.pc = "unit", !.measured = TRUE, !.ret = "unit", !.acq = NoDials]
    <3>1. Sets(w, r)
      BY <1>6, <2>2 DEF PassesBarrier, Set, Sets
    <3>2. TRUE \in told
      BY <2>1, <2>2 DEF PrimedInv, Announced, Open
    <3>3. NoDials \in [Slots -> Nat]
      BY DEF NoDials
    <3>4. /\ r \in WorkerRec /\ r.pc = "unit"
          /\ r.ret = "unit" /\ r.held = rec.held /\ r.fresh = rec.fresh /\ r.measured
          /\ r.unit = rec.unit /\ r.rot = rec.rot /\ r.entered = rec.entered /\ r.whole = rec.whole
          /\ r.left = rec.left
      BY <1>1, <3>3 DEF WorkerRec, Measuring
    <3> HIDE DEF r
    <3>5. Becomes(rec, r, told)
      BY <1>1, <2>1, <2>2, <3>2, <3>4 DEF Becomes, Fit, SameWork, Barrier, Warming, Measuring, Gone
    <3> QED
      BY <1>1, <2>1, <3>1, <3>5, SilentWalk
  <2>3. CASE ~rec.warm
    <3> DEFINE m == [rec EXCEPT !.ret = "initial"]
               r == Acquiring(m, "ready")
    <3>1. Sets(w, r)
      BY <1>6, <2>3 DEF PassesBarrier, Set, Sets
    <3>2. FALSE \in told
      BY <2>1, <2>3 DEF PrimedInv, Announced, Open
    <3>3. m = rec
      BY <1>1, <2>1 DEF Fit, Barrier, WorkerRec
    <3>4. Working(rec, told)
      BY <1>1, <2>1 DEF Working, Gone
    <3>5. Becomes(rec, r, told)
      BY <3>2, <3>3, <3>4, StartsAcquiring
    <3> QED
      BY <1>1, <2>1, <3>1, <3>5, SilentWalk
  <2> QED
    BY <1>1, <2>2, <2>3 DEF WorkerRec
<1> QED
  BY <1>3, <1>4, <1>5, <1>6


LEMMA StepsOfPriming ==
  ASSUME PrimedInv, NEW w \in WorkerIds, Prime(w) \/ WarmGroup(w) \/ Check(w)
  PROVE  Walks
<1> DEFINE rec == wk[w]
           told == published.phases
           Same(r) == /\ r \in WorkerRec /\ r.pc \in Warming
                      /\ r.ret = rec.ret /\ r.fresh = rec.fresh /\ r.measured = rec.measured
                      /\ r.unit = rec.unit /\ r.rot = rec.rot /\ r.entered = rec.entered
                      /\ r.whole = rec.whole /\ r.left = rec.left
                      /\ \A s \in Slots : r.held[s] = "none" <=> rec.held[s] = "none"
<1>1. rec \in WorkerRec /\ Fit(rec, told) /\ cause \in Causes
  BY DEF PrimedInv, Typed
<1>2. rec.pc \in Warming /\ Working(rec, told) /\ FALSE \in told
  BY <1>1 DEF Prime, WarmGroup, Check, Working, Gone, Warming, Fit
<1>3. ASSUME NEW r, Same(r) PROVE Becomes(rec, r, told)
  BY <1>1, <1>2, <1>3 DEF Becomes, Fit, SameWork, Barrier, Warming, Measuring, Gone
<1>4. CASE Prime(w)
  <2>1. UNCHANGED cause /\ Still
    BY <1>4 DEF Prime, Silent, UnchangedRun, Still
  <2>2. CASE rec.wi = Plan.warmup
    <3> DEFINE r == [rec EXCEPT !.pc = "check"]
    <3>1. Sets(w, r)
      BY <1>4, <2>2 DEF Prime, Set, Sets
    <3>2. Same(r)
      BY <1>1 DEF WorkerRec, Warming
    <3> HIDE DEF r, Same
    <3> QED
      BY <1>1, <1>2, <1>3, <2>1, <3>1, <3>2, SilentWalk DEF Warming
  <2>3. CASE rec.wi # Plan.warmup /\ cause # "none"
    <3>1. Sets(w, FailedRec(rec, cause))
      BY <1>4, <2>3 DEF Prime, Fails, FailedRec, Sets
    <3>2. Becomes(rec, FailedRec(rec, cause), told)
      BY <1>1, <1>2, <2>3, FailsWith
    <3> QED
      BY <1>1, <1>2, <2>1, <3>1, <3>2, SilentWalk DEF Warming
  <2>4. CASE rec.wi # Plan.warmup /\ cause = "none"
    <3> DEFINE r == [rec EXCEPT !.pc = "wop", !.wreleased = {}, !.wfault = FALSE]
    <3>1. Sets(w, r)
      BY <1>4, <2>4 DEF Prime, Set, Sets
    <3>2. Same(r)
      BY <1>1 DEF WorkerRec, Warming
    <3> HIDE DEF r, Same
    <3> QED
      BY <1>1, <1>2, <1>3, <2>1, <3>1, <3>2, SilentWalk DEF Warming
  <2> QED
    BY <2>2, <2>3, <2>4
<1>5. CASE WarmGroup(w)
  <2>1. UNCHANGED cause /\ Still
    BY <1>5 DEF WarmGroup, Silent, UnchangedRun, Still
  <2>2. PICK q \in NextRequests(Cardinality(rec.wreleased), rec.wi, rec.wreleased) :
          LET used == GroupSlots(q)
              through == rec.wreleased \cup Members(q) IN
          IF rec.wreleased # {} /\ \E s \in used : rec.held[s] # "ok"
          THEN Set(w, [rec EXCEPT !.pc = "wpublish"]) /\ UNCHANGED faults
          ELSE \E completes \in BOOLEAN, after \in {"ok", "lost", "retired"} :
                 /\ GroupEnds(w, used, completes, after)
                 /\ Set(w, [rec EXCEPT !.wreleased = through, !.wfault = ~completes,
                      !.pc = IF completes /\ through # Requests THEN "wop" ELSE "wpublish",
                      !.held = HeldAfter(rec, used, after)])
    BY <1>5, Zenon DEF WarmGroup
  <2> DEFINE used == GroupSlots(q)
             through == rec.wreleased \cup Members(q)
  <2>3. CASE Set(w, [rec EXCEPT !.pc = "wpublish"])
    <3> DEFINE r == [rec EXCEPT !.pc = "wpublish"]
    <3>1. Sets(w, r)
      BY <2>3 DEF Set, Sets
    <3>2. Same(r)
      BY <1>1 DEF WorkerRec, Warming
    <3> HIDE DEF r, Same
    <3> QED
      BY <1>1, <1>2, <1>3, <2>1, <3>1, <3>2, SilentWalk DEF Warming
  <2>4. ASSUME NEW completes \in BOOLEAN, NEW after \in {"ok", "lost", "retired"},
               Set(w, [rec EXCEPT !.wreleased = through, !.wfault = ~completes,
                      !.pc = IF completes /\ through # Requests THEN "wop" ELSE "wpublish",
                      !.held = HeldAfter(rec, used, after)])
        PROVE  Walks
    <3> DEFINE h == HeldAfter(rec, used, after)
               p == IF completes /\ through # Requests THEN "wop" ELSE "wpublish"
               b == ~completes
               r == [rec EXCEPT !.wreleased = through, !.wfault = b, !.pc = p, !.held = h]
    <3>1. Sets(w, r)
      BY <2>4 DEF Set, Sets
    <3>2. h \in [Slots -> {"none", "ok", "lost", "retired"}]
          /\ \A s \in Slots : h[s] = "none" <=> rec.held[s] = "none"
      BY <1>1, HeldAfterGroup
    <3>3. rec.wreleased \in SUBSET Requests /\ rec.wi \in Nat
      BY <1>1 DEF WorkerRec
    <3>4. through \in SUBSET Requests
      BY <3>3, NextAreRequests
    <3>5. p \in Warming /\ b \in BOOLEAN
      BY DEF Warming
    <3> HIDE DEF h, p, b, through, used
    <3>6. Same(r)
      <4>1. r \in WorkerRec
        BY <1>1, <3>2, <3>4, <3>5 DEF WorkerRec
      <4>2. /\ r.pc = p /\ r.held = h
            /\ r.ret = rec.ret /\ r.fresh = rec.fresh /\ r.measured = rec.measured
            /\ r.unit = rec.unit /\ r.rot = rec.rot /\ r.entered = rec.entered
            /\ r.whole = rec.whole /\ r.left = rec.left
        BY <1>1 DEF WorkerRec
      <4> HIDE DEF r
      <4> QED
        BY <3>2, <3>5, <4>1, <4>2
    <3> HIDE DEF r, Same
    <3> QED
      BY <1>1, <1>2, <1>3, <2>1, <3>1, <3>6, SilentWalk DEF Warming
  <2> QED
    BY <2>2, <2>3, <2>4
<1>6. CASE Check(w)
  <2>1. UNCHANGED <<cause, phases>> /\ UnchangedRun /\ rec.pc = "check"
    BY <1>6 DEF Check
  <2>2. CASE Usable(w)
    <3> DEFINE m == [rec EXCEPT !.fresh = {}]
    <3>1. Sets(w, Returned(m)) /\ Publish([kind |-> "worker"], counts)
      BY <1>6, <2>2 DEF Check, Set, Sets
    <3>2. UNCHANGED <<counts, published>>
      BY <3>1 DEF Publish
    <3>3. Still
      BY <2>1, <3>2 DEF Still, UnchangedRun
    <3>4. /\ m \in WorkerRec /\ m.fresh = {} /\ m.pc = rec.pc /\ m.goal = rec.goal /\ m.warm = rec.warm
          /\ m.ret = rec.ret /\ m.held = rec.held /\ m.measured = rec.measured
          /\ m.unit = rec.unit /\ m.rot = rec.rot /\ m.entered = rec.entered /\ m.whole = rec.whole
          /\ m.left = rec.left
      BY <1>1 DEF WorkerRec
    <3> HIDE DEF m
    <3>5. Working(m, told)
      BY <1>1, <1>2, <2>1, <3>4 DEF Working, Fit, Gone, Barrier, Warming, Measuring
    <3>6. Becomes(m, Returned(m), told)
      BY <1>2, <3>4, <3>5, GoesBack
    <3>7. Becomes(rec, Returned(m), told)
      BY <3>4, <3>6 DEF Becomes, SameWork
    <3> QED
      BY <1>1, <2>1, <3>1, <3>3, <3>7, SilentWalk
  <2>3. CASE ~Usable(w)
    <3> DEFINE m == [rec EXCEPT !.replacing = TRUE]
    <3>1. Sets(w, Acquiring(m, "ready")) /\ Still
      BY <1>6, <2>1, <2>3 DEF Check, Set, Sets, Silent, Still, UnchangedRun
    <3>4. /\ m \in WorkerRec /\ m.fresh = rec.fresh /\ m.pc = rec.pc /\ m.goal = rec.goal /\ m.warm = rec.warm
          /\ m.ret = rec.ret /\ m.held = rec.held /\ m.measured = rec.measured
          /\ m.unit = rec.unit /\ m.rot = rec.rot /\ m.entered = rec.entered /\ m.whole = rec.whole
          /\ m.left = rec.left
      BY <1>1 DEF WorkerRec
    <3> HIDE DEF m
    <3>5. Working(m, told)
      BY <1>1, <1>2, <2>1, <3>4 DEF Working, Fit, Gone, Barrier, Warming, Measuring
    <3>6. Becomes(m, Acquiring(m, "ready"), told)
      BY <1>2, <3>5, StartsAcquiring
    <3>7. Becomes(rec, Acquiring(m, "ready"), told)
      BY <3>4, <3>6 DEF Becomes, SameWork
    <3> QED
      BY <1>1, <2>1, <3>1, <3>7, SilentWalk
  <2> QED
    BY <2>2, <2>3
<1> QED
  BY <1>4, <1>5, <1>6


\* A published event that is neither a phase nor a trial counts and tells nothing more.
LEMMA PublishesPlain ==
  ASSUME PrimedInv, NEW k \in {"connection", "warmup", "worker"}, NEW c,
         Publish([kind |-> k], c)
  PROVE  counts' = c /\ UNCHANGED published
BY DEF Publish

LEMMA StepsOfFailure ==
  ASSUME PrimedInv, NEW w \in WorkerIds, WarmPublish(w) \/ DialFail(w)
  PROVE  Walks
<1> DEFINE rec == wk[w]
           told == published.phases
           warmed == [counts EXCEPT !.warmups = @ + 1]
           lost == [counts EXCEPT !.failed = @ + 1]
           SameBooks == /\ counts' \in CountsRec /\ counts'.acquired = counts.acquired
                        /\ counts'.closed = counts.closed /\ counts'.attempted = counts.attempted
                        /\ counts'.complete = counts.complete /\ counts'.cycles = counts.cycles
                        /\ counts'.cyclesComplete = counts.cyclesComplete
<1>1. rec \in WorkerRec /\ Fit(rec, told) /\ cause \in Causes /\ counts \in CountsRec
  BY DEF PrimedInv, Typed
<1>2. ASSUME NEW r, Becomes(rec, r, told), Sets(w, r), SameBooks,
             counts'.warmups > 0 => FALSE \in told,
             UNCHANGED <<phases, published, next, remaining, delivered, output, result, late>>,
             cause' \in Causes
      PROVE  Walks
  <2>1. SameFlags /\ late' \in BOOLEAN
    BY <1>2 DEF PrimedInv, Typed, SameFlags
  <2>2. UNCHANGED Books
    BY <1>2 DEF Books
  <2>3. /\ wk' \in [WorkerIds -> WorkerRec] /\ wk'[w] = r
        /\ \A v \in WorkerIds \ {w} : wk'[v] = wk[v]
    BY <1>2 DEF PrimedInv, Typed, Sets, Becomes
  <2> QED
    BY <1>2, <2>1, <2>2, <2>3 DEF Walks
<1>3. \A c \in Causes : Cancel(c) => cause' \in Causes
  BY <1>1 DEF Cancel
<1>4. CASE WarmPublish(w)
  <2> DEFINE complete == rec.wreleased = Requests /\ ~rec.wfault
             retirement == ~complete /\ ~rec.wfault /\ ~Usable(w)
             p == IF Usable(w) THEN "prime" ELSE "check"
             k == rec.wi + 1
             r == [rec EXCEPT !.pc = p, !.wi = k, !.wreleased = {}]
  <2>1. rec.pc = "wpublish" /\ FALSE \in told /\ Working(rec, told)
    BY <1>1, <1>4 DEF WarmPublish, Fit, Working, Warming, Gone
  <2>2. counts' = warmed /\ UNCHANGED published
    BY <1>4, PublishesPlain DEF WarmPublish
  <2>3. SameBooks
    BY <1>1, <2>2 DEF CountsRec
  <2>4. UNCHANGED <<phases, published, next, remaining, delivered, output, result, late>>
    BY <1>4, <2>2 DEF WarmPublish, UnchangedRun
  <2> HIDE DEF SameBooks
  <2>5. CASE ~complete /\ ~retirement
    <3>1. Cancel("warmup") /\ Sets(w, FailedRec(rec, "warmup"))
      BY <1>4, <2>5 DEF WarmPublish, Fails, FailedRec, Sets
    <3>2. "warmup" \in Causes \ {"none"}
      BY DEF Causes
    <3>3. Becomes(rec, FailedRec(rec, "warmup"), told)
      BY <2>1, <3>2, FailsWith
    <3> QED
      BY <1>2, <1>3, <2>1, <2>3, <2>4, <3>1, <3>2, <3>3
  <2>6. CASE ~(~complete /\ ~retirement)
    <3>1. Sets(w, r) /\ UNCHANGED cause
      BY <1>4, <2>6 DEF WarmPublish, Set, Sets
    <3>2. p \in Warming /\ k \in Nat
      BY <1>1 DEF Warming, WorkerRec
    <3> HIDE DEF p, k
    <3>3. /\ r \in WorkerRec /\ r.pc = p
          /\ r.ret = rec.ret /\ r.held = rec.held /\ r.fresh = rec.fresh /\ r.measured = rec.measured
          /\ r.unit = rec.unit /\ r.rot = rec.rot /\ r.entered = rec.entered /\ r.whole = rec.whole
          /\ r.left = rec.left
      BY <1>1, <3>2 DEF WorkerRec
    <3> HIDE DEF r
    <3>4. Becomes(rec, r, told)
      BY <1>1, <2>1, <3>2, <3>3 DEF Becomes, Fit, SameWork, Barrier, Warming, Measuring, Gone
    <3> QED
      BY <1>1, <1>2, <2>1, <2>3, <2>4, <3>1, <3>4
  <2> QED
    BY <2>5, <2>6
<1>5. CASE DialFail(w)
  <2>1. rec.pc = "dial" /\ Working(rec, told) /\ Cancel("acquisition")
    BY <1>1, <1>5 DEF DialFail, Working, Gone
  <2>2. counts' = lost /\ UNCHANGED published
    BY <1>5, PublishesPlain DEF DialFail
  <2>3. SameBooks /\ counts'.warmups = counts.warmups
    BY <1>1, <2>2 DEF CountsRec
  <2>4. UNCHANGED <<phases, published, next, remaining, delivered, output, result, late>>
    BY <1>5, <2>2 DEF DialFail, UnchangedRun
  <2> HIDE DEF SameBooks
  <2>5. Sets(w, FailedRec(rec, "acquisition"))
    BY <1>5 DEF DialFail, Fails, FailedRec, Sets
  <2>6. "acquisition" \in Causes \ {"none"}
    BY DEF Causes
  <2>7. Becomes(rec, FailedRec(rec, "acquisition"), told)
    BY <2>1, <2>6, FailsWith
  <2>8. counts'.warmups > 0 => FALSE \in told
    BY <2>3 DEF PrimedInv, Announced
  <2> QED
    BY <1>2, <1>3, <2>1, <2>3, <2>4, <2>5, <2>6, <2>7, <2>8
<1> QED
  BY <1>4, <1>5

\* readySet(false) goes on with a usable set and acquires one otherwise.
LEMMA MadeReady ==
  ASSUME NEW told, NEW rec, Working(rec, told), NEW ret \in {"unit", "op"},
         FALSE \in told, rec.fresh = {},
         rec.pc = IF ret = "op" THEN "publish" ELSE "unit"
  PROVE  Becomes(rec, ReadySet(rec, ret), told)
<1> DEFINE m == [rec EXCEPT !.ret = ret]
           n == [rec EXCEPT !.ret = ret, !.replacing = TRUE]
           Copies(r) == /\ r \in WorkerRec /\ r.ret = ret /\ r.pc = rec.pc /\ r.goal = rec.goal
                        /\ r.held = rec.held /\ r.fresh = rec.fresh /\ r.measured = rec.measured
                        /\ r.unit = rec.unit /\ r.rot = rec.rot /\ r.entered = rec.entered
                        /\ r.whole = rec.whole /\ r.left = rec.left /\ r.err = rec.err
                        /\ r.warm = rec.warm /\ r.slot = rec.slot
<1>1. rec \in WorkerRec /\ Fit(rec, told)
  BY DEF Working
<1>2. Copies(m)
  BY <1>1 DEF WorkerRec
<1>3. Copies(n)
  BY <1>1 DEF WorkerRec
<1> HIDE DEF m, n

<1>4. rec.measured /\ (ret = "op" => rec.ret = "op") /\ (ret = "unit" => rec.ret # "op")
  BY <1>1 DEF Fit, Measuring
<1>5. ASSUME NEW r, Copies(r) PROVE Working(r, told) /\ SameWork(rec, r)
  <2>1. Fit(r, told)
    BY <1>1, <1>4, <1>5 DEF Fit, Barrier, Warming, Measuring, Gone
  <2>2. r.pc \notin {"take", "dispose"} \cup Gone
    BY <1>5 DEF Gone
  <2>3. SameWork(rec, r)
    BY <1>5, <2>2 DEF SameWork
  <2> QED
    BY <1>5, <2>1, <2>2, <2>3 DEF Working
<1>6. CASE \A s \in Slots : rec.held[s] = "ok"
  <2>1. ReadySet(rec, ret) = Returned(m)
    BY <1>6 DEF ReadySet, m
  <2>2. Becomes(m, Returned(m), told)
    BY <1>2, <1>5, GoesBack
  <2> QED
    BY <1>2, <2>1, <2>2 DEF Becomes, SameWork
<1>7. CASE ~\A s \in Slots : rec.held[s] = "ok"
  <2>1. ReadySet(rec, ret) = Acquiring(n, "ready")
    BY <1>7 DEF ReadySet, n
  <2>2. Becomes(n, Acquiring(n, "ready"), told)
    BY <1>3, <1>5, StartsAcquiring
  <2> QED
    BY <1>3, <2>1, <2>2 DEF Becomes, SameWork
<1> QED
  BY <1>6, <1>7

LEMMA StepsOfUnit ==
  ASSUME PrimedInv, NEW w \in WorkerIds, UnitStart(w) \/ Group(w)
  PROVE  Walks
<1> DEFINE rec == wk[w]
           told == published.phases
<1>1. rec \in WorkerRec /\ Fit(rec, told) /\ cause \in Causes
  BY DEF PrimedInv, Typed
<1>2. rec.pc \in {"unit", "op"} /\ Working(rec, told) /\ FALSE \in told /\ rec.fresh = {}
  BY <1>1 DEF UnitStart, Group, Working, Gone, Measuring, Fit
<1>3. CASE UnitStart(w)
  <2>1. UNCHANGED cause /\ Still
    BY <1>3 DEF UnitStart, Silent, UnchangedRun, Still
  <2>2. CASE cause # "none"
    <3>1. Sets(w, FailedRec(rec, cause))
      BY <1>3, <2>2 DEF UnitStart, Fails, FailedRec, Sets
    <3>2. Becomes(rec, FailedRec(rec, cause), told)
      BY <1>1, <1>2, <2>2, FailsWith
    <3> QED
      BY <1>1, <1>2, <2>1, <3>1, <3>2, SilentWalk
  <2>3. CASE cause = "none"
    <3>1. Sets(w, ReadySet(rec, "unit")) /\ rec.pc = "unit"
      BY <1>3, <2>3 DEF UnitStart, Set, Sets
    <3>2. Becomes(rec, ReadySet(rec, "unit"), told)
      BY <1>2, <3>1, MadeReady
    <3> QED
      BY <1>1, <1>2, <2>1, <3>1, <3>2, SilentWalk
  <2> QED
    BY <2>2, <2>3
<1>4. CASE Group(w)
  <2>1. UNCHANGED cause /\ Still /\ rec.pc = "op"
    BY <1>4 DEF Group, Silent, UnchangedRun, Still
  <2>2. PICK completes \in BOOLEAN, attempted \in BOOLEAN, after \in {"ok", "lost", "retired"},
             q \in NextRequests(Cardinality(rec.released), rec.rot, rec.released) :
          LET used == GroupSlots(q)
              through == rec.released \cup Members(q)
              ended == [rec EXCEPT !.released = through, !.fault = ~completes, !.pc = "publish",
                          !.acq = IF attempted THEN NoDials ELSE @,
                          !.held = HeldAfter(rec, used, after)] IN
          /\ GroupEnds(w, used, completes, after)
          /\ completes => attempted
          /\ Set(w, IF completes /\ through # Requests THEN ReadySet(ended, "op") ELSE ended)
    BY <1>4, Zenon DEF Group
  <2> DEFINE used == GroupSlots(q)
             through == rec.released \cup Members(q)
             h == HeldAfter(rec, used, after)
             a == IF attempted THEN NoDials ELSE rec.acq
             ended == [rec EXCEPT !.released = through, !.fault = ~completes, !.pc = "publish",
                         !.acq = a, !.held = h]
  <2>3. Sets(w, IF completes /\ through # Requests THEN ReadySet(ended, "op") ELSE ended)
    BY <2>2 DEF Set, Sets
  <2>4. h \in [Slots -> {"none", "ok", "lost", "retired"}]
        /\ \A s \in Slots : h[s] = "none" <=> rec.held[s] = "none"
    BY <1>1, HeldAfterGroup
  <2>5. rec.released \in SUBSET Requests /\ rec.rot \in Nat
    BY <1>1 DEF WorkerRec
  <2>6. through \in SUBSET Requests
    BY <2>5, NextAreRequests
  <2>7. a \in [Slots -> Nat]
    BY <1>1 DEF WorkerRec, NoDials
  <2> HIDE DEF h, a, through, used
  <2>8. /\ ended \in WorkerRec /\ ended.pc = "publish" /\ ended.held = h
        /\ ended.ret = rec.ret /\ ended.fresh = rec.fresh /\ ended.measured = rec.measured
        /\ ended.unit = rec.unit /\ ended.rot = rec.rot /\ ended.entered = rec.entered
        /\ ended.whole = rec.whole /\ ended.left = rec.left
    <3>1. ended \in WorkerRec
      BY <1>1, <2>4, <2>6, <2>7, ZenonT(40) DEF WorkerRec, Measuring
    <3>2. /\ ended.pc = "publish" /\ ended.held = h
          /\ ended.ret = rec.ret /\ ended.fresh = rec.fresh /\ ended.measured = rec.measured
          /\ ended.unit = rec.unit /\ ended.rot = rec.rot /\ ended.entered = rec.entered
          /\ ended.whole = rec.whole /\ ended.left = rec.left
      BY <1>1, <2>4, <2>6, <2>7 DEF WorkerRec, Measuring
    <3> QED
      BY <3>1, <3>2
  <2> HIDE DEF ended
  <2>9. Becomes(rec, ended, told)
    <3>1. SameWork(rec, ended)
      BY <2>1, <2>4, <2>8 DEF SameWork, Gone
    <3>2. ended.fresh = {} /\ ended.ret = "op" /\ ended.measured /\ ended.entered
      BY <1>1, <1>2, <2>1, <2>8 DEF Fit
    <3> HIDE DEF rec
    <3>3. Fit(ended, told)
      BY <1>1, <2>1, <2>8, <3>2 DEF Fit, Barrier, Warming, Measuring, Gone
    <3> QED
      BY <2>8, <3>1, <3>3 DEF Becomes
  <2>10. Becomes(ended, ReadySet(ended, "op"), told)
    <3>1. Working(ended, told)
      BY <2>8, <2>9 DEF Becomes, Working, Gone
    <3> QED
      BY <1>2, <2>8, <3>1, MadeReady
  <2>11. Becomes(rec, ReadySet(ended, "op"), told)
    BY <2>8, <2>9, <2>10 DEF Becomes, SameWork
  <2>12. \E r : Becomes(rec, r, told) /\ Sets(w, r)
    BY <2>3, <2>9, <2>11
  <2> QED
    BY <1>1, <1>2, <2>1, <2>12, SilentWalk
<1> QED
  BY <1>3, <1>4


\* A worker that lost a connection before the phase opened starts over.
LEMMA LeavesBarrier ==
  ASSUME NEW told, NEW rec, Working(rec, told), rec.pc \in Barrier
  PROVE  Becomes(rec, StartsOver(rec), told)
<1> DEFINE m == [rec EXCEPT !.replacing = TRUE, !.ret = "initial"]
<1>1. rec \in WorkerRec /\ Fit(rec, told) /\ rec.ret = "initial"
  BY DEF Working, Fit
<1>2. CASE rec.warm
  <2>1. /\ m \in WorkerRec /\ m.pc = rec.pc /\ m.goal = rec.goal /\ m.warm = rec.warm
        /\ m.ret = rec.ret /\ m.held = rec.held /\ m.fresh = rec.fresh /\ m.measured = rec.measured
        /\ m.unit = rec.unit /\ m.rot = rec.rot /\ m.entered = rec.entered /\ m.whole = rec.whole
        /\ m.left = rec.left
    BY <1>1 DEF WorkerRec
  <2>2. StartsOver(rec) = Acquiring(m, "ready")
    BY <1>2 DEF StartsOver
  <2> HIDE DEF m
  <2>3. Working(m, told) /\ FALSE \in told
    BY <1>1, <1>2, <2>1 DEF Working, Fit, Gone, Barrier, Warming, Measuring
  <2>4. Becomes(m, Acquiring(m, "ready"), told)
    BY <2>3, StartsAcquiring
  <2> QED
    BY <2>1, <2>2, <2>4 DEF Becomes, SameWork
<1>3. CASE ~rec.warm
  <2>1. StartsOver(rec) = Acquiring(rec, "barrier")
    BY <1>3 DEF StartsOver
  <2> QED
    BY <1>1, <2>1, StartsAcquiring
<1> QED
  BY <1>2, <1>3

\* A worker moves within the barrier.
LEMMA StaysAtBarrier ==
  ASSUME NEW told, NEW rec \in WorkerRec, Fit(rec, told), rec.pc \in Barrier,
         NEW p \in Barrier
  PROVE  LET r == [rec EXCEPT !.pc = p]
         IN  /\ r \in WorkerRec /\ Fit(r, told) /\ SameWork(rec, r)
             /\ r.pc = p /\ r.warm = rec.warm
<1> DEFINE r == [rec EXCEPT !.pc = p]
<1>1. /\ r \in WorkerRec /\ r.pc = p /\ r.goal = rec.goal /\ r.warm = rec.warm
      /\ r.ret = rec.ret /\ r.held = rec.held /\ r.fresh = rec.fresh /\ r.measured = rec.measured
      /\ r.unit = rec.unit /\ r.rot = rec.rot /\ r.entered = rec.entered /\ r.whole = rec.whole
      /\ r.left = rec.left
  BY DEF WorkerRec
<1> HIDE DEF r
<1>2. Fit(r, told) /\ SameWork(rec, r)
  BY <1>1 DEF Fit, SameWork, Barrier, Warming, Measuring, Gone
<1> QED
  BY <1>1, <1>2 DEF r

\* Waking the parked workers moves them within the barrier.
LEMMA WakesParked ==
  ASSUME PrimedInv
  PROVE  /\ Woken \in [WorkerIds -> WorkerRec]
         /\ \A v \in WorkerIds :
              /\ Woken[v] = wk[v] \/ Becomes(wk[v], Woken[v], published.phases)
              /\ wk[v].pc # "parked" => Woken[v] = wk[v]
<1>1. ASSUME NEW v \in WorkerIds
      PROVE  /\ Woken[v] \in WorkerRec
             /\ Woken[v] = wk[v] \/ Becomes(wk[v], Woken[v], published.phases)
             /\ wk[v].pc # "parked" => Woken[v] = wk[v]
  <2>1. wk[v] \in WorkerRec /\ Fit(wk[v], published.phases)
    BY DEF PrimedInv, Typed
  <2>2. CASE wk[v].pc = "parked"
    <3>1. Woken[v] = [wk[v] EXCEPT !.pc = "evaluate"]
      BY <2>2 DEF Woken
    <3>2. "parked" \in Barrier /\ "evaluate" \in Barrier
      BY DEF Barrier
    <3> QED
      BY <2>1, <2>2, <3>1, <3>2, StaysAtBarrier DEF Becomes
  <2>3. CASE wk[v].pc # "parked"
    BY <2>1, <2>3 DEF Woken
  <2> QED
    BY <2>2, <2>3
<1>2. Woken = [v \in WorkerIds |-> Woken[v]]
  BY DEF Woken
<1> QED
  BY <1>1, <1>2


\* Workers move without a change to the books.
Calm ==
  /\ \A v \in WorkerIds : wk'[v] = wk[v] \/ SameWork(wk[v], wk'[v])
  /\ UNCHANGED Books

\* Worker w opens a phase for a set of workers that all hold their connections.
BeginsOpening(w) ==
  /\ wk[w].pc \in Barrier /\ ~phases.opening /\ ~Open(wk[w].warm)
  /\ Sets(w, [wk[w] EXCEPT !.pc = "opening"])
  /\ phases' \in PhasesRec /\ phases'.opening
  /\ phases'.acquisitionOpen /\ phases'.warmupOpen = wk[w].warm
  /\ UNCHANGED <<cause, counts, published, next, remaining, delivered, output, result, late>>

LEMMA StepsOfEvaluation ==
  ASSUME PrimedInv, NEW w \in WorkerIds, Evaluate(w)
  PROVE  Walks \/ BeginsOpening(w)
<1> DEFINE rec == wk[w]
           told == published.phases
           warm == rec.warm
           arrived == Arrivals(w)
           unhealthy == {v \in WorkerIds : ~Usable(v)}
           parked == [rec EXCEPT !.pc = "parked"]
<1>1. rec \in WorkerRec /\ Fit(rec, told) /\ cause \in Causes /\ phases \in PhasesRec
  BY DEF PrimedInv, Typed
<1>2. /\ rec.pc \in Barrier /\ rec.pc \in {"arrive", "evaluate"} /\ UNCHANGED cause
      /\ ~(Open(warm) /\ ~phases.opening)
      /\ UNCHANGED <<counts, published, next, remaining, late, output, delivered, result>>
  BY DEF Evaluate, Barrier, Silent, UnchangedRun
<1>3. Working(rec, told) /\ "parked" \in Barrier /\ warm \in BOOLEAN
  BY <1>1, <1>2 DEF Working, Gone, Barrier, WorkerRec
<1>4. arrived \in SUBSET WorkerIds
  BY <1>1 DEF Arrivals, PhasesRec
<1>5. \A set \in SUBSET WorkerIds :
        /\ WithArrivals(warm, set) \in PhasesRec
        /\ WithArrivals(warm, set).opening = phases.opening
        /\ WithArrivals(warm, set).acquisitionOpen = phases.acquisitionOpen
        /\ WithArrivals(warm, set).warmupOpen = phases.warmupOpen
  BY <1>1 DEF WithArrivals, PhasesRec
<1>6. Becomes(rec, StartsOver(rec), told)
  BY <1>2, <1>3, LeavesBarrier
<1>7. Becomes(rec, parked, told)
  BY <1>1, <1>2, <1>3, StaysAtBarrier DEF Becomes
<1>8. /\ counts' \in CountsRec /\ (counts'.warmups > 0 => FALSE \in told)
      /\ UNCHANGED Books /\ late' \in BOOLEAN /\ UNCHANGED published
  BY <1>2 DEF PrimedInv, Typed, Announced, Books
<1>9. ASSUME NEW r, Becomes(rec, r, told), Sets(w, r), SameFlags PROVE Walks
  <2>1. /\ wk' \in [WorkerIds -> WorkerRec] /\ wk'[w] = r
        /\ \A v \in WorkerIds \ {w} : wk'[v] = wk[v]
    BY <1>9 DEF PrimedInv, Typed, Sets, Becomes
  <2> QED
    BY <1>1, <1>2, <1>8, <1>9, <2>1 DEF Walks
<1>10. CASE w \notin arrived
  <2>1. Sets(w, StartsOver(rec)) /\ UNCHANGED phases
    BY <1>10 DEF Evaluate, Set, Sets
  <2> QED
    BY <1>1, <1>6, <1>9, <2>1 DEF SameFlags
<1>11. CASE w \in arrived /\ (arrived # WorkerIds \/ phases.opening)
  <2>1. Sets(w, parked) /\ phases' = WithArrivals(warm, arrived)
    BY <1>11 DEF Evaluate, Set, Sets
  <2>2. SameFlags
    BY <1>4, <1>5, <2>1 DEF SameFlags
  <2> HIDE DEF parked
  <2> QED
    BY <1>7, <1>9, <2>1, <2>2
<1>12. CASE w \in arrived /\ arrived = WorkerIds /\ ~phases.opening /\ unhealthy = {}
  <2> DEFINE f == WithArrivals(warm, arrived)
  <2>1. /\ phases' = [f EXCEPT !.opening = TRUE, !.acquisitionOpen = TRUE, !.warmupOpen = warm]
        /\ Sets(w, [rec EXCEPT !.pc = "opening"])
    BY <1>12 DEF Evaluate, Set, Sets
  <2>2. f \in PhasesRec
    BY <1>4, <1>5
  <2> HIDE DEF f
  <2>3. /\ phases' \in PhasesRec /\ phases'.opening
        /\ phases'.acquisitionOpen /\ phases'.warmupOpen = warm
    BY <1>3, <2>1, <2>2 DEF PhasesRec
  <2> QED
    BY <1>2, <1>12, <2>1, <2>3 DEF BeginsOpening
<1>13. CASE w \in arrived /\ arrived = WorkerIds /\ ~phases.opening /\ unhealthy # {}
  <2> DEFINE r == IF w \in unhealthy THEN StartsOver(rec) ELSE parked
  <2>1. phases' = WithArrivals(warm, arrived \ unhealthy) /\ wk' = [Woken EXCEPT ![w] = r]
    BY <1>13 DEF Evaluate
  <2>2. SameFlags
    BY <1>4, <1>5, <2>1 DEF SameFlags
  <2>3. Becomes(rec, r, told)
    BY <1>6, <1>7
  <2> HIDE DEF r
  <2>4. /\ wk' \in [WorkerIds -> WorkerRec] /\ wk'[w] = r
        /\ \A v \in WorkerIds \ {w} : wk'[v] = Woken[v]
    BY <2>1, <2>3, WakesParked DEF Becomes
  <2>5. \A v \in WorkerIds : wk'[v] = wk[v] \/ Becomes(wk[v], wk'[v], told)
    BY <2>3, <2>4, WakesParked
  <2> QED
    BY <1>1, <1>2, <1>8, <2>2, <2>4, <2>5 DEF Walks
<1> QED
  BY <1>4, <1>10, <1>11, <1>12, <1>13

\* Opening a phase and announcing it keep the flags behind the consumer.
LEMMA PhaseOpens ==
  ASSUME PrimedInv, NEW w \in WorkerIds, BeginsOpening(w)
  PROVE  PrimedInv' /\ Calm
<1> DEFINE rec == wk[w]
           told == published.phases
           r == [rec EXCEPT !.pc = "opening"]
<1>1. /\ rec \in WorkerRec /\ Fit(rec, told) /\ rec.pc \in Barrier /\ "opening" \in Barrier
      /\ UNCHANGED <<counts, published>>
  BY DEF PrimedInv, Typed, BeginsOpening, Barrier
<1>2. r \in WorkerRec /\ Fit(r, told) /\ SameWork(rec, r) /\ r.pc = "opening" /\ r.warm = rec.warm
  BY <1>1, StaysAtBarrier
<1>3. wk' = [wk EXCEPT ![w] = r]
  BY DEF BeginsOpening, Sets
<1> HIDE DEF r
<1>4. /\ wk' \in [WorkerIds -> WorkerRec] /\ wk'[w] = r
      /\ \A v \in WorkerIds \ {w} : wk'[v] = wk[v]
  BY <1>2, <1>3 DEF PrimedInv, Typed
<1>5. Calm
  BY <1>2, <1>4 DEF Calm, Books, BeginsOpening
<1>6. Typed'
  BY <1>4 DEF PrimedInv, Typed, BeginsOpening
<1>7. \A v \in WorkerIds : Fit(wk'[v], published'.phases)
  BY <1>1, <1>2, <1>4 DEF PrimedInv
<1>8. \A v \in WorkerIds : wk'[v].pc = "opening" => v = w
  <2>1. \A v \in WorkerIds : wk[v].pc # "opening"
    BY DEF PrimedInv, Announced, BeginsOpening
  <2> QED
    BY <1>4, <2>1
<1>9. Announced'
  BY <1>1, <1>2, <1>4, <1>8 DEF PrimedInv, Announced, BeginsOpening
<1> QED
  BY <1>5, <1>6, <1>7, <1>9 DEF PrimedInv


\* The consumer only learns of more phases.
LEMMA ToldMore ==
  ASSUME NEW told, NEW more, told \subseteq more, NEW r, Fit(r, told)
  PROVE  Fit(r, more)
BY DEF Fit

LEMMA PhaseAnnounced ==
  ASSUME PrimedInv, NEW w \in WorkerIds, Opens(w)
  PROVE  PrimedInv' /\ Calm
<1> DEFINE rec == wk[w]
           told == published.phases
           more == told \cup {rec.warm}
           r == [rec EXCEPT !.pc = "evaluate"]
<1>1. /\ rec \in WorkerRec /\ Fit(rec, told) /\ rec.pc = "opening" /\ rec.pc \in Barrier
      /\ "evaluate" \in Barrier /\ rec.warm \in BOOLEAN
  BY DEF PrimedInv, Typed, Opens, Barrier, WorkerRec
<1>2. /\ counts' = counts /\ published' = [published EXCEPT !.phases = @ \cup {rec.warm}]
      /\ phases' = [phases EXCEPT !.opening = FALSE]
      /\ UNCHANGED <<cause, next, remaining, late, output, delivered, result>>
  BY DEF Opens, Publish, UnchangedRun
<1>3. /\ published' \in [phases : SUBSET BOOLEAN, indices : SUBSET Nat]
      /\ published'.phases = more /\ published'.indices = published.indices
  BY <1>1, <1>2 DEF PrimedInv, Typed
<1>4. /\ phases' \in PhasesRec /\ ~phases'.opening
      /\ phases'.acquisitionOpen = phases.acquisitionOpen
      /\ phases'.warmupOpen = phases.warmupOpen
  BY <1>2 DEF PrimedInv, Typed, PhasesRec
<1>5. r \in WorkerRec /\ Fit(r, told) /\ SameWork(rec, r) /\ r.pc = "evaluate"
  BY <1>1, StaysAtBarrier
<1>6. wk' = [Woken EXCEPT ![w] = r]
  <2>1. Woken[w] = rec
    BY <1>1, WakesParked
  <2> QED
    BY <2>1 DEF Opens
<1> HIDE DEF r
<1>7. /\ wk' \in [WorkerIds -> WorkerRec] /\ wk'[w] = r
      /\ \A v \in WorkerIds \ {w} : wk'[v] = Woken[v]
  BY <1>5, <1>6, WakesParked
<1>8. \A v \in WorkerIds : /\ wk'[v] = wk[v] \/ SameWork(wk[v], wk'[v])
                           /\ Fit(wk'[v], told)
  BY <1>5, <1>7, WakesParked DEF Becomes, PrimedInv
<1>9. Calm
  BY <1>2, <1>3, <1>8 DEF Calm, Books
<1>10. Typed'
  BY <1>2, <1>3, <1>4, <1>7 DEF PrimedInv, Typed
<1>11. \A v \in WorkerIds : Fit(wk'[v], published'.phases)
  BY <1>3, <1>8, ToldMore
<1>12. \A v \in WorkerIds : wk'[v].pc # "opening"
  <2>1. \A v \in WorkerIds \ {w} : wk[v].pc # "opening"
    BY <1>1 DEF PrimedInv, Announced
  <2> QED
    BY <1>5, <1>7, <2>1, WakesParked DEF Becomes
<1>13. /\ phases.acquisitionOpen => FALSE \in more
       /\ phases.warmupOpen => TRUE \in more
  BY <1>1 DEF PrimedInv, Announced, Fit
<1>14. Announced'
  BY <1>2, <1>3, <1>4, <1>12, <1>13 DEF PrimedInv, Announced
<1> QED
  BY <1>9, <1>10, <1>11, <1>14 DEF PrimedInv

LEMMA WalksCalm ==
  ASSUME Walks PROVE Calm
BY DEF Walks, Calm, Becomes

LEMMA ConnectionLost ==
  ASSUME PrimedInv, NEW w \in WorkerIds, NEW s \in Slots, NEW how \in {"lost", "retired"},
         Lose(w, s, how)
  PROVE  Walks
<1> DEFINE rec == wk[w]
           told == published.phases
           h == [rec.held EXCEPT ![s] = how]
           r == [rec EXCEPT !.held = h]
<1>1. rec \in WorkerRec /\ Fit(rec, told) /\ rec.held[s] = "ok" /\ cause \in Causes
  BY DEF PrimedInv, Typed, Lose
<1>2. /\ h \in [Slots -> {"none", "ok", "lost", "retired"}]
      /\ \A t \in Slots : /\ h[t] = "none" <=> rec.held[t] = "none"
                          /\ t # s => h[t] = rec.held[t]
  BY <1>1 DEF WorkerRec
<1>3. /\ Sets(w, r) /\ UNCHANGED <<cause, phases>>
      /\ UNCHANGED <<counts, published, next, remaining, late, output, delivered, result>>
  BY DEF Lose, Set, Sets, Silent, UnchangedRun
<1>4. Still
  BY <1>3 DEF Still
<1> HIDE DEF h
<1>5. /\ r \in WorkerRec /\ r.pc = rec.pc /\ r.goal = rec.goal /\ r.warm = rec.warm /\ r.slot = rec.slot
      /\ r.ret = rec.ret /\ r.held = h /\ r.fresh = rec.fresh /\ r.measured = rec.measured
      /\ r.unit = rec.unit /\ r.rot = rec.rot /\ r.entered = rec.entered /\ r.whole = rec.whole
      /\ r.left = rec.left /\ r.err = rec.err
  BY <1>1, <1>2 DEF WorkerRec
<1>6. rec.pc \notin Gone
  BY <1>1 DEF Fit
<1> HIDE DEF r
<1>7. Fit(r, told)
  <2>1. r.pc = "dial" => r.slot \in Slots /\ r.held[r.slot] = "none"
    BY <1>1, <1>2, <1>5 DEF Fit
  <2>2. r.pc \in Gone => \A t \in Slots : r.held[t] = "none"
    BY <1>5, <1>6
  <2> HIDE DEF rec, told
  <2> QED
    BY <1>1, <1>5, <2>1, <2>2, ZenonT(40) DEF Fit
<1>8. SameWork(rec, r)
  BY <1>2, <1>5, <1>6 DEF SameWork
<1> QED
  BY <1>1, <1>3, <1>4, <1>5, <1>7, <1>8, SilentWalk DEF Becomes


-----------------------------------------------------------------------------
(* Steps that change the books *)

\* A worker that keeps its slots, or its place in its unit.
SlotsKept(a, b) ==
  b.left = a.left /\ \A s \in Slots : b.held[s] = "none" <=> a.held[s] = "none"

UnitKept(a, b) ==
  /\ b.unit = a.unit /\ b.rot = a.rot /\ b.whole = a.whole
  /\ a.pc \notin Gone /\ b.pc \notin Gone
  /\ b.entered # a.entered => b.entered /\ a.rot = 0

WorkBooks == <<counts.attempted, counts.complete, counts.cycles, counts.cyclesComplete,
               published.indices, next>>
SlotBooks == <<counts.acquired, counts.closed>>
EndBooks == <<remaining, delivered, output, result>>

LEMMA SetsPrimed ==
  ASSUME PrimedInv, NEW w \in WorkerIds, NEW r \in WorkerRec,
         Fit(r, published.phases), r.pc # "opening", Sets(w, r),
         counts' \in CountsRec, counts'.warmups = counts.warmups,
         counts'.attempted > 0 => TRUE \in published.phases,
         published' \in [phases : SUBSET BOOLEAN, indices : SUBSET Nat],
         published'.phases = published.phases,
         cause' \in Causes, next' \in Nat, UNCHANGED <<phases, late, output>>
  PROVE  PrimedInv'
<1>1. /\ wk' \in [WorkerIds -> WorkerRec] /\ wk'[w] = r
      /\ \A v \in WorkerIds \ {w} : wk'[v] = wk[v]
  BY DEF PrimedInv, Typed, Sets
<1>2. Typed'
  BY <1>1 DEF PrimedInv, Typed
<1>3. \A v \in WorkerIds : Fit(wk'[v], published'.phases)
  BY <1>1 DEF PrimedInv
<1>4. \A v \in WorkerIds : wk'[v].pc = "opening" => wk'[v] = wk[v]
  BY <1>1
<1>5. Announced'
  BY <1>4 DEF PrimedInv, Announced
<1> QED
  BY <1>2, <1>3, <1>5 DEF PrimedInv

\* ensure closes a connection that is no longer usable, or finds the slot empty.
Replaces(w) ==
  \E s \in Slots, r \in WorkerRec :
    /\ Sets(w, r) /\ UnitKept(wk[w], r) /\ r.left = wk[w].left
    /\ wk[w].held[s] # "none" /\ r.held[s] = "none"
    /\ \A t \in Slots \ {s} : r.held[t] = "none" <=> wk[w].held[t] = "none"
    /\ counts'.closed = counts.closed + 1 /\ counts'.acquired = counts.acquired
    /\ UNCHANGED <<WorkBooks, EndBooks>>

LEMMA SlotReplaced ==
  ASSUME PrimedInv, NEW w \in WorkerIds, EnsureReplace(w)
  PROVE  PrimedInv' /\ (Calm \/ Replaces(w))
<1> DEFINE rec == wk[w]
           told == published.phases
           s == FirstLost(rec)
           h == [rec.held EXCEPT ![s] = "none"]
           gone == [rec EXCEPT !.held = h]
           full == rec.acq[s] >= Allowance(rec)
           a == [rec.acq EXCEPT ![s] = @ + 1]
           dial == [gone EXCEPT !.pc = "dial", !.slot = s, !.acq = a]
           r == IF full THEN FailedRec(gone, "recovery") ELSE dial
           closed == [counts EXCEPT !.closed = @ + 1]
<1>1. /\ rec \in WorkerRec /\ Fit(rec, told) /\ cause \in Causes /\ counts \in CountsRec
      /\ rec.pc = "acquire" /\ s # 0
      /\ UNCHANGED <<cause, phases, next, remaining, late, output, delivered, result>>
  BY DEF PrimedInv, Typed, EnsureReplace, UnchangedRun
<1>2. s \in Slots
  BY <1>1, FirstLostSlot
<1>3. Sets(w, r)
  <2>1. gone = [rec EXCEPT !.held[s] = "none"]
    BY <1>1 DEF WorkerRec
  <2>2. gone.acq = rec.acq
    BY <1>1 DEF WorkerRec
  <2>3. gone \in WorkerRec /\ gone.ret = rec.ret
    BY <1>1, <1>2 DEF WorkerRec
  <2>4. CASE full
    BY <1>1, <2>1, <2>4 DEF EnsureReplace, Fails, FailedRec, Sets
  <2>5. CASE ~full
    <3>1. Set(w, [gone EXCEPT !.pc = "dial", !.slot = s, !.acq[s] = @ + 1])
      BY <1>1, <2>1, <2>5 DEF EnsureReplace
    <3>2. [gone EXCEPT !.pc = "dial", !.slot = s, !.acq[s] = @ + 1] = dial
      BY <2>2, <2>3 DEF WorkerRec
    <3> QED
      BY <2>5, <3>1, <3>2 DEF Set, Sets
  <2> QED
    BY <2>4, <2>5
<1>4. /\ h \in [Slots -> {"none", "ok", "lost", "retired"}] /\ h[s] = "none"
      /\ \A t \in Slots \ {s} : h[t] = rec.held[t]
      /\ a \in [Slots -> Nat]
  BY <1>1, <1>2 DEF WorkerRec
<1>5. s \in Nat
  BY <1>2, PlanSizes
<1> HIDE DEF h, a
<1>6. /\ gone \in WorkerRec /\ gone.pc = rec.pc /\ gone.goal = rec.goal /\ gone.warm = rec.warm
      /\ gone.ret = rec.ret /\ gone.held = h /\ gone.fresh = rec.fresh /\ gone.measured = rec.measured
      /\ gone.unit = rec.unit /\ gone.rot = rec.rot /\ gone.entered = rec.entered
      /\ gone.whole = rec.whole /\ gone.left = rec.left
  BY <1>1, <1>4 DEF WorkerRec
<1>7. /\ dial \in WorkerRec /\ dial.pc = "dial" /\ dial.slot = s /\ dial.goal = rec.goal
      /\ dial.ret = rec.ret /\ dial.held = h /\ dial.fresh = rec.fresh /\ dial.measured = rec.measured
      /\ dial.unit = rec.unit /\ dial.rot = rec.rot /\ dial.entered = rec.entered
      /\ dial.whole = rec.whole /\ dial.left = rec.left
  BY <1>4, <1>5, <1>6 DEF WorkerRec
<1> HIDE DEF gone, dial
<1>8. Working(gone, told)
  BY <1>1, <1>6 DEF Working, Fit, Barrier, Warming, Measuring, Gone
<1>9. Becomes(gone, dial, told)
  <2> HIDE DEF s
  <2>1. dial.slot \in Slots /\ dial.held[dial.slot] = "none"
    BY <1>2, <1>4, <1>7
  <2>2. Fit(dial, told)
    BY <1>1, <1>7, <2>1 DEF Fit, Barrier, Warming, Measuring, Gone
  <2>3. SameWork(gone, dial)
    BY <1>1, <1>6, <1>7 DEF SameWork, Gone
  <2> QED
    BY <1>7, <2>2, <2>3 DEF Becomes
<1>10. Becomes(gone, FailedRec(gone, "recovery"), told)
  <2>1. "recovery" \in Causes \ {"none"}
    BY DEF Causes
  <2> QED
    BY <1>8, <2>1, FailsWith
<1>11. Becomes(gone, r, told)
  BY <1>9, <1>10
<1> HIDE DEF r, full
<1>12. r.pc # "opening"
  BY <1>1, <1>6, <1>11 DEF Becomes
<1>13. CASE rec.held[s] = "none"
  <2>1. UNCHANGED <<counts, published>>
    BY <1>13 DEF EnsureReplace, Silent
  <2>2. Becomes(rec, r, told)
    BY <1>1, <1>4, <1>6, <1>11, <1>13 DEF Becomes, SameWork
  <2>3. Still
    BY <1>1, <2>1 DEF Still
  <2> QED
    BY <1>1, <1>3, <2>2, <2>3, SilentWalk, WalksPrimed, WalksCalm
<1>14. CASE rec.held[s] # "none"
  <2>1. counts' = closed /\ UNCHANGED published
    BY <1>14, PublishesPlain DEF EnsureReplace
  <2>2. /\ counts' \in CountsRec /\ counts'.closed = counts.closed + 1
        /\ counts'.acquired = counts.acquired /\ counts'.attempted = counts.attempted
        /\ counts'.complete = counts.complete /\ counts'.cycles = counts.cycles
        /\ counts'.cyclesComplete = counts.cyclesComplete /\ counts'.warmups = counts.warmups
    BY <1>1, <2>1 DEF CountsRec
  <2>3. r \in WorkerRec /\ Fit(r, told) /\ SameWork(gone, r)
    BY <1>11 DEF Becomes
  <2>4. PrimedInv'
    <3>1. counts'.attempted > 0 => TRUE \in told
      BY <2>2 DEF PrimedInv, Announced
    <3>2. /\ published' \in [phases : SUBSET BOOLEAN, indices : SUBSET Nat]
          /\ published'.phases = told /\ next' \in Nat
      BY <1>1, <2>1 DEF PrimedInv, Typed
    <3> QED
      BY <1>1, <1>3, <1>12, <2>2, <2>3, <3>1, <3>2, SetsPrimed
  <2>5. Replaces(w)
    <3>1. UnitKept(rec, r) /\ r.left = rec.left
      BY <1>6, <2>3 DEF UnitKept, SameWork
    <3>2. r.held[s] = "none" /\ \A t \in Slots \ {s} : r.held[t] = "none" <=> rec.held[t] = "none"
      BY <1>2, <1>4, <1>6, <2>3 DEF SameWork
    <3>3. UNCHANGED <<WorkBooks, EndBooks>>
      BY <1>1, <2>1, <2>2 DEF WorkBooks, EndBooks
    <3> HIDE DEF s
    <3> QED
      BY <1>2, <1>3, <1>14, <2>2, <2>3, <3>1, <3>2, <3>3 DEF Replaces
  <2> QED
    BY <2>4, <2>5
<1> QED
  BY <1>13, <1>14


\* The factory fills an empty slot.
Dials(w) ==
  \E s \in Slots, r \in WorkerRec :
    /\ Sets(w, r) /\ UnitKept(wk[w], r) /\ r.left = wk[w].left
    /\ wk[w].held[s] = "none" /\ r.held[s] # "none"
    /\ \A t \in Slots \ {s} : r.held[t] = "none" <=> wk[w].held[t] = "none"
    /\ counts'.acquired = counts.acquired + 1 /\ counts'.closed = counts.closed
    /\ UNCHANGED <<WorkBooks, EndBooks>>

LEMMA SlotDialled ==
  ASSUME PrimedInv, NEW w \in WorkerIds, DialOk(w)
  PROVE  PrimedInv' /\ Dials(w)
<1> DEFINE rec == wk[w]
           told == published.phases
           s == rec.slot
           h == [rec.held EXCEPT ![s] = "ok"]
           k == s + 1
           f == rec.fresh \cup {s}
           r == [rec EXCEPT !.pc = "acquire", !.held = h, !.fresh = f, !.slot = k]
<1>1. /\ rec \in WorkerRec /\ Fit(rec, told) /\ cause \in Causes /\ counts \in CountsRec
      /\ rec.pc = "dial"
      /\ UNCHANGED <<cause, phases, next, remaining, late, output, delivered, result>>
  BY DEF PrimedInv, Typed, DialOk, UnchangedRun
<1>2. s \in Slots /\ rec.held[s] = "none" /\ s \in Nat
  BY <1>1, PlanSizes DEF Fit
<1>3. counts' = [counts EXCEPT !.acquired = @ + 1] /\ UNCHANGED published
  BY PublishesPlain DEF DialOk
<1>4. wk' = [wk EXCEPT ![w] = r]
  <2>1. r = [rec EXCEPT !.pc = "acquire", !.held[s] = "ok", !.fresh = @ \cup {s}, !.slot = @ + 1]
    BY <1>1 DEF WorkerRec
  <2> QED
    BY <2>1 DEF DialOk, Set
<1>5. /\ h \in [Slots -> {"none", "ok", "lost", "retired"}] /\ h[s] = "ok"
      /\ \A t \in Slots \ {s} : h[t] = rec.held[t]
      /\ k \in Nat /\ f \in SUBSET Slots
  BY <1>1, <1>2 DEF WorkerRec
<1> HIDE DEF h, k, f
<1>6. /\ r \in WorkerRec /\ r.pc = "acquire" /\ r.goal = rec.goal /\ r.held = h
      /\ r.ret = rec.ret /\ r.measured = rec.measured
      /\ r.unit = rec.unit /\ r.rot = rec.rot /\ r.entered = rec.entered
      /\ r.whole = rec.whole /\ r.left = rec.left
  BY <1>1, <1>5 DEF WorkerRec
<1> HIDE DEF r, s
<1>7. Fit(r, told)
  BY <1>1, <1>6 DEF Fit, Barrier, Warming, Measuring, Gone
<1>8. UnitKept(rec, r)
  BY <1>1, <1>6 DEF UnitKept, Gone
<1>9. /\ counts' \in CountsRec /\ counts'.acquired = counts.acquired + 1
      /\ counts'.closed = counts.closed /\ counts'.attempted = counts.attempted
      /\ counts'.complete = counts.complete /\ counts'.cycles = counts.cycles
      /\ counts'.cyclesComplete = counts.cyclesComplete /\ counts'.warmups = counts.warmups
  BY <1>1, <1>3 DEF CountsRec
<1>10. Sets(w, r)
  BY <1>4 DEF Sets
<1>11. PrimedInv'
  <2>1. counts'.attempted > 0 => TRUE \in told
    BY <1>9 DEF PrimedInv, Announced
  <2>2. /\ published' \in [phases : SUBSET BOOLEAN, indices : SUBSET Nat]
        /\ published'.phases = told /\ next' \in Nat
    BY <1>1, <1>3 DEF PrimedInv, Typed
  <2> QED
    BY <1>1, <1>6, <1>7, <1>9, <1>10, <2>1, <2>2, SetsPrimed
<1>12. Dials(w)
  <2>1. UNCHANGED <<WorkBooks, EndBooks>>
    BY <1>1, <1>3, <1>9 DEF WorkBooks, EndBooks
  <2>2. r.held[s] # "none" /\ \A t \in Slots \ {s} : r.held[t] = "none" <=> rec.held[t] = "none"
    BY <1>5, <1>6
  <2> QED
    BY <1>2, <1>6, <1>8, <1>9, <1>10, <2>1, <2>2 DEF Dials
<1> QED
  BY <1>11, <1>12

\* A measured trial is reported with the next index of its unit.
Reports(w) ==
  \E r \in WorkerRec, complete \in BOOLEAN :
    /\ Sets(w, r) /\ SlotsKept(wk[w], r)
    /\ wk[w].pc = "publish" /\ r.pc \in {"dispose", "unit", "take"}
    /\ wk[w].entered /\ wk[w].rot < UnitCount
    /\ r.unit = wk[w].unit /\ r.rot = wk[w].rot + 1 /\ r.entered
    /\ r.whole = (wk[w].whole /\ complete)
    /\ counts'.attempted = counts.attempted + 1
    /\ counts'.complete = counts.complete + IF complete THEN 1 ELSE 0
    /\ counts'.cycles = counts.cycles /\ counts'.cyclesComplete = counts.cyclesComplete
    /\ published'.indices = published.indices \cup {wk[w].unit * UnitCount + wk[w].rot}
    /\ UNCHANGED <<next, SlotBooks, EndBooks>>

LEMMA TrialReported ==
  ASSUME PrimedInv, NEW w \in WorkerIds, TrialPublish(w)
  PROVE  PrimedInv' /\ Reports(w)
<1> DEFINE rec == wk[w]
           told == published.phases
           complete == rec.released = Requests /\ ~rec.fault
           more == IF complete THEN 1 ELSE 0
           k == rec.rot + 1
           whole == (rec.whole /\ complete)
           p == IF rec.err # "none" THEN "dispose" ELSE IF k < UnitCount THEN "unit" ELSE "take"
           r == [rec EXCEPT !.rot = k, !.whole = whole, !.ret = "unit", !.pc = p]
           i == rec.unit * UnitCount + rec.rot
           counted == [counts EXCEPT !.attempted = @ + 1, !.complete = @ + more]
<1>1. /\ rec \in WorkerRec /\ Fit(rec, told) /\ cause \in Causes /\ counts \in CountsRec
      /\ rec.pc = "publish" /\ published \in [phases : SUBSET BOOLEAN, indices : SUBSET Nat]
      /\ UNCHANGED <<cause, phases, next, remaining, late, output, delivered, result>>
  BY DEF PrimedInv, Typed, TrialPublish, UnchangedRun
<1>2. rec.rot \in Nat /\ rec.unit \in Nat /\ UnitCount \in Nat \ {0} /\ rec.rot < UnitCount
      /\ rec.measured /\ rec.entered /\ rec.ret = "op" /\ (rec.err = "none" => rec.fresh = {})
  BY <1>1, PlanSizes DEF WorkerRec, Fit, Measuring
<1>3. wk' = [wk EXCEPT ![w] = r]
  <2> DEFINE ended == [rec EXCEPT !.rot = @ + 1, !.whole = @ /\ complete, !.ret = "unit"]
  <2>1. ended.rot = k /\ r = [ended EXCEPT !.pc = p]
    BY <1>1 DEF WorkerRec
  <2>2. Set(w, [ended EXCEPT !.pc = IF rec.err # "none" THEN "dispose"
                                 ELSE IF ended.rot < UnitCount THEN "unit" ELSE "take"])
    BY DEF TrialPublish
  <2> HIDE DEF ended, r
  <2> QED
    BY <2>1, <2>2 DEF Set
<1>4. counts' = counted /\ published' = [published EXCEPT !.indices = @ \cup {i}]
  BY DEF TrialPublish, Publish
<1>5. k \in Nat /\ k <= UnitCount /\ k # 0 /\ whole \in BOOLEAN /\ i \in Nat
  BY <1>2
<1>6. /\ p \in {"dispose", "unit", "take"} /\ (rec.err # "none" <=> p = "dispose")
      /\ (p = "unit" => k < UnitCount)
  OBVIOUS
<1> DEFINE sum == counts.complete + more
           att == counts.attempted + 1
<1>14. sum \in Nat /\ att \in Nat
  BY <1>1 DEF CountsRec
<1>15. counts' = [counts EXCEPT !.attempted = att, !.complete = sum]
  BY <1>1, <1>4 DEF CountsRec
<1> HIDE DEF sum, att
<1>16. /\ counts' \in CountsRec /\ counts'.attempted = att /\ counts'.complete = sum
       /\ counts'.acquired = counts.acquired /\ counts'.closed = counts.closed
       /\ counts'.cycles = counts.cycles /\ counts'.cyclesComplete = counts.cyclesComplete
       /\ counts'.warmups = counts.warmups
  BY <1>1, <1>14, <1>15 DEF CountsRec
<1>7. /\ counts' \in CountsRec /\ counts'.acquired = counts.acquired
      /\ counts'.closed = counts.closed /\ counts'.attempted = counts.attempted + 1
      /\ counts'.complete = counts.complete + more /\ counts'.cycles = counts.cycles
      /\ counts'.cyclesComplete = counts.cyclesComplete /\ counts'.warmups = counts.warmups
  BY <1>16 DEF att, sum
<1>8. /\ published' \in [phases : SUBSET BOOLEAN, indices : SUBSET Nat]
      /\ published'.phases = told /\ published'.indices = published.indices \cup {i}
  BY <1>1, <1>4, <1>5
<1> HIDE DEF k, whole, p, i, counted, complete
<1>9. /\ r \in WorkerRec /\ r.pc = p /\ r.held = rec.held /\ r.fresh = rec.fresh
      /\ r.ret = "unit" /\ r.measured = rec.measured
      /\ r.unit = rec.unit /\ r.rot = k /\ r.entered = rec.entered
      /\ r.whole = whole /\ r.left = rec.left
  <2>1. r \in WorkerRec
    BY <1>1, <1>5, <1>6 DEF WorkerRec, Measuring
  <2>2. /\ r.pc = p /\ r.held = rec.held /\ r.fresh = rec.fresh
        /\ r.ret = "unit" /\ r.measured = rec.measured
        /\ r.unit = rec.unit /\ r.rot = k /\ r.entered = rec.entered
        /\ r.whole = whole /\ r.left = rec.left
    BY <1>1, <1>5, <1>6 DEF WorkerRec, Measuring
  <2> QED
    BY <2>1, <2>2
<1> HIDE DEF r
<1>10. Fit(r, told)
  <2>1. rec.left = 0 /\ TRUE \in told /\ FALSE \in told /\ (rec.err = "none" => rec.fresh = {})
        /\ rec.measured /\ rec.entered
    BY <1>1, <1>2 DEF Fit
  <2>2. r.err = rec.err
    BY <1>1, <1>5, <1>6 DEF r, WorkerRec
  <2> HIDE DEF rec, told
  <2> QED
    BY <1>5, <1>6, <1>9, <2>1, <2>2 DEF Fit, Barrier, Warming, Measuring, Gone
<1>11. Sets(w, r)
  BY <1>3 DEF Sets
<1>12. PrimedInv'
  <2>1. TRUE \in told /\ next' \in Nat
    BY <1>1, <1>2 DEF Fit, PrimedInv, Typed
  <2>2. r.pc # "opening"
    BY <1>6, <1>9
  <2> QED
    BY <1>1, <1>7, <1>8, <1>9, <1>10, <1>11, <2>1, <2>2, SetsPrimed
<1>13. Reports(w)
  <2>1. UNCHANGED <<next, SlotBooks, EndBooks>>
    BY <1>1, <1>7 DEF SlotBooks, EndBooks
  <2>2. SlotsKept(rec, r)
    BY <1>9 DEF SlotsKept
  <2>3. complete \in BOOLEAN /\ r.rot = rec.rot + 1 /\ r.whole = (rec.whole /\ complete)
    BY <1>9 DEF complete, k, whole
  <2>4. published'.indices = published.indices \cup {rec.unit * UnitCount + rec.rot}
    BY <1>8 DEF i
  <2> QED
    BY <1>1, <1>2, <1>6, <1>7, <1>9, <1>11, <2>1, <2>2, <2>3, <2>4 DEF Reports
<1> QED
  BY <1>12, <1>13


\* What the end of a unit adds to the accounting: an entered rotation, complete
\* when all of its trials were.
Rotation(rec) == Plan.arrangement = "rotate" /\ rec.entered

Settles(rec) ==
  /\ counts' \in CountsRec /\ counts'.warmups = counts.warmups
  /\ counts'.acquired = counts.acquired /\ counts'.closed = counts.closed
  /\ counts'.attempted = counts.attempted /\ counts'.complete = counts.complete
  /\ counts'.cycles = counts.cycles + IF Rotation(rec) THEN 1 ELSE 0
  /\ counts'.cyclesComplete = counts.cyclesComplete
       + IF Rotation(rec) /\ rec.whole /\ rec.rot = UnitCount THEN 1 ELSE 0

LEMMA CycleSettled ==
  ASSUME NEW rec \in WorkerRec, counts \in CountsRec, counts' = CycleCounted(rec, counts)
  PROVE  Settles(rec)
<1> DEFINE more == IF rec.whole /\ rec.rot = UnitCount THEN 1 ELSE 0
           c == counts.cycles + 1
           d == counts.cyclesComplete + more
<1>1. more \in Nat /\ c \in Nat /\ d \in Nat
  BY DEF CountsRec
<1>2. CASE Rotation(rec)
  <2>1. counts' = [counts EXCEPT !.cycles = c, !.cyclesComplete = d]
    BY <1>2 DEF CycleCounted, Rotation, CountsRec
  <2> HIDE DEF c, d, more
  <2>2. /\ counts' \in CountsRec /\ counts'.warmups = counts.warmups
        /\ counts'.acquired = counts.acquired /\ counts'.closed = counts.closed
        /\ counts'.attempted = counts.attempted /\ counts'.complete = counts.complete
        /\ counts'.cycles = c /\ counts'.cyclesComplete = d
    BY <1>1, <2>1 DEF CountsRec
  <2> QED
    BY <1>2, <2>2 DEF Settles, c, d, more
<1>3. CASE ~Rotation(rec)
  <2>1. counts' = counts
    BY <1>3 DEF CycleCounted, Rotation
  <2> QED
    BY <1>3, <2>1 DEF Settles, CountsRec
<1> QED
  BY <1>2, <1>3

\* A worker ends its unit and takes the next one, if the queue has one.
Takes(w) ==
  \E r \in WorkerRec :
    /\ Sets(w, r) /\ SlotsKept(wk[w], r) /\ Settles(wk[w]) /\ ~r.entered
    /\ wk[w].pc = "take" /\ r.pc \in {"unit", "dispose"}
    /\ \/ r.unit = wk[w].unit /\ r.rot = wk[w].rot /\ next' = next
       \/ /\ r.unit = next /\ r.rot = 0 /\ next' = next + 1
          /\ R.units > 0 => next < R.units
    /\ UNCHANGED <<published, EndBooks>>

LEMMA UnitTaken ==
  ASSUME PrimedInv, NEW w \in WorkerIds, Take(w)
  PROVE  PrimedInv' /\ Takes(w)
<1> DEFINE rec == wk[w]
           told == published.phases
           last == R.units > 0 /\ next >= R.units
           p == IF cause = "none" THEN "unit" ELSE "dispose"
           over == [rec EXCEPT !.pc = "dispose", !.entered = FALSE]
           new == [rec EXCEPT !.pc = p, !.unit = next, !.rot = 0, !.entered = FALSE, !.whole = TRUE]
           r == IF last THEN over ELSE new
<1>1. /\ rec \in WorkerRec /\ Fit(rec, told) /\ cause \in Causes /\ counts \in CountsRec
      /\ rec.pc = "take" /\ next \in Nat /\ UnitCount \in Nat \ {0}
      /\ UNCHANGED <<cause, phases, published, remaining, late, output, delivered, result>>
  BY PlanSizes DEF PrimedInv, Typed, Take
<1>2. Settles(rec)
  BY <1>1, CycleSettled DEF Take
<1>3. Sets(w, r) /\ next' = IF last THEN next ELSE next + 1
  BY DEF Take, Set, Sets
<1>4. p \in {"unit", "dispose"} /\ 0 \in Nat
  OBVIOUS
<1>5. /\ rec.rot \in Nat /\ rec.measured /\ rec.ret # "op" /\ rec.fresh = {}
      /\ rec.rot <= UnitCount /\ rec.left = 0 /\ TRUE \in told /\ FALSE \in told
  BY <1>1 DEF WorkerRec, Fit, Measuring
<1> HIDE DEF p
<1>6. /\ over \in WorkerRec /\ over.pc = "dispose" /\ ~over.entered /\ over.unit = rec.unit
      /\ over.rot = rec.rot /\ over.held = rec.held /\ over.left = rec.left
      /\ over.ret = rec.ret /\ over.measured = rec.measured /\ over.fresh = rec.fresh
  BY <1>1 DEF WorkerRec
<1>7. /\ new \in WorkerRec /\ new.pc = p /\ ~new.entered /\ new.unit = next
      /\ new.rot = 0 /\ new.held = rec.held /\ new.left = rec.left
      /\ new.ret = rec.ret /\ new.measured = rec.measured /\ new.fresh = rec.fresh
  <2>1. new \in WorkerRec
    BY <1>1, <1>4 DEF WorkerRec, Measuring
  <2>2. /\ new.pc = p /\ ~new.entered /\ new.unit = next
        /\ new.rot = 0 /\ new.held = rec.held /\ new.left = rec.left
        /\ new.ret = rec.ret /\ new.measured = rec.measured /\ new.fresh = rec.fresh
    BY <1>1, <1>4 DEF WorkerRec, Measuring
  <2> QED
    BY <2>1, <2>2
<1> HIDE DEF over, new
<1>8. Fit(over, told)
  BY <1>5, <1>6 DEF Fit, Barrier, Warming, Measuring, Gone
<1>9. Fit(new, told)
  <2> HIDE DEF told, rec
  <2>1. 0 < UnitCount /\ 0 <= UnitCount /\ UnitCount # 0
    BY <1>1
  <2> QED
    BY <1>4, <1>5, <1>7, <2>1 DEF Fit, Barrier, Warming, Measuring, Gone
<1>10. /\ r \in WorkerRec /\ Fit(r, told) /\ r.pc \in {"unit", "dispose"} /\ ~r.entered
       /\ r.held = rec.held /\ r.left = rec.left
       /\ IF last THEN r.unit = rec.unit /\ r.rot = rec.rot ELSE r.unit = next /\ r.rot = 0
  BY <1>4, <1>6, <1>7, <1>8, <1>9
<1> HIDE DEF r
<1>11. PrimedInv'
  <2>1. counts'.attempted > 0 => TRUE \in told
    BY <1>2 DEF Settles, PrimedInv, Announced
  <2>2. counts' \in CountsRec /\ counts'.warmups = counts.warmups
    BY <1>2 DEF Settles
  <2>3. /\ published' \in [phases : SUBSET BOOLEAN, indices : SUBSET Nat]
        /\ published'.phases = told /\ next' \in Nat
    BY <1>1, <1>3 DEF PrimedInv, Typed
  <2>4. r.pc # "opening"
    BY <1>10
  <2> QED
    BY <1>1, <1>3, <1>10, <2>1, <2>2, <2>3, <2>4, SetsPrimed
<1>12. Takes(w)
  <2>1. SlotsKept(rec, r)
    BY <1>10 DEF SlotsKept
  <2>2. UNCHANGED <<published, EndBooks>>
    BY <1>1 DEF EndBooks
  <2>3. R.units > 0 /\ ~last => next < R.units
    <3>1. R.units \in Int
      BY PlanSizes
    <3> QED
      BY <1>1, <3>1
  <2>4. \/ r.unit = rec.unit /\ r.rot = rec.rot /\ next' = next
        \/ /\ r.unit = next /\ r.rot = 0 /\ next' = next + 1
           /\ R.units > 0 => next < R.units
    BY <1>3, <1>10, <2>3
  <2> QED
    BY <1>1, <1>2, <1>3, <1>10, <2>1, <2>2, <2>4 DEF Takes
<1> QED
  BY <1>11, <1>12

\* A worker as it is created.
LEMMA WorkerTyped == Worker \in WorkerRec
<1>1. NoDials \in [Slots -> Nat] /\ [s \in Slots |-> "none"] \in [Slots -> {"none", "ok", "lost", "retired"}]
  BY DEF NoDials
<1> HIDE DEF NoDials
<1> DEFINE h == [s \in Slots |-> "none"]
<1>2. /\ h \in [Slots -> {"none", "ok", "lost", "retired"}] /\ 0 \in Nat /\ 1 \in Nat
      /\ "none" \in Causes
  BY <1>1 DEF Causes
<1>3. Worker =
        [pc |-> "acquire", slot |-> 1, goal |-> "barrier", ret |-> "initial",
         held |-> h, acq |-> NoDials, fresh |-> {},
         warm |-> FALSE, measured |-> FALSE, replacing |-> FALSE, unit |-> 0, rot |-> 0, wi |-> 0,
         released |-> {}, fault |-> FALSE, wreleased |-> {}, wfault |-> FALSE,
         entered |-> FALSE, whole |-> TRUE, err |-> "none", left |-> 0]
  BY DEF Worker
<1> HIDE DEF h
<1> QED
  BY <1>1, <1>2, <1>3 DEF WorkerRec

\* A worker disposes of its slots: what it held is left to report.
Disposes(w) ==
  \E r \in WorkerRec :
    /\ Sets(w, r) /\ Settles(wk[w]) /\ wk[w].pc = "dispose" /\ r.pc = "report"
    /\ r.left = Cardinality({s \in Slots : wk[w].held[s] # "none"})
    /\ remaining' = remaining - 1
    /\ UNCHANGED <<published, next, delivered, output, result>>

LEMMA SlotsDisposed ==
  ASSUME PrimedInv, NEW w \in WorkerIds, Dispose(w)
  PROVE  PrimedInv' /\ Disposes(w)
<1> DEFINE rec == wk[w]
           told == published.phases
           n == Cardinality({s \in Slots : rec.held[s] # "none"})
           m == rec.measured
           r == [Worker EXCEPT !.pc = "report", !.measured = m, !.left = n]
<1>1. /\ rec \in WorkerRec /\ Fit(rec, told) /\ cause \in Causes /\ counts \in CountsRec
      /\ rec.pc = "dispose" /\ next \in Nat
      /\ UNCHANGED <<phases, published, next, late, output, delivered, result>>
  BY DEF PrimedInv, Typed, Dispose
<1>2. Settles(rec)
  BY <1>1, CycleSettled DEF Dispose
<1>3. Sets(w, r) /\ remaining' = remaining - 1
  BY DEF Dispose, Set, Sets
<1>4. n \in Nat /\ m \in BOOLEAN /\ UnitCount \in Nat \ {0}
  BY <1>1, PlanSizes, FS_Subset, FS_CardinalityType DEF WorkerRec
<1>5. Worker \in WorkerRec
  BY WorkerTyped
<1>6. /\ Worker.slot = 1 /\ Worker.ret = "initial" /\ Worker.fresh = {} /\ ~Worker.entered
      /\ Worker.rot = 0 /\ \A s \in Slots : Worker.held[s] = "none"
  BY DEF Worker
<1> HIDE DEF n, m
<1>7. /\ r \in WorkerRec /\ r.pc = "report" /\ r.measured = m /\ r.left = n
      /\ r.ret = "initial" /\ ~r.entered /\ r.rot = 0 /\ \A s \in Slots : r.held[s] = "none"
  BY <1>4, <1>5, <1>6 DEF WorkerRec, Gone
<1> HIDE DEF r
<1>8. Fit(r, told)
  <2>1. m => TRUE \in told /\ FALSE \in told
    BY <1>1 DEF Fit, m
  <2>2. 0 < UnitCount /\ 0 <= UnitCount
    BY <1>4
  <2> HIDE DEF rec, told
  <2> QED
    BY <1>7, <2>1, <2>2 DEF Fit, Barrier, Warming, Measuring, Gone
<1>9. cause' \in Causes
  BY <1>1 DEF Dispose, Cancel, WorkerRec, Causes
<1>10. PrimedInv'
  <2>1. counts'.attempted > 0 => TRUE \in told
    BY <1>2 DEF Settles, PrimedInv, Announced
  <2>2. counts' \in CountsRec /\ counts'.warmups = counts.warmups
    BY <1>2 DEF Settles
  <2>3. /\ published' \in [phases : SUBSET BOOLEAN, indices : SUBSET Nat]
        /\ published'.phases = told /\ next' \in Nat
    BY <1>1 DEF PrimedInv, Typed
  <2>4. r.pc # "opening"
    BY <1>7
  <2> QED
    BY <1>1, <1>3, <1>7, <1>8, <1>9, <2>1, <2>2, <2>3, <2>4, SetsPrimed
<1>11. Disposes(w)
  BY <1>1, <1>2, <1>3, <1>7 DEF Disposes, n
<1> QED
  BY <1>10, <1>11

\* A worker reports what it disposed of, one connection at a time.
Closes(w) ==
  \E r \in WorkerRec :
    /\ Sets(w, r) /\ wk[w].pc = "report" /\ r.pc \in Gone
    /\ \/ /\ wk[w].left > 0 /\ r.left = wk[w].left - 1
          /\ counts'.closed = counts.closed + 1 /\ counts'.acquired = counts.acquired
       \/ r.left = wk[w].left /\ UNCHANGED SlotBooks
    /\ UNCHANGED <<WorkBooks, EndBooks>>

LEMMA ConnectionsReported ==
  ASSUME PrimedInv, NEW w \in WorkerIds, Report(w)
  PROVE  PrimedInv' /\ Closes(w)
<1> DEFINE rec == wk[w]
           told == published.phases
           d == rec.left - 1
           done == [rec EXCEPT !.pc = "done"]
           less == [rec EXCEPT !.left = d]
<1>1. /\ rec \in WorkerRec /\ Fit(rec, told) /\ cause \in Causes /\ counts \in CountsRec
      /\ rec.pc = "report" /\ rec.left \in Nat
      /\ UNCHANGED <<cause, phases, next, remaining, late, output, delivered, result>>
  BY DEF PrimedInv, Typed, Report, UnchangedRun, WorkerRec
<1>2. ASSUME NEW r \in WorkerRec, Sets(w, r), r.pc \in Gone, Fit(r, told), UNCHANGED published,
             counts' \in CountsRec, counts'.attempted = counts.attempted,
             counts'.complete = counts.complete, counts'.cycles = counts.cycles,
             counts'.cyclesComplete = counts.cyclesComplete, counts'.warmups = counts.warmups
      PROVE  PrimedInv' /\ UNCHANGED <<WorkBooks, EndBooks>>
  <2>1. counts'.attempted > 0 => TRUE \in told
    BY <1>2 DEF PrimedInv, Announced
  <2>2. /\ published' \in [phases : SUBSET BOOLEAN, indices : SUBSET Nat]
        /\ published'.phases = told /\ next' \in Nat
    BY <1>1, <1>2 DEF PrimedInv, Typed
  <2>3. r.pc # "opening"
    BY <1>2 DEF Gone
  <2>4. PrimedInv'
    BY <1>1, <1>2, <2>1, <2>2, <2>3, SetsPrimed
  <2>5. UNCHANGED <<WorkBooks, EndBooks>>
    BY <1>1, <1>2 DEF WorkBooks, EndBooks
  <2> QED
    BY <2>4, <2>5
<1>3. CASE rec.left = 0
  <2>1. Sets(w, done) /\ UNCHANGED <<counts, published>>
    BY <1>3 DEF Report, Set, Sets, Silent
  <2>2. /\ done \in WorkerRec /\ done.pc = "done" /\ done.left = rec.left /\ done.held = rec.held
        /\ done.ret = rec.ret /\ done.measured = rec.measured /\ done.entered = rec.entered
        /\ done.rot = rec.rot
    BY <1>1 DEF WorkerRec, Gone
  <2> HIDE DEF done
  <2>3. Fit(done, told) /\ done.pc \in Gone
    BY <1>1, <1>3, <2>2 DEF Fit, Barrier, Warming, Measuring, Gone
  <2>4. PrimedInv' /\ UNCHANGED <<WorkBooks, EndBooks>>
    BY <1>1, <1>2, <2>1, <2>2, <2>3
  <2>5. UNCHANGED SlotBooks
    BY <2>1 DEF SlotBooks
  <2> QED
    BY <1>1, <2>1, <2>2, <2>3, <2>4, <2>5 DEF Closes
<1>4. CASE rec.left # 0
  <2>1. Sets(w, less) /\ counts' = [counts EXCEPT !.closed = @ + 1] /\ UNCHANGED published
    BY <1>4, PublishesPlain DEF Report, Set, Sets
  <2>2. d \in Nat /\ rec.left > 0
    BY <1>1, <1>4
  <2> HIDE DEF d
  <2>3. /\ less \in WorkerRec /\ less.pc = "report" /\ less.left = d /\ less.held = rec.held
        /\ less.ret = rec.ret /\ less.measured = rec.measured /\ less.entered = rec.entered
        /\ less.rot = rec.rot
    BY <1>1, <2>2 DEF WorkerRec
  <2> HIDE DEF less
  <2>4. Fit(less, told) /\ less.pc \in Gone
    BY <1>1, <2>3 DEF Fit, Barrier, Warming, Measuring, Gone
  <2>5. /\ counts' \in CountsRec /\ counts'.closed = counts.closed + 1
        /\ counts'.acquired = counts.acquired /\ counts'.attempted = counts.attempted
        /\ counts'.complete = counts.complete /\ counts'.cycles = counts.cycles
        /\ counts'.cyclesComplete = counts.cyclesComplete /\ counts'.warmups = counts.warmups
    BY <1>1, <2>1 DEF CountsRec
  <2>6. PrimedInv' /\ UNCHANGED <<WorkBooks, EndBooks>>
    BY <1>1, <1>2, <2>1, <2>3, <2>4, <2>5
  <2> QED
    BY <1>1, <2>1, <2>2, <2>3, <2>4, <2>5, <2>6 DEF Closes, d
<1> QED
  BY <1>3, <1>4


-----------------------------------------------------------------------------
(* Every step *)

\* What a worker's step does to the books.
Effect(w) ==
  Calm \/ Replaces(w) \/ Dials(w) \/ Reports(w) \/ Takes(w) \/ Disposes(w) \/ Closes(w)

\* A step of Run, of its timer or of its caller: the workers stay as they are.
Outside ==
  /\ UNCHANGED <<wk, phases, counts, published, next, remaining>>
  /\ cause' \in Causes /\ late' \in BOOLEAN /\ output' \in BOOLEAN

LEMMA WorkerSteps ==
  ASSUME PrimedInv, NEW w \in WorkerIds, WorkerStep(w)
  PROVE  PrimedInv' /\ Effect(w)
<1>1. CASE EnsureCancelled(w) \/ Acquired(w) \/ ArriveCancelled(w) \/ PassesBarrier(w)
  BY <1>1, StepsOfArrival, WalksPrimed, WalksCalm DEF Effect
<1>2. CASE Prime(w) \/ WarmGroup(w) \/ Check(w)
  BY <1>2, StepsOfPriming, WalksPrimed, WalksCalm DEF Effect
<1>3. CASE WarmPublish(w) \/ DialFail(w)
  BY <1>3, StepsOfFailure, WalksPrimed, WalksCalm DEF Effect
<1>4. CASE UnitStart(w) \/ Group(w)
  BY <1>4, StepsOfUnit, WalksPrimed, WalksCalm DEF Effect
<1>5. CASE Evaluate(w)
  BY <1>5, StepsOfEvaluation, PhaseOpens, WalksPrimed, WalksCalm DEF Effect
<1>6. CASE Opens(w)
  BY <1>6, PhaseAnnounced DEF Effect
<1>7. CASE EnsureReplace(w)
  BY <1>7, SlotReplaced DEF Effect
<1>8. CASE DialOk(w)
  BY <1>8, SlotDialled DEF Effect
<1>9. CASE TrialPublish(w)
  BY <1>9, TrialReported DEF Effect
<1>10. CASE Take(w)
  BY <1>10, UnitTaken DEF Effect
<1>11. CASE Dispose(w)
  BY <1>11, SlotsDisposed DEF Effect
<1>12. CASE Report(w)
  BY <1>12, ConnectionsReported DEF Effect
<1> QED
  BY <1>1, <1>2, <1>3, <1>4, <1>5, <1>6, <1>7, <1>8, <1>9, <1>10, <1>11, <1>12 DEF WorkerStep

LEMMA RunSteps ==
  ASSUME PrimedInv, Emit(TRUE) \/ Emit(FALSE) \/ DeadlinePasses \/ TimerFires \/ UserStops \/ Finish
  PROVE  Outside
<1>1. cause \in Causes /\ late \in BOOLEAN /\ output \in BOOLEAN
  BY DEF PrimedInv, Typed
<1>2. {"none", "stop", "deadline", "output"} \subseteq Causes
  BY DEF Causes
<1>3. CASE Emit(TRUE) \/ Emit(FALSE)
  BY <1>1, <1>2, <1>3 DEF Emit, Cancel, Outside
<1>4. CASE DeadlinePasses \/ TimerFires \/ UserStops
  BY <1>1, <1>2, <1>4 DEF DeadlinePasses, TimerFires, UserStops, Cancel, Outside
<1>5. CASE Finish
  BY <1>1, <1>5 DEF Finish, Outside
<1> QED
  BY <1>3, <1>4, <1>5

LEMMA OutsidePrimed ==
  ASSUME PrimedInv, Outside
  PROVE  PrimedInv'
BY DEF PrimedInv, Typed, Announced, Outside

LEMMA InitPrimed ==
  ASSUME Init PROVE PrimedInv
<1>1. R.workers \in Nat /\ WorkerIds \subseteq Nat /\ UnitCount \in Nat \ {0}
  BY PlanSizes
<1>2. Worker \in WorkerRec
  BY WorkerTyped
<1>3. ASSUME NEW w \in WorkerIds
      PROVE  wk[w] \in WorkerRec /\ Fit(wk[w], {}) /\ wk[w].pc = "acquire"
  <2> DEFINE r == [Worker EXCEPT !.unit = w]
  <2>1. wk[w] = r /\ w \in Nat
    BY <1>1 DEF Init
  <2>2. /\ r \in WorkerRec /\ r.pc = "acquire" /\ r.goal = "barrier" /\ r.ret = "initial"
        /\ ~r.measured /\ ~r.entered /\ r.rot = 0 /\ r.left = 0
    BY <1>2, <2>1 DEF Worker, WorkerRec
  <2> HIDE DEF r
  <2>3. 0 < UnitCount /\ 0 <= UnitCount
    BY <1>1
  <2> QED
    BY <2>1, <2>2, <2>3 DEF Fit, Barrier, Warming, Measuring, Gone
<1>4. DOMAIN wk = WorkerIds /\ wk = [w \in WorkerIds |-> wk[w]]
  BY DEF Init
<1>5. wk \in [WorkerIds -> WorkerRec]
  BY <1>3, <1>4
<1>6. Typed
  BY <1>1, <1>5 DEF Init, Typed, PhasesRec, CountsRec, Causes
<1>7. \A w \in WorkerIds : Fit(wk[w], published.phases)
  BY <1>3 DEF Init
<1>8. Announced
  BY <1>3 DEF Init, Announced
<1> QED
  BY <1>6, <1>7, <1>8 DEF PrimedInv

LEMMA NextPrimed ==
  ASSUME PrimedInv, [Next]_vars
  PROVE  PrimedInv'
<1>1. CASE \E w \in WorkerIds : WorkerStep(w)
  BY <1>1, WorkerSteps
<1>2. CASE \E w \in WorkerIds, s \in Slots, how \in {"lost", "retired"} : Lose(w, s, how)
  BY <1>2, ConnectionLost, WalksPrimed
<1>3. CASE Emit(TRUE) \/ Emit(FALSE) \/ DeadlinePasses \/ TimerFires \/ UserStops \/ Finish
  BY <1>3, RunSteps, OutsidePrimed
<1>4. CASE UNCHANGED vars
  BY <1>4 DEF vars, PrimedInv, Typed, Announced
<1>5. CASE Terminated
  BY <1>4, <1>5 DEF Terminated
<1> QED
  BY <1>1, <1>2, <1>3, <1>4, <1>5 DEF Next

\* Measured requests go only to connections that the whole worker primed, and the
\* consumer learns of a phase before any work of the next one (readySet, arrive).
THEOREM PrimedBeforeMeasured == Spec => []MeasuredOnPrimed
<1>1. Init => PrimedInv
  BY InitPrimed
<1>2. PrimedInv /\ [Next]_vars => PrimedInv'
  BY NextPrimed
<1>3. PrimedInv => MeasuredOnPrimed
  BY DEF PrimedInv, Announced, Fit, MeasuredOnPrimed
<1> QED
  BY <1>1, <1>2, <1>3, PTL DEF Spec

-----------------------------------------------------------------------------
(* The account: units, trials and connections.                             *)


\* Workers whose target interaction goes on.
Busy == {w \in WorkerIds : wk[w].pc \notin Gone}

\* Workers inside a rotation.
Entered == {w \in Busy : wk[w].entered}

\* The units that a published trial belongs to, and those that are still measured.
Started == {i \div UnitCount : i \in published.indices}
OpenUnits == {wk[w].unit : w \in Entered}

\* Every worker measures a unit of its own, and the trials that it published of it
\* are the first ones.
UnitsOwned ==
  /\ \A w \in Busy : wk[w].unit < next
  /\ \A v, w \in Busy : v # w => wk[v].unit # wk[w].unit
  /\ \A w \in Busy : \A k \in 0 .. UnitCount - 1 :
       wk[w].unit * UnitCount + k \in published.indices <=> k < wk[w].rot
  /\ \A i \in published.indices : i < next * UnitCount
  /\ R.units > 0 => next <= R.units

\* The counted trials are the published ones.
TrialsCounted ==
  /\ IsFiniteSet(published.indices)
  /\ counts.attempted = Cardinality(published.indices)

\* The trials of unfinished rotations that were all complete so far.
Pending == {x \in WorkerIds \X (1 .. UnitCount) :
              x[1] \in Entered /\ wk[x[1]].whole /\ x[2] <= wk[x[1]].rot}

CyclesCounted ==
  Plan.arrangement = "rotate" =>
    /\ counts.cycles = Cardinality(Started \ OpenUnits)
    /\ counts.complete >= UnitCount * counts.cyclesComplete + Cardinality(Pending)

\* The connections that are held, or disposed of and not yet reported.
Owed == {x \in WorkerIds \X Slots :
           IF x[1] \in Busy THEN wk[x[1]].held[x[2]] # "none" ELSE x[2] <= wk[x[1]].left}

ConnectionsBalance ==
  /\ counts.acquired = counts.closed + Cardinality(Owed)
  /\ \A w \in WorkerIds : wk[w].left <= PerWorker(Plan)

WorkInv == UnitsOwned /\ TrialsCounted /\ CyclesCounted

\* What every step keeps of the account.
Accounts == PrimedInv /\ WorkInv /\ ConnectionsBalance /\ remaining = Cardinality(Busy)

\* Nothing happens after Run returned.
Ended ==
  result # "none" =>
    /\ events = <<>> /\ result = Completion
    /\ \A w \in WorkerIds : wk[w].pc = "done"

ResultInv == Accounts /\ delivered \in Nat /\ Ended

-----------------------------------------------------------------------------
(* Units and indices *)

\* Products grow with their first factor.
LEMMA TimesMonotone ==
  ASSUME NEW n \in Nat, NEW a \in Nat, NEW b \in Nat, a < b
  PROVE  a * n + n <= b * n
<1>1. PICK d \in Nat : b = a + 1 + d
  BY b - a - 1 \in Nat, b = a + 1 + (b - a - 1)
<1>2. b * n = a * n + n + d * n
  BY <1>1
<1>3. d * n \in Nat /\ a * n \in Nat
  OBVIOUS
<1> QED
  BY <1>2, <1>3

\* An index is its unit and its place in it.
LEMMA UnitOfIndex ==
  ASSUME NEW n \in Nat \ {0}
  PROVE  /\ \A i \in Nat : /\ i \div n \in Nat /\ i % n \in 0 .. n - 1
                           /\ i = (i \div n) * n + (i % n)
         /\ \A u \in Nat : \A k \in 0 .. n - 1 : u * n + k \in Nat /\ (u * n + k) \div n = u
         /\ \A u, v \in Nat : \A k, m \in 0 .. n - 1 : u * n + k = v * n + m => u = v /\ k = m
<1>1. \A i \in Nat : /\ i \div n \in Nat /\ i % n \in 0 .. n - 1
                     /\ i = (i \div n) * n + (i % n)
  OBVIOUS
<1>2. ASSUME NEW u \in Nat, NEW v \in Nat, NEW k \in 0 .. n - 1, NEW m \in 0 .. n - 1,
             u * n + k = v * n + m
      PROVE  u = v /\ k = m
  <2>1. u * n \in Nat /\ v * n \in Nat
    OBVIOUS
  <2>2. CASE u < v
    <3>1. u * n + n <= v * n
      BY <2>2, TimesMonotone
    <3> QED
      BY <1>2, <2>1, <3>1
  <2>3. CASE v < u
    <3>1. v * n + n <= u * n
      BY <2>3, TimesMonotone
    <3> QED
      BY <1>2, <2>1, <3>1
  <2>4. CASE u = v
    BY <1>2, <2>1, <2>4
  <2> QED
    BY <2>2, <2>3, <2>4
<1>3. ASSUME NEW u \in Nat, NEW k \in 0 .. n - 1
      PROVE  u * n + k \in Nat /\ (u * n + k) \div n = u
  <2> DEFINE i == u * n + k
             q == i \div n
             m == i % n
  <2>1. i \in Nat
    <3>1. u * n \in Nat
      OBVIOUS
    <3> QED
      BY <3>1
  <2>2. q \in Nat /\ m \in 0 .. n - 1 /\ i = q * n + m
    BY <1>1, <2>1
  <2> HIDE DEF q, m
  <2>3. q = u
    BY <1>2, <2>2
  <2> QED
    BY <2>1, <2>3 DEF q
<1> QED
  BY <1>1, <1>2, <1>3


\* The types of what the account reads.
LEMMA AccountTyped ==
  ASSUME PrimedInv
  PROVE  /\ UnitCount \in Nat \ {0} /\ next \in Nat /\ published.indices \in SUBSET Nat
         /\ counts.acquired \in Nat /\ counts.closed \in Nat /\ counts.attempted \in Nat
         /\ counts.complete \in Nat /\ counts.cycles \in Nat /\ counts.cyclesComplete \in Nat
         /\ \A w \in WorkerIds :
              /\ wk[w] \in WorkerRec /\ wk[w].unit \in Nat /\ wk[w].rot \in Nat /\ wk[w].left \in Nat
              /\ wk[w].whole \in BOOLEAN /\ wk[w].entered \in BOOLEAN
              /\ wk[w].rot <= UnitCount
BY PlanSizes DEF PrimedInv, Typed, CountsRec, WorkerRec, Fit

\* A busy worker's unit is started once the worker published a trial of it.
LEMMA StartedUnits ==
  ASSUME PrimedInv, UnitsOwned
  PROVE  /\ Started \in SUBSET Nat /\ IsFiniteSet(Started)
         /\ \A w \in Busy : wk[w].unit \in Started <=> wk[w].rot > 0
<1> DEFINE n == UnitCount
           I == published.indices
<1>1. n \in Nat \ {0} /\ I \in SUBSET Nat /\ next \in Nat
  BY AccountTyped
<1>2. \A i \in I : i \div n \in 0 .. next - 1
  <2> TAKE i \in I
  <2>0. i \in Nat /\ i \div n \in Nat
    BY <1>1, UnitOfIndex
  <2> SUFFICES ASSUME i \div n >= next PROVE FALSE
    BY <1>1, <2>0
  <2>1. i < next * n /\ i \in Nat
    BY <1>1 DEF UnitsOwned
  <2> DEFINE q == i \div n
  <2>2. q \in Nat /\ i % n \in 0 .. n - 1 /\ i = q * n + (i % n)
    BY <1>1, <2>1, UnitOfIndex
  <2>3. next <= q
    OBVIOUS
  <2> HIDE DEF q
  <2>4. next * n <= q * n
    <3>1. CASE next = q
      <4>1. next * n \in Nat
        BY <1>1
      <4> QED
        BY <3>1, <4>1
    <3>2. CASE next < q
      <4>1. next * n + n <= q * n
        BY <1>1, <2>2, <3>2, TimesMonotone
      <4>2. next * n \in Nat /\ q * n \in Nat
        BY <1>1, <2>2
      <4> QED
        BY <1>1, <4>1, <4>2
    <3> QED
      BY <1>1, <2>2, <2>3, <3>1, <3>2
  <2>5. next * n \in Nat /\ q * n \in Nat
    BY <1>1, <2>2
  <2> QED
    BY <1>1, <2>1, <2>2, <2>4, <2>5
<1>3. Started \subseteq 0 .. next - 1
  BY <1>2 DEF Started
<1>4. IsFiniteSet(0 .. next - 1)
  BY <1>1, FS_Interval
<1>5. ASSUME NEW w \in Busy PROVE wk[w].unit \in Started <=> wk[w].rot > 0
  <2> DEFINE u == wk[w].unit
             r == wk[w].rot
  <2>1. u \in Nat /\ r \in Nat /\ \A k \in 0 .. n - 1 : u * n + k \in I <=> k < r
    BY AccountTyped DEF Busy, UnitsOwned
  <2> HIDE DEF u, r
  <2>2. ASSUME u \in Started PROVE r > 0
    <3>1. PICK i \in I : u = i \div n
      BY <2>2 DEF Started
    <3>2. i % n \in 0 .. n - 1 /\ i = u * n + (i % n)
      BY <1>1, <3>1, UnitOfIndex
    <3>3. i % n < r
      BY <2>1, <3>1, <3>2
    <3> QED
      BY <2>1, <3>2, <3>3
  <2>3. ASSUME r > 0 PROVE u \in Started
    <3>1. 0 \in 0 .. n - 1
      BY <1>1
    <3>2. u * n + 0 \in I /\ (u * n + 0) \div n = u
      BY <1>1, <2>1, <2>3, <3>1, UnitOfIndex
    <3> HIDE DEF n
    <3> QED
      BY <3>2 DEF Started, n
  <2> QED
    BY <2>2, <2>3 DEF u, r
<1>6. 0 .. next - 1 \subseteq Nat
  BY <1>1
<1>7. Started \in SUBSET Nat /\ IsFiniteSet(Started)
  BY <1>3, <1>4, <1>6, FS_Subset
<1> QED
  BY <1>5, <1>7


-----------------------------------------------------------------------------
(* The account of units *)
\* Every worker is where it was in its unit, or enters it.
UnitsStay ==
  /\ Busy' = Busy
  /\ \A w \in Busy :
       /\ wk'[w].unit = wk[w].unit /\ wk'[w].rot = wk[w].rot /\ wk'[w].whole = wk[w].whole
       /\ wk'[w].entered # wk[w].entered => wk'[w].entered /\ wk[w].rot = 0
  /\ UNCHANGED WorkBooks

LEMMA UnitsAsBefore ==
  ASSUME PrimedInv, PrimedInv', WorkInv, UnitsStay
  PROVE  WorkInv'
<1>1. /\ published'.indices = published.indices /\ next' = next
      /\ counts'.attempted = counts.attempted /\ counts'.complete = counts.complete
      /\ counts'.cycles = counts.cycles /\ counts'.cyclesComplete = counts.cyclesComplete
  BY DEF UnitsStay, WorkBooks
<1>2. UnitsOwned'
  <2>1. \A w \in Busy' : w \in Busy /\ wk'[w].unit = wk[w].unit /\ wk'[w].rot = wk[w].rot
    BY DEF UnitsStay
  <2> QED
    BY <1>1, <2>1 DEF WorkInv, UnitsOwned
<1>3. TrialsCounted'
  BY <1>1 DEF WorkInv, TrialsCounted
<1>4. Started' = Started
  BY <1>1 DEF Started
<1>5. Started \ OpenUnits' = Started \ OpenUnits
  <2>1. \A w \in Entered : w \in Entered' /\ wk'[w].unit = wk[w].unit
    <3>1. \A w \in Busy : wk'[w].entered \/ ~wk[w].entered
      BY AccountTyped DEF UnitsStay, Busy
    <3> QED
      BY <3>1 DEF Entered, UnitsStay
  <2>2. \A w \in Entered' : /\ w \in Busy /\ wk'[w].unit = wk[w].unit
                            /\ w \in Entered \/ wk[w].unit \notin Started
    <3>1. \A w \in Busy : wk[w].rot = 0 => wk[w].unit \notin Started
      BY StartedUnits DEF WorkInv
    <3>2. \A w \in Busy : wk'[w].entered => wk[w].entered \/ wk[w].rot = 0
      BY AccountTyped DEF UnitsStay, Busy
    <3> QED
      BY <3>1, <3>2 DEF Entered, UnitsStay
  <2>3. \A u : u \in OpenUnits => u \in OpenUnits'
    BY <2>1 DEF OpenUnits
  <2>4. \A u : u \in OpenUnits' => u \in OpenUnits \/ u \notin Started
    BY <2>2 DEF OpenUnits
  <2> QED
    BY <2>3, <2>4
<1>6. Pending' = Pending
  <2>1. ASSUME NEW w \in WorkerIds, NEW k \in 1 .. UnitCount
        PROVE  (w \in Entered' /\ wk'[w].whole /\ k <= wk'[w].rot)
                 <=> (w \in Entered /\ wk[w].whole /\ k <= wk[w].rot)
    <3>1. CASE w \in Busy
      <4>1. wk[w].rot = 0 => ~(k <= wk[w].rot)
        BY AccountTyped
      <4>2. wk'[w].rot = wk[w].rot /\ wk'[w].whole = wk[w].whole /\ w \in Busy'
        BY <3>1 DEF UnitsStay
      <4>3. wk[w].entered \in BOOLEAN /\ (wk'[w].entered # wk[w].entered => wk[w].rot = 0)
        BY <3>1, AccountTyped DEF UnitsStay
      <4>4. wk'[w].entered \in BOOLEAN
        BY DEF PrimedInv, Typed, WorkerRec
      <4> QED
        BY <3>1, <4>1, <4>2, <4>3, <4>4 DEF Entered
    <3>2. CASE w \notin Busy
      BY <3>2 DEF Entered, UnitsStay
    <3> QED
      BY <3>1, <3>2
  <2> QED
    BY <2>1 DEF Pending
<1>7. CyclesCounted'
  BY <1>1, <1>4, <1>5, <1>6 DEF WorkInv, CyclesCounted
<1> QED
  BY <1>2, <1>3, <1>7 DEF WorkInv


\* The pairs of Pending are finitely many.
LEMMA PendingFinite ==
  ASSUME PrimedInv
  PROVE  IsFiniteSet(Pending) /\ IsFiniteSet(WorkerIds)
<1>1. IsFiniteSet(WorkerIds)
  <2>1. \A k \in Nat : IsFiniteSet(0 .. k - 1)
    BY FS_Interval
  <2> QED
    BY <2>1, PlanSizes DEF WorkerIds
<1>2. IsFiniteSet(1 .. UnitCount)
  BY PlanSizes, FS_Interval
<1>3. IsFiniteSet(WorkerIds \X (1 .. UnitCount))
  BY <1>1, <1>2, FS_Product
<1> QED
  BY <1>1, <1>3, FS_Subset DEF Pending

\* A reported trial extends what its worker published of its unit.
LEMMA ReportCounted ==
  ASSUME PrimedInv, PrimedInv', WorkInv, NEW w \in WorkerIds, Reports(w)
  PROVE  WorkInv'
<1> DEFINE n == UnitCount
           I == published.indices
           u == wk[w].unit
           m == wk[w].rot
           i == u * n + m
<1>1. PICK r \in WorkerRec, complete \in BOOLEAN :
        /\ wk' = [wk EXCEPT ![w] = r]
        /\ wk[w].pc = "publish" /\ r.pc \in {"dispose", "unit", "take"}
        /\ wk[w].entered /\ wk[w].rot < UnitCount
        /\ r.unit = wk[w].unit /\ r.rot = wk[w].rot + 1 /\ r.entered
        /\ r.whole = (wk[w].whole /\ complete)
        /\ counts'.attempted = counts.attempted + 1
        /\ counts'.complete = counts.complete + IF complete THEN 1 ELSE 0
        /\ counts'.cycles = counts.cycles /\ counts'.cyclesComplete = counts.cyclesComplete
        /\ published'.indices = published.indices \cup {wk[w].unit * UnitCount + wk[w].rot}
        /\ next' = next
  BY DEF Reports, Sets
<1>2. /\ n \in Nat \ {0} /\ I \in SUBSET Nat /\ next \in Nat /\ u \in Nat /\ m \in Nat /\ m < n
      /\ counts.attempted \in Nat /\ counts.complete \in Nat /\ counts.cyclesComplete \in Nat
      /\ wk[w].whole \in BOOLEAN
  BY <1>1, AccountTyped
<1>3. /\ wk'[w] = r /\ \A v \in WorkerIds \ {w} : wk'[v] = wk[v]
  BY <1>1 DEF PrimedInv, Typed
<1>4. Busy' = Busy /\ Entered' = Entered /\ w \in Entered
  <2>1. w \in Busy /\ r.pc \notin Gone
    BY <1>1 DEF Busy, Gone
  <2>2. Busy' = Busy
    BY <1>3, <2>1 DEF Busy
  <2> QED
    BY <1>1, <1>3, <2>1, <2>2 DEF Entered
<1>5. w \in Busy /\ u < next /\ m \in 0 .. n - 1
  BY <1>2, <1>4 DEF Entered, WorkInv, UnitsOwned
<1>6. i \in Nat /\ i \notin I /\ i < next * n
  <2>1. i \in Nat
    BY <1>2, <1>5, UnitOfIndex
  <2>2. i \notin I
    BY <1>2, <1>5 DEF WorkInv, UnitsOwned
  <2>3. u * n + n <= next * n
    BY <1>2, <1>5, TimesMonotone
  <2>4. u * n \in Nat /\ next * n \in Nat
    BY <1>2
  <2> QED
    BY <1>2, <2>1, <2>2, <2>3, <2>4
<1>7. published'.indices = I \cup {i}
  BY <1>1
<1>8. UnitsOwned'
  <2>1. \A v \in Busy' : wk'[v].unit = wk[v].unit
    BY <1>1, <1>3 DEF Busy
  <2>2. ASSUME NEW v \in Busy', NEW k \in 0 .. n - 1
        PROVE  wk'[v].unit * n + k \in published'.indices <=> k < wk'[v].rot
    <3>1. v \in Busy /\ v \in WorkerIds
      BY <1>4 DEF Busy
    <3>2. wk[v].unit * n + k \in I <=> k < wk[v].rot
      BY <3>1 DEF WorkInv, UnitsOwned
    <3>3. wk[v].unit \in Nat /\ wk[v].rot \in Nat
      BY <3>1, AccountTyped
    <3>4. CASE v = w
      <4>1. u * n + k = i <=> k = m
        <5>1. u * n \in Nat
          BY <1>2
        <5> QED
          BY <1>2, <5>1
      <4>2. wk'[w].unit = u /\ wk'[w].rot = m + 1
        BY <1>1, <1>3
      <4>3. k < m + 1 <=> k < m \/ k = m
        BY <1>2
      <4> HIDE DEF n, i
      <4> QED
        BY <1>7, <3>2, <3>4, <4>1, <4>2, <4>3
    <3>5. CASE v # w
      <4>1. wk[v].unit # u
        BY <1>5, <3>1, <3>5 DEF WorkInv, UnitsOwned
      <4>2. wk[v].unit * n + k # i
        <5> DEFINE x == wk[v].unit
        <5>1. x \in Nat /\ x # u
          BY <3>3, <4>1
        <5>2. n \in Nat \ {0} /\ u \in Nat /\ m \in 0 .. n - 1
          BY <1>2, <1>5
        <5> HIDE DEF x, u, m, n, i
        <5>3. \A a, b \in Nat : \A c, d \in 0 .. n - 1 : a * n + c = b * n + d => a = b
          BY <5>2, UnitOfIndex
        <5>4. x * n + k = u * n + m => x = u
          BY <5>1, <5>2, <5>3, Zenon
        <5> QED
          BY <5>1, <5>4 DEF x, i
      <4>3. wk'[v] = wk[v]
        BY <1>3, <3>1, <3>5
      <4> QED
        BY <1>7, <3>2, <4>2, <4>3
    <3> QED
      BY <3>4, <3>5
  <2>3. \A j \in published'.indices : j < next' * n
    BY <1>1, <1>6, <1>7 DEF WorkInv, UnitsOwned
  <2>4. \A v \in Busy' : wk'[v].unit < next'
    BY <1>1, <1>4, <2>1 DEF WorkInv, UnitsOwned
  <2>5. \A v, x \in Busy' : v # x => wk'[v].unit # wk'[x].unit
    BY <1>4, <2>1 DEF WorkInv, UnitsOwned
  <2> QED
    BY <1>1, <2>2, <2>3, <2>4, <2>5 DEF WorkInv, UnitsOwned
<1>9. TrialsCounted'
  <2>1. IsFiniteSet(I) /\ counts.attempted = Cardinality(I)
    BY DEF WorkInv, TrialsCounted
  <2>2. IsFiniteSet(I \cup {i}) /\ Cardinality(I \cup {i}) = Cardinality(I) + 1
    BY <1>6, <2>1, FS_AddElement
  <2> QED
    BY <1>1, <1>7, <2>1, <2>2 DEF TrialsCounted
<1>10. Started' = Started \cup {u}
  <2>1. i \div n = u
    BY <1>2, <1>5, UnitOfIndex
  <2> HIDE DEF i, n
  <2> QED
    BY <1>7, <2>1 DEF Started, n
<1>11. OpenUnits' = OpenUnits /\ u \in OpenUnits
  <2>1. \A v \in Entered : wk'[v].unit = wk[v].unit
    BY <1>1, <1>3 DEF Entered, Busy
  <2> QED
    BY <1>4, <2>1 DEF OpenUnits
<1>12. counts'.complete >= n * counts'.cyclesComplete + Cardinality(Pending')
       \/ Plan.arrangement # "rotate"
  <2> SUFFICES ASSUME Plan.arrangement = "rotate"
               PROVE  counts'.complete >= n * counts.cyclesComplete + Cardinality(Pending')
    BY <1>1
  <2> DEFINE P == Pending
             x == <<w, m + 1>>
             a == n * counts.cyclesComplete
  <2>1. counts.complete >= a + Cardinality(P) /\ a \in Nat
    BY <1>2 DEF WorkInv, CyclesCounted
  <2>2. IsFiniteSet(P) /\ Cardinality(P) \in Nat
    BY PendingFinite, FS_CardinalityType
  <2>3. Pending' \subseteq P \cup (IF complete THEN {x} ELSE {})
    <3>1. ASSUME NEW y \in Pending' PROVE y \in P \/ (complete /\ y = x)
      <4>1. PICK v \in WorkerIds, k \in 1 .. n : y = <<v, k>> /\ v \in Entered /\ wk'[v].whole /\ k <= wk'[v].rot
        BY <1>4 DEF Pending
      <4>2. CASE v # w
        BY <1>3, <4>1, <4>2 DEF Pending
      <4>3. CASE v = w
        <5>1. wk[w].whole /\ complete /\ k <= m + 1
          BY <1>1, <1>2, <1>3, <4>1, <4>3
        <5>2. k = m + 1 \/ k <= m
          BY <1>2, <5>1
        <5> QED
          BY <4>1, <4>3, <5>1, <5>2 DEF Pending
      <4> QED
        BY <4>2, <4>3
    <3> QED
      BY <3>1
  <2> HIDE DEF x, P, a
  <2>4. CASE complete
    <3>1. IsFiniteSet(P \cup {x}) /\ Cardinality(P \cup {x}) <= Cardinality(P) + 1
      <4>1. /\ IsFiniteSet(P \cup {x})
            /\ Cardinality(P \cup {x}) = IF x \in P THEN Cardinality(P) ELSE Cardinality(P) + 1
        BY <2>2, FS_AddElement
      <4> DEFINE c == Cardinality(P)
      <4>2. c <= c + 1 /\ c + 1 <= c + 1
        BY <2>2
      <4> QED
        BY <4>1, <4>2
    <3>2. Cardinality(Pending') <= Cardinality(P \cup {x}) /\ Cardinality(Pending') \in Nat
          /\ Cardinality(P \cup {x}) \in Nat
      BY <2>3, <2>4, <3>1, FS_Subset, FS_CardinalityType
    <3> QED
      BY <1>1, <1>2, <2>1, <2>2, <2>4, <3>1, <3>2 DEF a
  <2>5. CASE ~complete
    <3>1. Cardinality(Pending') <= Cardinality(P) /\ Cardinality(Pending') \in Nat
      BY <2>2, <2>3, <2>5, FS_Subset, FS_CardinalityType
    <3> QED
      BY <1>1, <1>2, <2>1, <2>2, <2>5, <3>1 DEF a
  <2> QED
    BY <2>4, <2>5
<1>13. CyclesCounted'
  <2>1. Started' \ OpenUnits' = Started \ OpenUnits
    BY <1>10, <1>11
  <2> QED
    BY <1>1, <1>12, <2>1 DEF WorkInv, CyclesCounted
<1> QED
  BY <1>8, <1>9, <1>13 DEF WorkInv


\* A worker leaves its unit, and the rotation that it entered is counted.
Leaves(w) ==
  /\ w \in Busy /\ Busy' \subseteq Busy /\ Entered' = Entered \ {w}
  /\ \A v \in WorkerIds \ {w} : wk'[v] = wk[v]
  /\ wk[w].entered => wk[w].rot > 0
  /\ Settles(wk[w]) /\ published' = published

LEMMA RotationCounted ==
  ASSUME PrimedInv, WorkInv, NEW w \in WorkerIds, Leaves(w)
  PROVE  TrialsCounted' /\ CyclesCounted'
<1> DEFINE n == UnitCount
           u == wk[w].unit
           full == Rotation(wk[w]) /\ wk[w].whole /\ wk[w].rot = UnitCount
           S == Started \ OpenUnits
           P == Pending
           D == {w} \X (1 .. n)
           c == counts.cyclesComplete
<1>1. /\ published' = published /\ wk[w].entered \in BOOLEAN /\ wk[w].rot \in Nat
      /\ counts'.attempted = counts.attempted /\ counts'.complete = counts.complete
      /\ counts'.cycles = counts.cycles + IF Rotation(wk[w]) THEN 1 ELSE 0
      /\ counts'.cyclesComplete = c + IF full THEN 1 ELSE 0
      /\ c \in Nat /\ counts.complete \in Nat /\ n \in Nat \ {0}
  BY AccountTyped DEF Leaves, Settles
<1>2. TrialsCounted'
  BY <1>1 DEF WorkInv, TrialsCounted
<1>3. Started' = Started
  BY <1>1 DEF Started
<1>4. \A v \in Entered' : v \in Entered /\ v # w /\ wk'[v] = wk[v]
  BY DEF Leaves, Entered, Busy
<1>5. ASSUME Plan.arrangement = "rotate"
      PROVE  counts'.cycles = Cardinality(Started' \ OpenUnits')
  <2>1. counts.cycles = Cardinality(S) /\ IsFiniteSet(S)
    BY <1>5, StartedUnits, FS_Difference DEF WorkInv, CyclesCounted
  <2>2. CASE wk[w].entered
    <3>1. w \in Entered /\ u \in Started /\ u \in OpenUnits
      BY <2>2, StartedUnits DEF Leaves, Entered, OpenUnits, WorkInv
    <3>2. u \notin OpenUnits'
      <4>1. \A v \in Entered : v # w => wk[v].unit # u
        BY DEF WorkInv, UnitsOwned, Entered, Leaves
      <4> QED
        BY <1>4, <4>1 DEF OpenUnits
    <3>3. \A x : x \in OpenUnits' => x \in OpenUnits
      BY <1>4 DEF OpenUnits
    <3>4. \A x : x \in OpenUnits => x \in OpenUnits' \/ x = u
      <4>1. \A v \in Entered : v = w \/ (v \in Entered' /\ wk'[v] = wk[v])
        BY <1>4 DEF Leaves
      <4> QED
        BY <4>1 DEF OpenUnits
    <3>5. Started \ OpenUnits' = S \cup {u} /\ u \notin S
      BY <3>1, <3>2, <3>3, <3>4
    <3>6. Cardinality(S \cup {u}) = Cardinality(S) + 1
      BY <2>1, <3>5, FS_AddElement
    <3>7. Rotation(wk[w])
      BY <1>5, <2>2 DEF Rotation
    <3> QED
      BY <1>1, <1>3, <2>1, <3>5, <3>6, <3>7
  <2>3. CASE ~wk[w].entered
    <3>1. Entered' = Entered
      BY <2>3 DEF Leaves, Entered
    <3>2. OpenUnits' = OpenUnits
      BY <1>4, <3>1 DEF OpenUnits
    <3>3. ~Rotation(wk[w]) /\ counts.cycles \in Nat
      BY <2>3, AccountTyped DEF Rotation
    <3> QED
      BY <1>1, <1>3, <2>1, <3>2, <3>3
  <2> QED
    BY <1>1, <2>2, <2>3
<1>6. ASSUME Plan.arrangement = "rotate"
      PROVE  counts'.complete >= n * counts'.cyclesComplete + Cardinality(Pending')
  <2>1. counts.complete >= n * c + Cardinality(P) /\ IsFiniteSet(P) /\ Cardinality(P) \in Nat
    BY <1>6, PendingFinite, FS_CardinalityType DEF WorkInv, CyclesCounted
  <2>2. \A y \in Pending' : y \in P /\ y \notin D
    BY <1>4 DEF Pending
  <2>3. CASE full
    <3>1. D \subseteq P
      BY <2>3 DEF Rotation, Leaves, Entered, Pending
    <3>2. IsFiniteSet(D) /\ Cardinality(D) = n
      <4>1. IsFiniteSet({w}) /\ Cardinality({w}) = 1
        BY FS_Singleton
      <4>2. \A k \in Nat \ {0} : IsFiniteSet(1 .. k) /\ Cardinality(1 .. k) = k
        BY FS_Interval
      <4> DEFINE T == 1 .. n
      <4>3. IsFiniteSet(T) /\ Cardinality(T) = n
        BY <1>1, <4>2
      <4> HIDE DEF T
      <4>4. IsFiniteSet({w} \X T) /\ Cardinality({w} \X T) = Cardinality({w}) * Cardinality(T)
        BY <4>1, <4>3, FS_Product
      <4>5. 1 * n = n
        BY <1>1
      <4> QED
        BY <4>1, <4>3, <4>4, <4>5 DEF T
    <3>3. Pending' \subseteq P \ D
      BY <2>2
    <3> HIDE DEF P, D
    <3>4. IsFiniteSet(P \ D) /\ Cardinality(P \ D) = Cardinality(P) - Cardinality(P \cap D)
      BY <2>1, FS_Difference
    <3>5. P \cap D = D
      BY <3>1
    <3>6. Cardinality(Pending') <= Cardinality(P \ D) /\ Cardinality(Pending') \in Nat
      BY <3>3, <3>4, FS_Subset, FS_CardinalityType
    <3>7. n * (c + 1) = n * c + n /\ n * c \in Nat
      BY <1>1
    <3>8. counts'.cyclesComplete = c + 1 /\ counts'.complete = counts.complete
      BY <1>1, <2>3
    <3>9. Cardinality(P \ D) = Cardinality(P) - n
      BY <3>2, <3>4, <3>5
    <3> DEFINE p == Cardinality(P)
               x == Cardinality(Pending')
               a == n * c
               b == n * (c + 1)
    <3>10. x <= p - n /\ x \in Nat /\ p \in Nat /\ a \in Nat /\ b = a + n /\ counts.complete >= a + p
      BY <2>1, <3>6, <3>7, <3>9
    <3>11. counts.complete \in Nat /\ n \in Nat
      BY <1>1
    <3> HIDE DEF p, x, a, b, n, c
    <3>12. counts.complete >= b + x
      BY <3>10, <3>11
    <3> QED
      BY <3>8, <3>12 DEF b, x, n, c
  <2>4. CASE ~full
    <3>1. Pending' \subseteq P
      BY <2>2
    <3> HIDE DEF P, D
    <3>2. Cardinality(Pending') <= Cardinality(P) /\ Cardinality(Pending') \in Nat
      BY <2>1, <3>1, FS_Subset, FS_CardinalityType
    <3>3. n * c \in Nat /\ c + 0 = c
      BY <1>1
    <3> HIDE DEF n, c, full
    <3> QED
      BY <1>1, <2>1, <2>4, <3>2, <3>3
  <2> QED
    BY <2>3, <2>4
<1> QED
  BY <1>2, <1>5, <1>6 DEF CyclesCounted


LEMMA TakeCounted ==
  ASSUME PrimedInv, WorkInv, NEW w \in WorkerIds, Takes(w)
  PROVE  WorkInv'
<1> DEFINE n == UnitCount
           I == published.indices
<1>1. PICK r \in WorkerRec :
        /\ wk' = [wk EXCEPT ![w] = r] /\ Settles(wk[w]) /\ ~r.entered
        /\ wk[w].pc = "take" /\ r.pc \in {"unit", "dispose"}
        /\ \/ r.unit = wk[w].unit /\ r.rot = wk[w].rot /\ next' = next
           \/ /\ r.unit = next /\ r.rot = 0 /\ next' = next + 1
              /\ R.units > 0 => next < R.units
        /\ published' = published
  BY DEF Takes, Sets
<1>2. /\ wk'[w] = r /\ \A v \in WorkerIds \ {w} : wk'[v] = wk[v]
  BY <1>1 DEF PrimedInv, Typed
<1>3. w \in Busy /\ Busy' = Busy
  BY <1>1, <1>2 DEF Busy, Gone
<1>4. Entered' = Entered \ {w}
  BY <1>1, <1>2, <1>3 DEF Entered, Busy
<1>5. wk[w].entered => wk[w].rot > 0
  <2>1. wk[w].rot \in Nat /\ Fit(wk[w], published.phases)
    BY AccountTyped DEF PrimedInv
  <2> QED
    BY <1>1, <2>1 DEF Fit
<1>6. TrialsCounted' /\ CyclesCounted'
  BY <1>1, <1>2, <1>3, <1>4, <1>5, RotationCounted DEF Leaves
<1>7. /\ n \in Nat \ {0} /\ I \in SUBSET Nat /\ next \in Nat /\ R.units \in Nat
      /\ \A v \in Busy : v \in WorkerIds /\ wk[v].unit \in Nat /\ wk[v].rot \in Nat
  BY AccountTyped, PlanSizes DEF Busy
<1>8. CASE r.unit = wk[w].unit /\ r.rot = wk[w].rot /\ next' = next
  <2>1. \A v \in Busy' : v \in Busy /\ wk'[v].unit = wk[v].unit /\ wk'[v].rot = wk[v].rot
    BY <1>2, <1>3, <1>8 DEF Busy
  <2>2. UnitsOwned'
    BY <1>1, <1>8, <2>1 DEF WorkInv, UnitsOwned
  <2> QED
    BY <1>6, <2>2 DEF WorkInv
<1>9. CASE /\ r.unit = next /\ r.rot = 0 /\ next' = next + 1
           /\ R.units > 0 => next < R.units
  <2>1. \A v \in Busy' \ {w} : v \in Busy /\ wk'[v] = wk[v] /\ wk[v].unit < next
    BY <1>2, <1>3 DEF WorkInv, UnitsOwned, Busy
  <2>2. \A v \in Busy' : wk'[v].unit < next'
    BY <1>2, <1>3, <1>7, <1>9, <2>1
  <2>3. \A v, x \in Busy' : v # x => wk'[v].unit # wk'[x].unit
    <3>1. \A v \in Busy' \ {w} : wk'[v].unit # next
      BY <1>7, <2>1
    <3>2. \A v, x \in Busy' \ {w} : v # x => wk'[v].unit # wk'[x].unit
      BY <2>1 DEF WorkInv, UnitsOwned
    <3> QED
      BY <1>2, <1>9, <3>1, <3>2
  <2>4. ASSUME NEW v \in Busy', NEW k \in 0 .. n - 1
        PROVE  wk'[v].unit * n + k \in I <=> k < wk'[v].rot
    <3>1. CASE v # w
      BY <2>1, <3>1 DEF WorkInv, UnitsOwned
    <3>2. CASE v = w
      <4>1. next * n \in Nat
        BY <1>7
      <4>2. ~(next * n + k < next * n) /\ ~(k < 0)
        BY <1>7, <4>1
      <4>3. next * n + k \notin I
        BY <4>2 DEF WorkInv, UnitsOwned
      <4> QED
        BY <1>2, <1>9, <3>2, <4>2, <4>3
    <3> QED
      BY <3>1, <3>2
  <2>5. \A i \in I : i < next' * n
    <3>1. next' * n = next * n + n /\ next * n \in Nat
      BY <1>7, <1>9
    <3> QED
      BY <1>7, <3>1 DEF WorkInv, UnitsOwned
  <2>6. R.units > 0 => next' <= R.units
    BY <1>7, <1>9
  <2>7. UnitsOwned'
    BY <1>1, <2>2, <2>3, <2>4, <2>5, <2>6 DEF UnitsOwned
  <2> QED
    BY <1>6, <2>7 DEF WorkInv
<1> QED
  BY <1>1, <1>8, <1>9

LEMMA DisposeCounted ==
  ASSUME PrimedInv, WorkInv, NEW w \in WorkerIds, Disposes(w)
  PROVE  WorkInv' /\ w \in Busy /\ Busy' = Busy \ {w}
<1>1. PICK r \in WorkerRec :
        /\ wk' = [wk EXCEPT ![w] = r] /\ Settles(wk[w]) /\ wk[w].pc = "dispose" /\ r.pc = "report"
        /\ published' = published /\ next' = next
  BY DEF Disposes, Sets
<1>2. /\ wk'[w] = r /\ \A v \in WorkerIds \ {w} : wk'[v] = wk[v]
  BY <1>1 DEF PrimedInv, Typed
<1>3. w \in Busy /\ Busy' = Busy \ {w}
  BY <1>1, <1>2 DEF Busy, Gone
<1>4. Entered' = Entered \ {w}
  BY <1>2, <1>3 DEF Entered, Busy
<1>5. wk[w].entered => wk[w].rot > 0
  <2>1. wk[w].rot \in Nat /\ Fit(wk[w], published.phases)
    BY AccountTyped DEF PrimedInv
  <2> QED
    BY <1>1, <2>1 DEF Fit
<1>6. TrialsCounted' /\ CyclesCounted'
  BY <1>1, <1>2, <1>3, <1>4, <1>5, RotationCounted DEF Leaves
<1>7. \A v \in Busy' : v \in Busy /\ wk'[v] = wk[v]
  BY <1>2, <1>3 DEF Busy
<1>8. UnitsOwned'
  BY <1>1, <1>7 DEF WorkInv, UnitsOwned
<1> QED
  BY <1>3, <1>6, <1>8 DEF WorkInv


-----------------------------------------------------------------------------
(* The account of connections *)

\* Nobody's connections change hands.
SlotsStay ==
  /\ Busy' = Busy
  /\ \A w \in WorkerIds : wk'[w].left = wk[w].left
  /\ \A w \in Busy : \A s \in Slots : wk'[w].held[s] = "none" <=> wk[w].held[s] = "none"
  /\ UNCHANGED SlotBooks

LEMMA SlotsAsBefore ==
  ASSUME PrimedInv, ConnectionsBalance, SlotsStay
  PROVE  ConnectionsBalance'
<1>1. Owed' = Owed
  <2>1. ASSUME NEW w \in WorkerIds, NEW s \in Slots
        PROVE  (IF w \in Busy' THEN wk'[w].held[s] # "none" ELSE s <= wk'[w].left)
                 <=> (IF w \in Busy THEN wk[w].held[s] # "none" ELSE s <= wk[w].left)
    BY DEF SlotsStay
  <2> QED
    BY <2>1 DEF Owed
<1>2. counts'.acquired = counts.acquired /\ counts'.closed = counts.closed
  BY DEF SlotsStay, SlotBooks
<1> QED
  BY <1>1, <1>2 DEF ConnectionsBalance, SlotsStay

LEMMA OwedFinite ==
  /\ IsFiniteSet(WorkerIds \X Slots) /\ IsFiniteSet(Owed) /\ Cardinality(Owed) \in Nat
<1>1. IsFiniteSet(WorkerIds)
  <2>1. \A k \in Nat : IsFiniteSet(0 .. k - 1)
    BY FS_Interval
  <2> QED
    BY <2>1, PlanSizes DEF WorkerIds
<1>2. IsFiniteSet(WorkerIds \X Slots)
  BY <1>1, PlanSizes, FS_Product
<1>3. IsFiniteSet(Owed)
  BY <1>2, FS_Subset DEF Owed
<1> QED
  BY <1>2, <1>3, FS_CardinalityType

\* One worker's slots change: the others owe what they owed.
LEMMA OthersOwe ==
  ASSUME PrimedInv, NEW w \in WorkerIds, NEW r \in WorkerRec, Sets(w, r),
         \/ w \in Busy /\ r.pc \notin Gone
         \/ w \notin Busy /\ r.pc \in Gone
  PROVE  /\ Busy' = Busy /\ wk'[w] = r
         /\ \A v \in WorkerIds \ {w} : wk'[v] = wk[v]
         /\ \A v \in WorkerIds \ {w}, s \in Slots : <<v, s>> \in Owed' <=> <<v, s>> \in Owed
<1>1. wk'[w] = r /\ \A v \in WorkerIds \ {w} : wk'[v] = wk[v]
  BY DEF PrimedInv, Typed, Sets
<1>2. Busy' = Busy
  BY <1>1 DEF Busy
<1>3. \A v \in WorkerIds \ {w}, s \in Slots : <<v, s>> \in Owed' <=> <<v, s>> \in Owed
  BY <1>1, <1>2 DEF Owed
<1> QED
  BY <1>1, <1>2, <1>3

LEMMA ReplaceBalanced ==
  ASSUME PrimedInv, ConnectionsBalance, NEW w \in WorkerIds, Replaces(w)
  PROVE  ConnectionsBalance' /\ UnitsStay
<1>1. PICK s \in Slots, r \in WorkerRec :
        /\ Sets(w, r) /\ UnitKept(wk[w], r) /\ r.left = wk[w].left
        /\ wk[w].held[s] # "none" /\ r.held[s] = "none"
        /\ \A t \in Slots \ {s} : r.held[t] = "none" <=> wk[w].held[t] = "none"
        /\ counts'.closed = counts.closed + 1 /\ counts'.acquired = counts.acquired
        /\ UNCHANGED <<WorkBooks, EndBooks>>
  BY DEF Replaces
<1>2. w \in Busy /\ r.pc \notin Gone
  BY <1>1 DEF UnitKept, Busy
<1>3. /\ Busy' = Busy /\ wk'[w] = r
      /\ \A v \in WorkerIds \ {w} : wk'[v] = wk[v]
      /\ \A v \in WorkerIds \ {w}, t \in Slots : <<v, t>> \in Owed' <=> <<v, t>> \in Owed
  BY <1>1, <1>2, OthersOwe
<1>4. \A t \in Slots : /\ <<w, t>> \in Owed <=> wk[w].held[t] # "none"
                       /\ <<w, t>> \in Owed' <=> r.held[t] # "none"
  BY <1>2, <1>3 DEF Owed
<1>5. Owed' = Owed \ {<<w, s>>} /\ <<w, s>> \in Owed
  <2>1. \A v \in WorkerIds, t \in Slots : <<v, t>> \in Owed' <=> <<v, t>> \in Owed /\ <<v, t>> # <<w, s>>
    BY <1>1, <1>3, <1>4
  <2>2. Owed \subseteq WorkerIds \X Slots /\ Owed' \subseteq WorkerIds \X Slots
    BY DEF Owed
  <2>3. \A x \in WorkerIds \X Slots : x \in Owed' <=> x \in Owed /\ x # <<w, s>>
    BY <2>1
  <2> QED
    BY <1>1, <1>4, <2>2, <2>3
<1>6. Cardinality(Owed') = Cardinality(Owed) - 1
  BY <1>5, OwedFinite, FS_RemoveElement
<1>7. ConnectionsBalance'
  <2>1. counts.acquired \in Nat /\ counts.closed \in Nat /\ Cardinality(Owed) \in Nat
    BY AccountTyped, OwedFinite
  <2>2. \A v \in WorkerIds : wk'[v].left = wk[v].left
    BY <1>1, <1>3
  <2> QED
    BY <1>1, <1>6, <2>1, <2>2 DEF ConnectionsBalance
<1>8. UnitsStay
  BY <1>1, <1>3 DEF UnitsStay, UnitKept, Busy
<1> QED
  BY <1>7, <1>8

LEMMA DialBalanced ==
  ASSUME PrimedInv, ConnectionsBalance, NEW w \in WorkerIds, Dials(w)
  PROVE  ConnectionsBalance' /\ UnitsStay
<1>1. PICK s \in Slots, r \in WorkerRec :
        /\ Sets(w, r) /\ UnitKept(wk[w], r) /\ r.left = wk[w].left
        /\ wk[w].held[s] = "none" /\ r.held[s] # "none"
        /\ \A t \in Slots \ {s} : r.held[t] = "none" <=> wk[w].held[t] = "none"
        /\ counts'.acquired = counts.acquired + 1 /\ counts'.closed = counts.closed
        /\ UNCHANGED <<WorkBooks, EndBooks>>
  BY DEF Dials
<1>2. w \in Busy /\ r.pc \notin Gone
  BY <1>1 DEF UnitKept, Busy
<1>3. /\ Busy' = Busy /\ wk'[w] = r
      /\ \A v \in WorkerIds \ {w} : wk'[v] = wk[v]
      /\ \A v \in WorkerIds \ {w}, t \in Slots : <<v, t>> \in Owed' <=> <<v, t>> \in Owed
  BY <1>1, <1>2, OthersOwe
<1>4. \A t \in Slots : /\ <<w, t>> \in Owed <=> wk[w].held[t] # "none"
                       /\ <<w, t>> \in Owed' <=> r.held[t] # "none"
  BY <1>2, <1>3 DEF Owed
<1>5. Owed' = Owed \cup {<<w, s>>} /\ <<w, s>> \notin Owed
  <2>1. \A v \in WorkerIds, t \in Slots : <<v, t>> \in Owed' <=> <<v, t>> \in Owed \/ <<v, t>> = <<w, s>>
    BY <1>1, <1>3, <1>4
  <2>2. /\ Owed \subseteq WorkerIds \X Slots /\ Owed' \subseteq WorkerIds \X Slots
        /\ <<w, s>> \in WorkerIds \X Slots
    BY DEF Owed
  <2>3. \A x \in WorkerIds \X Slots : x \in Owed' <=> x \in Owed \/ x = <<w, s>>
    BY <2>1
  <2> QED
    BY <1>1, <1>4, <2>2, <2>3
<1>6. Cardinality(Owed') = Cardinality(Owed) + 1
  BY <1>5, OwedFinite, FS_AddElement
<1>7. ConnectionsBalance'
  <2>1. counts.acquired \in Nat /\ counts.closed \in Nat /\ Cardinality(Owed) \in Nat
    BY AccountTyped, OwedFinite
  <2>2. \A v \in WorkerIds : wk'[v].left = wk[v].left
    BY <1>1, <1>3
  <2> QED
    BY <1>1, <1>6, <2>1, <2>2 DEF ConnectionsBalance
<1>8. UnitsStay
  BY <1>1, <1>3 DEF UnitsStay, UnitKept, Busy
<1> QED
  BY <1>7, <1>8

LEMMA CloseBalanced ==
  ASSUME PrimedInv, ConnectionsBalance, NEW w \in WorkerIds, Closes(w)
  PROVE  ConnectionsBalance' /\ UnitsStay
<1>1. PICK r \in WorkerRec :
        /\ Sets(w, r) /\ wk[w].pc = "report" /\ r.pc \in Gone
        /\ \/ /\ wk[w].left > 0 /\ r.left = wk[w].left - 1
              /\ counts'.closed = counts.closed + 1 /\ counts'.acquired = counts.acquired
           \/ r.left = wk[w].left /\ UNCHANGED SlotBooks
        /\ UNCHANGED <<WorkBooks, EndBooks>>
  BY DEF Closes
<1>2. w \notin Busy
  BY <1>1 DEF Busy, Gone
<1>3. /\ Busy' = Busy /\ wk'[w] = r
      /\ \A v \in WorkerIds \ {w} : wk'[v] = wk[v]
      /\ \A v \in WorkerIds \ {w}, t \in Slots : <<v, t>> \in Owed' <=> <<v, t>> \in Owed
  BY <1>1, <1>2, OthersOwe
<1>4. UnitsStay
  <2>1. \A v \in Busy : wk'[v] = wk[v]
    BY <1>2, <1>3 DEF Busy
  <2> QED
    BY <1>1, <1>3, <2>1 DEF UnitsStay
<1>5. CASE r.left = wk[w].left /\ UNCHANGED SlotBooks
  <2>1. \A v \in Busy : wk'[v] = wk[v]
    BY <1>2, <1>3 DEF Busy
  <2>2. SlotsStay
    BY <1>3, <1>5, <2>1 DEF SlotsStay
  <2> QED
    BY <1>4, <2>2, SlotsAsBefore
<1>6. CASE /\ wk[w].left > 0 /\ r.left = wk[w].left - 1
           /\ counts'.closed = counts.closed + 1 /\ counts'.acquired = counts.acquired
  <2> DEFINE s == wk[w].left
  <2>1. s \in Nat /\ s > 0 /\ s <= PerWorker(Plan) /\ PerWorker(Plan) \in Nat
    BY <1>6, AccountTyped, PlanSizes DEF ConnectionsBalance
  <2>2. s \in Slots
    BY <2>1 DEF Slots
  <2>3. \A t \in Slots : /\ <<w, t>> \in Owed <=> t <= s
                         /\ <<w, t>> \in Owed' <=> t <= s - 1
    BY <1>2, <1>3, <1>6 DEF Owed
  <2>4. \A t \in Slots : t <= s - 1 <=> t <= s /\ t # s
    <3>1. \A t \in Slots : t \in Nat
      BY PlanSizes
    <3> QED
      BY <2>1, <3>1
  <2> HIDE DEF s
  <2>5. Owed' = Owed \ {<<w, s>>} /\ <<w, s>> \in Owed
    <3>1. \A v \in WorkerIds, t \in Slots : <<v, t>> \in Owed' <=> <<v, t>> \in Owed /\ <<v, t>> # <<w, s>>
      BY <1>3, <2>3, <2>4
    <3>2. Owed \subseteq WorkerIds \X Slots /\ Owed' \subseteq WorkerIds \X Slots
      BY DEF Owed
    <3>3. \A x \in WorkerIds \X Slots : x \in Owed' <=> x \in Owed /\ x # <<w, s>>
      BY <3>1
    <3> QED
      BY <2>1, <2>2, <2>3, <3>2, <3>3
  <2>6. Cardinality(Owed') = Cardinality(Owed) - 1
    BY <2>5, OwedFinite, FS_RemoveElement
  <2>7. ConnectionsBalance'
    <3>1. /\ counts.acquired \in Nat /\ counts.closed \in Nat /\ Cardinality(Owed) \in Nat
      BY AccountTyped, OwedFinite
    <3>2. \A v \in WorkerIds : wk'[v].left <= PerWorker(Plan)
      BY <1>3, <1>6, <2>1 DEF ConnectionsBalance, s
    <3> QED
      BY <1>6, <2>6, <3>1, <3>2 DEF ConnectionsBalance
  <2> QED
    BY <1>4, <2>7
<1> QED
  BY <1>1, <1>5, <1>6


\* What one worker owes counts as much as its slots.
LEMMA OwnPairs ==
  ASSUME NEW w, NEW A, IsFiniteSet(A), NEW B, IsFiniteSet(B), B \cap ({w} \X A) = {}
  PROVE  Cardinality(B \cup ({w} \X A)) = Cardinality(B) + Cardinality(A)
<1>1. IsFiniteSet({w}) /\ Cardinality({w}) = 1
  BY FS_Singleton
<1>2. IsFiniteSet({w} \X A) /\ Cardinality({w} \X A) = 1 * Cardinality(A)
  BY <1>1, FS_Product
<1>3. Cardinality(A) \in Nat /\ Cardinality(B) \in Nat
  BY FS_CardinalityType
<1>4. Cardinality(B \cap ({w} \X A)) = 0
  BY FS_EmptySet
<1>5. Cardinality(B \cup ({w} \X A))
        = Cardinality(B) + Cardinality({w} \X A) - Cardinality(B \cap ({w} \X A))
  BY <1>2, FS_Union
<1> QED
  BY <1>2, <1>3, <1>4, <1>5

LEMMA DisposeBalanced ==
  ASSUME PrimedInv, ConnectionsBalance, NEW w \in WorkerIds, Disposes(w)
  PROVE  ConnectionsBalance'
<1> DEFINE A == {s \in Slots : wk[w].held[s] # "none"}
           k == Cardinality(A)
           B == 1 .. k
           Rest == {x \in Owed : x[1] # w}
<1>1. PICK r \in WorkerRec :
        /\ wk' = [wk EXCEPT ![w] = r] /\ Settles(wk[w]) /\ wk[w].pc = "dispose" /\ r.pc = "report"
        /\ r.left = k
  BY DEF Disposes, Sets
<1>2. /\ wk'[w] = r /\ \A v \in WorkerIds \ {w} : wk'[v] = wk[v]
  BY <1>1 DEF PrimedInv, Typed
<1>3. w \in Busy /\ Busy' = Busy \ {w}
  BY <1>1, <1>2 DEF Busy, Gone
<1>4. IsFiniteSet(A) /\ k \in Nat /\ k <= PerWorker(Plan) /\ PerWorker(Plan) \in Nat
  <2>1. \A p \in Nat \ {0} : Cardinality(1 .. p) = p
    BY FS_Interval
  <2>2. Cardinality(Slots) = PerWorker(Plan) /\ IsFiniteSet(Slots)
    BY <2>1, PlanSizes DEF Slots
  <2>3. IsFiniteSet(A) /\ Cardinality(A) <= Cardinality(Slots)
    BY <2>2, FS_Subset
  <2> QED
    BY <2>2, <2>3, PlanSizes, FS_CardinalityType
<1>5. IsFiniteSet(B) /\ Cardinality(B) = k
  <2>1. \A p \in Nat : IsFiniteSet(1 .. p) /\ Cardinality(1 .. p) = p
    BY FS_Interval
  <2> QED
    BY <1>4, <2>1
<1>6. \A s \in Slots : s \in B <=> s <= k
  BY <1>4 DEF Slots
<1>7. B \subseteq Slots
  BY <1>4 DEF Slots
<1>8. A \subseteq Slots /\ \A s \in Slots : s \in A <=> wk[w].held[s] # "none"
  OBVIOUS
<1> HIDE DEF A, k, B
<1>9. Owed = Rest \cup ({w} \X A) /\ Rest \cap ({w} \X A) = {}
  <2>1. \A s \in Slots : <<w, s>> \in Owed <=> s \in A
    BY <1>3, <1>8 DEF Owed
  <2>2. \A v \in WorkerIds, s \in Slots :
          <<v, s>> \in Owed <=> <<v, s>> \in Rest \/ <<v, s>> \in {w} \X A
    BY <2>1
  <2>3. Owed \subseteq WorkerIds \X Slots /\ Rest \subseteq Owed /\ {w} \X A \subseteq WorkerIds \X Slots
    BY <1>8 DEF Owed
  <2>4. \A x \in WorkerIds \X Slots : x \in Owed <=> x \in Rest \/ x \in {w} \X A
    BY <2>2
  <2>5. \A x \in Rest : x[1] # w
    OBVIOUS
  <2>6. \A x \in {w} \X A : x[1] = w
    OBVIOUS
  <2> QED
    BY <2>3, <2>4, <2>5, <2>6
<1>10. Owed' = Rest \cup ({w} \X B) /\ Rest \cap ({w} \X B) = {}
  <2>1. \A s \in Slots : <<w, s>> \in Owed' <=> s \in B
    BY <1>1, <1>2, <1>3, <1>6 DEF Owed
  <2>2. \A v \in WorkerIds \ {w}, s \in Slots : <<v, s>> \in Owed' <=> <<v, s>> \in Owed
    BY <1>2, <1>3 DEF Owed
  <2>3. \A v \in WorkerIds, s \in Slots :
          <<v, s>> \in Owed' <=> <<v, s>> \in Rest \/ <<v, s>> \in {w} \X B
    BY <2>1, <2>2
  <2>4. Owed' \subseteq WorkerIds \X Slots /\ Rest \subseteq WorkerIds \X Slots
        /\ {w} \X B \subseteq WorkerIds \X Slots
    BY <1>7 DEF Owed
  <2>5. \A x \in WorkerIds \X Slots : x \in Owed' <=> x \in Rest \/ x \in {w} \X B
    BY <2>3
  <2>6. \A x \in Rest : x[1] # w
    OBVIOUS
  <2>7. \A x \in {w} \X B : x[1] = w
    OBVIOUS
  <2> QED
    BY <2>4, <2>5, <2>6, <2>7
<1>11. IsFiniteSet(Rest)
  BY OwedFinite, FS_Subset
<1> HIDE DEF Rest
<1>12. Cardinality(Owed') = Cardinality(Owed)
  <2>1. Cardinality(Rest \cup ({w} \X A)) = Cardinality(Rest) + Cardinality(A)
    BY <1>4, <1>9, <1>11, OwnPairs, ZenonT(40)
  <2>2. Cardinality(Rest \cup ({w} \X B)) = Cardinality(Rest) + Cardinality(B)
    BY <1>5, <1>10, <1>11, OwnPairs, ZenonT(40)
  <2>3. Cardinality(A) = Cardinality(B)
    BY <1>5 DEF k
  <2> QED
    BY <1>9, <1>10, <2>1, <2>2, <2>3
<1>13. \A v \in WorkerIds : wk'[v].left <= PerWorker(Plan)
  BY <1>1, <1>2, <1>4 DEF ConnectionsBalance
<1> QED
  BY <1>1, <1>12, <1>13 DEF ConnectionsBalance, Settles


-----------------------------------------------------------------------------
(* The end of the run *)

LEMMA CalmStays ==
  ASSUME Calm
  PROVE  UnitsStay /\ SlotsStay
<1>1. Busy' = Busy
  BY DEF Calm, SameWork, Busy
<1>2. \A w \in WorkerIds :
        \/ wk'[w] = wk[w]
        \/ /\ wk'[w].unit = wk[w].unit /\ wk'[w].rot = wk[w].rot /\ wk'[w].whole = wk[w].whole
           /\ wk'[w].left = wk[w].left
           /\ \A s \in Slots : wk'[w].held[s] = "none" <=> wk[w].held[s] = "none"
           /\ wk'[w].entered # wk[w].entered => wk'[w].entered /\ wk[w].rot = 0
  BY DEF Calm, SameWork
<1>3. UNCHANGED WorkBooks /\ UNCHANGED SlotBooks
  BY DEF Calm, Books, WorkBooks, SlotBooks
<1>4. UnitsStay
  BY <1>1, <1>2, <1>3 DEF UnitsStay, Busy
<1>5. SlotsStay
  BY <1>1, <1>2, <1>3 DEF SlotsStay, Busy
<1> QED
  BY <1>4, <1>5

LEMMA CalmAccounts ==
  ASSUME Accounts, PrimedInv', Calm
  PROVE  Accounts' /\ UNCHANGED <<delivered, result>>
<1>1. UnitsStay /\ SlotsStay
  BY CalmStays
<1>2. WorkInv' /\ ConnectionsBalance'
  BY <1>1, UnitsAsBefore, SlotsAsBefore DEF Accounts
<1>3. Busy' = Busy /\ UNCHANGED <<remaining, delivered, result>>
  BY <1>1 DEF SlotsStay, Calm, Books
<1> QED
  BY <1>2, <1>3 DEF Accounts

LEMMA WorkerAccounts ==
  ASSUME Accounts, NEW w \in WorkerIds, WorkerStep(w)
  PROVE  Accounts' /\ UNCHANGED <<delivered, result>>
<1>1. PrimedInv /\ PrimedInv' /\ Effect(w)
  BY WorkerSteps DEF Accounts
<1>2. ConnectionsBalance /\ WorkInv /\ remaining = Cardinality(Busy)
  BY DEF Accounts
<1>3. CASE Calm
  BY <1>1, <1>3, CalmAccounts
<1>4. CASE Replaces(w) \/ Dials(w) \/ Closes(w)
  <2>1. ConnectionsBalance' /\ UnitsStay
    BY <1>1, <1>2, <1>4, ReplaceBalanced, DialBalanced, CloseBalanced
  <2>2. WorkInv' /\ Busy' = Busy
    BY <1>1, <1>2, <2>1, UnitsAsBefore DEF UnitsStay
  <2>3. UNCHANGED EndBooks
    BY <1>4 DEF Replaces, Dials, Closes
  <2>4. UNCHANGED <<remaining, delivered, result>>
    BY <2>3 DEF EndBooks
  <2> QED
    BY <1>1, <1>2, <2>1, <2>2, <2>4 DEF Accounts
<1>5. CASE Reports(w) \/ Takes(w)
  <2>1. WorkInv'
    BY <1>1, <1>2, <1>5, ReportCounted, TakeCounted
  <2>2. PICK r \in WorkerRec :
          /\ Sets(w, r) /\ SlotsKept(wk[w], r)
          /\ wk[w].pc \notin Gone /\ r.pc \notin Gone
          /\ UNCHANGED <<SlotBooks, EndBooks>>
    BY <1>5 DEF Reports, Takes, Gone, Settles, SlotBooks
  <2>3. /\ Busy' = Busy /\ wk'[w] = r
        /\ \A v \in WorkerIds \ {w} : wk'[v] = wk[v]
    BY <1>1, <2>2, OthersOwe DEF Busy
  <2>4. SlotsStay
    BY <2>2, <2>3 DEF SlotsStay, SlotsKept, Busy
  <2>5. ConnectionsBalance'
    BY <1>1, <1>2, <2>4, SlotsAsBefore
  <2>6. UNCHANGED <<remaining, delivered, result>>
    BY <2>2 DEF EndBooks
  <2> QED
    BY <1>1, <1>2, <2>1, <2>3, <2>5, <2>6 DEF Accounts
<1>6. CASE Disposes(w)
  <2>1. WorkInv' /\ ConnectionsBalance' /\ w \in Busy /\ Busy' = Busy \ {w}
    BY <1>1, <1>2, <1>6, DisposeCounted, DisposeBalanced
  <2>2. remaining' = remaining - 1 /\ UNCHANGED <<delivered, result>>
    BY <1>6 DEF Disposes
  <2>3. IsFiniteSet(Busy)
    BY <1>1, PendingFinite, FS_Subset DEF Busy
  <2>4. Cardinality(Busy \ {w}) = Cardinality(Busy) - 1
    BY <2>1, <2>3, FS_RemoveElement
  <2> QED
    BY <1>1, <1>2, <2>1, <2>2, <2>4 DEF Accounts
<1> QED
  BY <1>1, <1>3, <1>4, <1>5, <1>6 DEF Effect

LEMMA OutsideAccounts ==
  ASSUME Accounts, PrimedInv', Outside
  PROVE  Accounts'
<1>2. Busy' = Busy /\ UNCHANGED <<WorkBooks, SlotBooks, remaining>>
  BY DEF Outside, Busy, WorkBooks, SlotBooks
<1>3. UnitsStay /\ SlotsStay
  BY <1>2 DEF UnitsStay, SlotsStay, Outside
<1>4. WorkInv' /\ ConnectionsBalance'
  BY <1>3, UnitsAsBefore, SlotsAsBefore DEF Accounts
<1> QED
  BY <1>2, <1>4 DEF Accounts

\* A worker that is done takes no step.
LEMMA DoneStands ==
  ASSUME NEW w \in WorkerIds, WorkerStep(w)
  PROVE  wk[w].pc # "done"
<1>1. ASSUME \/ EnsureCancelled(w) \/ EnsureReplace(w)
             \/ DialOk(w) \/ DialFail(w) \/ Acquired(w)
      PROVE  wk[w].pc # "done"
  BY <1>1 DEF EnsureCancelled, EnsureReplace, DialOk, DialFail, Acquired
<1>2. ASSUME \/ PassesBarrier(w) \/ ArriveCancelled(w) \/ Evaluate(w) \/ Opens(w)
      PROVE  wk[w].pc # "done"
  BY <1>2 DEF PassesBarrier, ArriveCancelled, Evaluate, Opens
<1>3. ASSUME \/ Prime(w) \/ WarmGroup(w) \/ WarmPublish(w) \/ Check(w)
      PROVE  wk[w].pc # "done"
  BY <1>3 DEF Prime, WarmGroup, WarmPublish, Check
<1>4. ASSUME \/ UnitStart(w) \/ Group(w) \/ TrialPublish(w) \/ Take(w)
             \/ Dispose(w) \/ Report(w)
      PROVE  wk[w].pc # "done"
  BY <1>4 DEF UnitStart, Group, TrialPublish, Take, Dispose, Report
<1> QED
  BY <1>1, <1>2, <1>3, <1>4 DEF WorkerStep


LEMMA StepAccounts ==
  ASSUME ResultInv, [Next]_vars
  PROVE  Accounts' /\ delivered' \in Nat
<1>1. Accounts /\ PrimedInv /\ PrimedInv' /\ delivered \in Nat
  BY NextPrimed DEF ResultInv, Accounts
<1>2. CASE \E w \in WorkerIds : WorkerStep(w)
  BY <1>1, <1>2, WorkerAccounts
<1>3. CASE \E w \in WorkerIds, s \in Slots, how \in {"lost", "retired"} : Lose(w, s, how)
  <2>1. Calm
    BY <1>1, <1>3, ConnectionLost, WalksCalm
  <2> QED
    BY <1>1, <2>1, CalmAccounts
<1>4. CASE Emit(TRUE) \/ Emit(FALSE) \/ DeadlinePasses \/ TimerFires \/ UserStops \/ Finish
  <2>1. Outside
    BY <1>1, <1>4, RunSteps
  <2>2. delivered' \in Nat
    BY <1>1, <1>4 DEF Emit, DeadlinePasses, TimerFires, UserStops, Finish
  <2> QED
    BY <1>1, <2>1, <2>2, OutsideAccounts
<1>5. CASE UNCHANGED vars \/ Terminated
  <2>1. UNCHANGED vars
    BY <1>5 DEF Terminated
  <2>2. Outside /\ delivered' = delivered
    BY <1>1, <2>1 DEF vars, Outside, PrimedInv, Typed
  <2> QED
    BY <1>1, <2>2, OutsideAccounts
<1> QED
  BY <1>2, <1>3, <1>4, <1>5 DEF Next

\* A run that returned stands still.
LEMMA EndStands ==
  ASSUME ResultInv, [Next]_vars, result # "none"
  PROVE  UNCHANGED vars
<1>1. /\ Accounts /\ PrimedInv /\ events = <<>>
      /\ \A w \in WorkerIds : wk[w].pc = "done"
  BY DEF ResultInv, Ended, Accounts
<1>2. ~\E w \in WorkerIds : WorkerStep(w)
  BY <1>1, DoneStands
<1>3. ~\E w \in WorkerIds, s \in Slots, how \in {"lost", "retired"} : Lose(w, s, how)
  <2>1. \A w \in WorkerIds : \A s \in Slots : wk[w].held[s] = "none"
    BY <1>1 DEF PrimedInv, Fit, Gone
  <2> QED
    BY <2>1 DEF Lose
<1>4. remaining = 0
  <2>1. Busy = {}
    BY <1>1 DEF Busy, Gone
  <2> QED
    BY <1>1, <2>1, FS_EmptySet DEF Accounts
<1>5. ~(Emit(TRUE) \/ Emit(FALSE) \/ DeadlinePasses \/ TimerFires \/ UserStops \/ Finish)
  BY <1>1, <1>4 DEF Emit, DeadlinePasses, TimerFires, UserStops, Finish
<1> QED
  BY <1>2, <1>3, <1>5 DEF Next, Terminated

\* Only Finish gives a result.
LEMMA ResultStays ==
  ASSUME ResultInv, [Next]_vars, ~Finish
  PROVE  result' = result
<1>1. CASE \E w \in WorkerIds : WorkerStep(w)
  BY <1>1, WorkerAccounts DEF ResultInv
<1>2. CASE \E w \in WorkerIds, s \in Slots, how \in {"lost", "retired"} : Lose(w, s, how)
  BY <1>2 DEF Lose, UnchangedRun
<1>3. CASE Emit(TRUE) \/ Emit(FALSE) \/ DeadlinePasses \/ TimerFires \/ UserStops
  BY <1>3 DEF Emit, DeadlinePasses, TimerFires, UserStops
<1>4. CASE UNCHANGED vars \/ Terminated
  BY <1>4 DEF Terminated, vars
<1> QED
  BY <1>1, <1>2, <1>3, <1>4 DEF Next

LEMMA NextResult ==
  ASSUME ResultInv, [Next]_vars
  PROVE  ResultInv'
<1>1. Accounts' /\ delivered' \in Nat
  BY StepAccounts
<1>2. Ended'
  <2>1. CASE result # "none"
    <3>1. UNCHANGED vars
      BY <2>1, EndStands
    <3> QED
      BY <3>1 DEF vars, ResultInv, Ended, Completion
  <2>2. CASE result = "none" /\ Finish
    <3>1. /\ result' = Completion /\ events' = <<>>
          /\ UNCHANGED <<wk, counts, delivered, output, cause>>
          /\ \A w \in WorkerIds : wk[w].pc = "done"
      BY <2>2 DEF Finish
    <3>2. Completion' = Completion
      BY <3>1 DEF Completion
    <3> QED
      BY <3>1, <3>2 DEF Ended
  <2>3. CASE result = "none" /\ ~Finish
    BY <2>3, ResultStays DEF Ended
  <2> QED
    BY <2>1, <2>2, <2>3
<1> QED
  BY <1>1, <1>2 DEF ResultInv

LEMMA InitResult ==
  ASSUME Init PROVE ResultInv
<1>1. PrimedInv
  BY InitPrimed
<1>2. /\ UnitCount \in Nat \ {0} /\ R.workers \in Nat /\ WorkerIds \subseteq Nat
      /\ (R.units > 0 => R.workers <= R.units) /\ PerWorker(Plan) \in Nat
      /\ \A s \in Slots : ~(s <= 0)
  BY PlanSizes DEF Slots
<1>3. \A w \in WorkerIds : /\ wk[w].pc = "acquire" /\ wk[w].unit = w /\ wk[w].rot = 0
                           /\ wk[w].left = 0 /\ ~wk[w].entered
                           /\ \A s \in Slots : wk[w].held[s] = "none"
  <2> TAKE w \in WorkerIds
  <2>1. wk[w] = [Worker EXCEPT !.unit = w] /\ w \in Nat
    BY <1>2 DEF Init
  <2>2. /\ Worker.pc = "acquire" /\ Worker.rot = 0 /\ Worker.left = 0 /\ ~Worker.entered
        /\ \A s \in Slots : Worker.held[s] = "none"
    BY DEF Worker
  <2>3. Worker \in WorkerRec
    BY WorkerTyped
  <2> QED
    BY <2>1, <2>2, <2>3 DEF WorkerRec
<1>4. Busy = WorkerIds /\ Entered = {}
  BY <1>3 DEF Busy, Entered, Gone
<1>5. published.indices = {} /\ next = R.workers /\ remaining = R.workers
      /\ counts.attempted = 0 /\ counts.complete = 0 /\ counts.cycles = 0
      /\ counts.cyclesComplete = 0 /\ counts.acquired = 0 /\ counts.closed = 0
      /\ delivered = 0 /\ result = "none"
  BY DEF Init
<1>6. UnitsOwned
  <2>1. \A w \in Busy : wk[w].unit < next /\ wk[w].unit = w /\ wk[w].rot = 0
    BY <1>2, <1>3, <1>4, <1>5 DEF WorkerIds
  <2>2. \A k \in 0 .. UnitCount - 1 : ~(k < 0)
    BY <1>2
  <2> QED
    BY <1>2, <1>5, <2>1, <2>2 DEF UnitsOwned
<1>7. IsFiniteSet({}) /\ Cardinality({}) = 0
  BY FS_EmptySet
<1>8. TrialsCounted
  BY <1>5, <1>7 DEF TrialsCounted
<1>9. CyclesCounted
  <2>1. Started \ OpenUnits = {}
    BY <1>5 DEF Started
  <2>2. Pending = {}
    BY <1>4 DEF Pending
  <2>3. UnitCount * 0 = 0
    BY <1>2
  <2> QED
    BY <1>5, <1>7, <2>1, <2>2, <2>3 DEF CyclesCounted
<1>10. ConnectionsBalance
  <2>1. Owed = {}
    BY <1>2, <1>3, <1>4 DEF Owed
  <2> QED
    BY <1>2, <1>3, <1>5, <1>7, <2>1 DEF ConnectionsBalance
<1>11. remaining = Cardinality(Busy)
  <2>1. \A k \in Nat : Cardinality(0 .. k - 1) = k
    BY FS_Interval
  <2> QED
    BY <1>2, <1>4, <1>5, <2>1 DEF WorkerIds
<1> QED
  BY <1>1, <1>5, <1>6, <1>8, <1>9, <1>10, <1>11 DEF ResultInv, Accounts, WorkInv, Ended

\* The totals of a plan with a number of trials.
LEMMA PlannedTotal ==
  ASSUME Plan.trials > 0
  PROVE  R.units > 0 /\ R.planned = R.units * UnitCount /\ R.planned \in Nat
<1> DEFINE n == Len(Plan.requests)
<1>1. PlanTyped /\ R.width = n /\ n \in Nat \ {0}
  BY PlanSizes, CampaignAssumption DEF R, Resolve
<1>2. Plan.trials \in Nat /\ Plan.trials # 0
  BY <1>1 DEF PlanTyped
<1>3. CASE Plan.arrangement = "rotate"
  <2>1. /\ Rotates(Plan) /\ UnitCount = n /\ R.units = Cycles(Plan) /\ R.planned = Cycles(Plan) * n
    BY <1>1, <1>3 DEF Rotates, UnitCount, R, Resolve, WorkUnits, PlannedTrials
  <2> DEFINE q == Plan.trials \div n
             m == Plan.trials % n
  <2>2. q \in Nat /\ m \in 0 .. n - 1 /\ Plan.trials = q * n + m
    <3> HIDE DEF n
    <3> QED
      BY <1>1, <1>2, UnitOfIndex
  <2>3. Cycles(Plan) = q + IF m = 0 THEN 0 ELSE 1
    BY DEF Cycles
  <2> HIDE DEF q, m, n
  <2>4. Cycles(Plan) > 0 /\ Cycles(Plan) \in Nat
    <3>1. CASE q > 0
      BY <2>2, <2>3, <3>1
    <3>2. CASE q = 0
      <4>1. m # 0
        <5>1. 0 * n + 0 = 0
          BY <1>1
        <5> QED
          BY <1>2, <2>2, <3>2, <5>1
      <4> QED
        BY <2>2, <2>3, <4>1
    <3> QED
      BY <2>2, <3>1, <3>2
  <2> QED
    BY <1>1, <2>1, <2>4
<1>4. CASE Plan.arrangement # "rotate"
  BY <1>2, <1>4 DEF Rotates, UnitCount, R, Resolve, WorkUnits, PlannedTrials
<1> QED
  BY <1>3, <1>4

LEMMA InvHonest ==
  ASSUME ResultInv
  PROVE  HonestResult
<1> SUFFICES ASSUME result # "none" PROVE HonestResult
  BY DEF HonestResult
<1> DEFINE I == published.indices
           n == UnitCount
<1>1. /\ PrimedInv /\ WorkInv /\ ConnectionsBalance /\ result = Completion
      /\ \A w \in WorkerIds : wk[w].pc = "done"
  BY DEF ResultInv, Accounts, Ended
<1>2. Busy = {} /\ Entered = {} /\ \A w \in WorkerIds : wk[w].left = 0
  BY <1>1 DEF Busy, Entered, Gone, PrimedInv, Fit
<1>3. /\ n \in Nat \ {0} /\ next \in Nat /\ I \in SUBSET Nat
      /\ counts.acquired \in Nat /\ counts.closed \in Nat /\ counts.attempted \in Nat
      /\ counts.cyclesComplete \in Nat /\ counts.complete \in Nat
  BY <1>1, AccountTyped
<1>4. \A w \in WorkerIds, s \in Slots : wk[w].held[s] = "none"
  BY <1>1 DEF PrimedInv, Fit, Gone
<1>5. counts.acquired = counts.closed
  <2>1. \A s \in Slots : ~(s <= 0)
    BY PlanSizes DEF Slots
  <2>2. Owed = {}
    BY <1>2, <2>1 DEF Owed
  <2> QED
    BY <1>1, <1>3, <2>2, FS_EmptySet DEF ConnectionsBalance
<1>6. counts.attempted = Cardinality(I) /\ IsFiniteSet(I)
  BY <1>1 DEF WorkInv, TrialsCounted
<1>7. ASSUME Plan.trials > 0
      PROVE  I \subseteq 0 .. R.planned - 1
  <2>1. R.units > 0 /\ R.planned = R.units * n /\ R.planned \in Nat /\ R.units \in Nat
    BY <1>7, PlannedTotal, PlanSizes
  <2>2. next <= R.units
    BY <1>1, <2>1 DEF WorkInv, UnitsOwned
  <2>3. next * n <= R.units * n
    <3>1. CASE next = R.units
      <4>1. next * n \in Nat
        BY <1>3
      <4> QED
        BY <3>1, <4>1
    <3>2. CASE next < R.units
      <4>1. next * n + n <= R.units * n
        BY <1>3, <2>1, <3>2, TimesMonotone
      <4>2. next * n \in Nat /\ R.units * n \in Nat
        BY <1>3, <2>1
      <4> QED
        BY <1>3, <4>1, <4>2
    <3> QED
      BY <1>3, <2>1, <2>2, <3>1, <3>2
  <2>4. \A i \in I : i \in Nat /\ i < next * n
    BY <1>1, <1>3 DEF WorkInv, UnitsOwned
  <2>5. next * n \in Nat
    BY <1>3
  <2> HIDE DEF I, n
  <2> QED
    BY <2>1, <2>3, <2>4, <2>5
<1>8. ASSUME Rotates(Plan)
      PROVE  /\ counts.cycles = Cardinality({i \div UnitCount : i \in published.indices})
             /\ UnitCount * counts.cyclesComplete <= counts.complete
  <2>1. OpenUnits = {} /\ Pending = {}
    BY <1>2 DEF OpenUnits, Pending
  <2>2. /\ counts.cycles = Cardinality(Started \ OpenUnits)
        /\ counts.complete >= n * counts.cyclesComplete + Cardinality(Pending)
    BY <1>1, <1>8 DEF WorkInv, CyclesCounted, Rotates
  <2>3. Cardinality(Pending) = 0
    BY <2>1, FS_EmptySet
  <2>4. n * counts.cyclesComplete \in Nat
    BY <1>3
  <2>5. Started \ OpenUnits = Started
    BY <2>1
  <2>6. counts.cycles = Cardinality(Started)
    BY <2>2, <2>5
  <2>7. UnitCount * counts.cyclesComplete <= counts.complete
    BY <1>3, <2>2, <2>3, <2>4
  <2> HIDE DEF I, n
  <2> QED
    BY <2>6, <2>7, Zenon DEF Started
<1>9. ASSUME Plan.trials > 0
      PROVE  counts.attempted = R.planned <=> I = 0 .. R.planned - 1
  <2>1. R.planned \in Nat
    BY <1>9, PlannedTotal
  <2>2. \A k \in Nat : IsFiniteSet(0 .. k - 1) /\ Cardinality(0 .. k - 1) = k
    BY FS_Interval
  <2>3. IsFiniteSet(0 .. R.planned - 1) /\ Cardinality(0 .. R.planned - 1) = R.planned
    BY <2>1, <2>2
  <2>4. Cardinality(I) = R.planned => I = 0 .. R.planned - 1
    BY <1>7, <1>9, <2>3, FS_Subset
  <2> QED
    BY <1>6, <2>3, <2>4
<1>10. result = "complete" <=>
         /\ Plan.trials > 0 /\ published.indices = 0 .. R.planned - 1 /\ delivered = R.planned
         /\ ~output /\ cause \in {"none", "stop"}
  BY <1>1, <1>9 DEF Completion
<1> QED
  BY <1>4, <1>5, <1>6, <1>7, <1>8, <1>10 DEF HonestResult

\* What Run returns is what its workers and its callback did (Run, worker.dispose,
\* runState.publish, campaignQueue.take).
THEOREM ResultHonest == Spec => []HonestResult
<1>1. Init => ResultInv
  BY InitResult
<1>2. ResultInv /\ [Next]_vars => ResultInv'
  BY NextResult
<1>3. ResultInv => HonestResult
  BY InvHonest
<1> QED
  BY <1>1, <1>2, <1>3, PTL DEF Spec
=============================================================================
