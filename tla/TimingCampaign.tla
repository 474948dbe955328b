-------------------------- MODULE TimingCampaign ---------------------------
(***************************************************************************)
(* One timing run (src/internal/timing: run.go, worker.go, priming.go,     *)
(* initial_phases.go, campaign_schedule.go).                               *)
(*                                                                         *)
(* Workers acquire a set of connections each, meet at the acquisition      *)
(* barrier, prime their sets, meet at the warmup barrier and then measure  *)
(* the units of a shared queue, replacing and priming connections that are *)
(* lost on the way.  Everything they produce goes through one bounded      *)
(* channel to Run, whose callback may fail.                                *)
(*                                                                         *)
(* A group of requests released together is one step with an outcome       *)
(* (StartGate opens it up).  publish counts under a mutex and then sends;  *)
(* the counters are read only after every worker ended, so counting and    *)
(* sending are one step.  Whatever a worker does between two steps touches *)
(* only its own variables.                                                 *)
(***************************************************************************)
EXTENDS TimingPlan

CONSTANTS
  Plan,       \* the plan that Run resolves
  MaxFaults   \* disturbances: lost or retired connections, failed exchanges and
              \* dials, a stop, a timeout, a failed callback

R == Resolve(Plan)
WorkerIds == 0 .. R.workers - 1
Slots == 1 .. PerWorker(Plan)
Requests == 1 .. R.width
PoolOrder == SetToSeq(Pools(Plan))

\* What Plan's fields hold before Resolve looks at them.
PlanTyped ==
  /\ Plan.requests \in Seq(Range(Plan.requests))
  /\ Plan.trials \in Nat /\ Plan.warmup \in Int /\ Plan.connections \in Int

ASSUME CampaignAssumption == PlanTyped /\ Accepted(Plan) /\ MaxFaults \in Nat

\* Trials of one work unit.
UnitCount == IF Plan.arrangement = "rotate" THEN R.width ELSE 1

\* campaignOrder: the requests that may come next in a trial.
NextRequests(position, rotation, released) ==
  IF Plan.arrangement = "random" THEN Requests \ released
  ELSE {1 + ((position + IF Plan.arrangement = "rotate" THEN rotation ELSE 0) % R.width)}

\* The slots that the next group uses.
GroupSlots(q) ==
  IF Plan.synchronise THEN Slots
  ELSE {s \in Slots : PoolOrder[s] = Plan.requests[q].dest}

VARIABLES
  cause,     \* context.Cause of the run, "none" while it lasts
  wk,        \* the workers: program counter, slots and local variables
  phases,    \* initialPhases: arrivals, open phases and the opening flag
  next,      \* the queue's next unit
  events,    \* the event channel
  counts,    \* the accounting under state.mu
  remaining, \* workers whose target interaction goes on
  late,      \* the run timeout has passed
  output,    \* the callback failed
  delivered, \* trials that the callback took
  result,    \* the completion that Run returns
  faults,    \* faults so far
  published  \* history: the phases and the trial indices published so far

vars == <<cause, wk, phases, next, events, counts, remaining, late, output,
          delivered, result, faults, published>>

NoDials == [s \in Slots |-> 0]

Worker ==
  [pc |-> "acquire", slot |-> 1, goal |-> "barrier", ret |-> "initial",
   held |-> [s \in Slots |-> "none"], acq |-> NoDials, fresh |-> {},
   warm |-> FALSE, measured |-> FALSE, replacing |-> FALSE, unit |-> 0, rot |-> 0, wi |-> 0,
   released |-> {}, fault |-> FALSE, wreleased |-> {}, wfault |-> FALSE,
   entered |-> FALSE, whole |-> TRUE, err |-> "none", left |-> 0]

Init ==
  /\ cause = "none"
  /\ wk = [w \in WorkerIds |-> [Worker EXCEPT !.unit = w]]
  /\ phases = [acquired |-> {}, warmed |-> {}, acquisitionOpen |-> FALSE,
               warmupOpen |-> FALSE, opening |-> FALSE]
  /\ next = R.workers
  /\ events = <<>>
  /\ counts = [attempted |-> 0, complete |-> 0, cycles |-> 0, cyclesComplete |-> 0,
               acquired |-> 0, closed |-> 0, failed |-> 0, warmups |-> 0]
  /\ remaining = R.workers
  /\ late = FALSE
  /\ output = FALSE
  /\ delivered = 0
  /\ result = "none"
  /\ faults = 0
  /\ published = [phases |-> {}, indices |-> {}]

-----------------------------------------------------------------------------
(* Helpers *)

Cancel(c) == cause' = IF cause = "none" THEN c ELSE cause

\* publish: count, then send when the channel has room.
Publish(e, counted) ==
  /\ Len(events) < R.workers
  /\ events' = Append(events, e)
  /\ counts' = counted
  /\ published' = CASE e.kind = "phase" -> [published EXCEPT !.phases = @ \cup {e.warm}]
                    [] e.kind = "trial" -> [published EXCEPT !.indices = @ \cup {e.index}]
                    [] OTHER -> published

Silent == UNCHANGED <<events, counts, published>>

Set(w, rec) == wk' = [wk EXCEPT ![w] = rec]

Disturbs == faults < MaxFaults /\ faults' = faults + 1


\* usable: every slot holds a connection that is neither lost nor retired.
Usable(w) == \A s \in Slots : wk[w].held[s] = "ok"

\* acquireSet starts over from the first slot.
Acquiring(rec, goal) == [rec EXCEPT !.pc = "acquire", !.slot = 1, !.goal = goal]

\* The deferred accounting of unit for a rotation that was entered.
CycleCounted(rec, c) ==
  IF Plan.arrangement # "rotate" \/ ~rec.entered THEN c
  ELSE [c EXCEPT !.cycles = @ + 1,
        !.cyclesComplete = @ + IF rec.whole /\ rec.rot = UnitCount THEN 1 ELSE 0]

\* A worker's function returns with error c.  A measured trial that recovery
\* interrupted is published first; everything else unwinds to dispose.
Fails(w, rec, c) ==
  wk' = [wk EXCEPT ![w] =
    IF rec.ret = "op" THEN [rec EXCEPT !.pc = "publish", !.fault = TRUE, !.err = c]
    ELSE [rec EXCEPT !.pc = "dispose", !.err = c]]

UnchangedRun == UNCHANGED <<next, remaining, late, output, delivered, result>>

-----------------------------------------------------------------------------
(* Acquisition and recovery *)

\* Fault: a retired connection counts as usable.
RetiredIsUsable(rec) ==
  LET lost == {s \in Slots : s >= rec.slot /\ rec.held[s] \in {"none", "lost"}} IN
  IF lost = {} THEN 0 ELSE Min(lost)

\* ensure for the slots that have a usable connection: the first one without.
FirstLost(rec) ==
  LET lost == {s \in Slots : s >= rec.slot /\ rec.held[s] # "ok"} IN
  IF lost = {} THEN 0 ELSE Min(lost)

\* readySet returns to its caller: the warmup barrier, a new trial, or the
\* trial that it interrupted.  Progress renews the recovery allowance.
Returned(rec) ==
  CASE rec.ret = "initial" -> [rec EXCEPT !.pc = "arrive", !.warm = TRUE]
    [] rec.ret = "unit" -> [rec EXCEPT !.pc = "op", !.ret = "op", !.acq = NoDials,
                                       !.entered = TRUE, !.released = {}, !.fault = FALSE]
    [] rec.ret = "op" -> [rec EXCEPT !.pc = "op"]

\* Fault: connections replaced during measurement are not primed.
AcquiredUnprimed(w) ==
  /\ wk[w].pc = "acquire" /\ FirstLost(wk[w]) = 0
  /\ cause = "none" \/ wk[w].slot \notin Slots
  /\ Set(w, IF wk[w].goal = "barrier" THEN [wk[w] EXCEPT !.pc = "arrive", !.warm = FALSE]
            ELSE IF wk[w].measured THEN Returned(wk[w])
            ELSE [wk[w] EXCEPT !.pc = "prime", !.wi = 0])
  /\ UNCHANGED <<cause, phases, faults>> /\ Silent /\ UnchangedRun

\* acquireSet is done: arrive at the barrier, or prime.
Acquired(w) ==
  /\ wk[w].pc = "acquire" /\ FirstLost(wk[w]) = 0
  /\ cause = "none" \/ wk[w].slot \notin Slots
  /\ Set(w, IF wk[w].goal = "barrier" THEN [wk[w] EXCEPT !.pc = "arrive", !.warm = FALSE]
            ELSE [wk[w] EXCEPT !.pc = "prime", !.wi = 0])
  /\ UNCHANGED <<cause, phases, faults>> /\ Silent /\ UnchangedRun

\* ensure after the run was cancelled.
EnsureCancelled(w) ==
  /\ wk[w].pc = "acquire" /\ wk[w].slot \in Slots
  /\ cause # "none"
  /\ Fails(w, wk[w], cause)
  /\ UNCHANGED <<cause, phases, faults>> /\ Silent /\ UnchangedRun

\* Identities that a slot may use before it makes progress.
Allowance(rec) == IF rec.measured THEN 1 ELSE 2

\* ensure: an unusable connection is closed and reported, then the recovery
\* allowance decides whether the slot may dial.
EnsureReplace(w) ==
  LET rec == wk[w]
      s == FirstLost(rec)
      gone == [rec EXCEPT !.held[s] = "none"] IN
  /\ rec.pc = "acquire" /\ s # 0
  /\ cause = "none"
  /\ IF rec.held[s] = "none" THEN Silent
     ELSE Publish([kind |-> "connection"], [counts EXCEPT !.closed = @ + 1])
  /\ IF rec.acq[s] >= Allowance(rec) THEN Fails(w, gone, "recovery")
     ELSE Set(w, [gone EXCEPT !.pc = "dial", !.slot = s, !.acq[s] = @ + 1])
  /\ UNCHANGED <<cause, phases, faults>> /\ UnchangedRun

\* The factory returns a connection.
DialOk(w) ==
  LET s == wk[w].slot IN
  /\ wk[w].pc = "dial"
  /\ cause = "none"
  /\ Set(w, [wk[w] EXCEPT !.pc = "acquire", !.held[s] = "ok",
                          !.fresh = @ \cup {s}, !.slot = @ + 1])
  /\ Publish([kind |-> "connection"], [counts EXCEPT !.acquired = @ + 1])
  /\ UNCHANGED <<cause, phases, faults>> /\ UnchangedRun

\* The factory fails, always when the run is cancelled.
DialFail(w) ==
  /\ wk[w].pc = "dial"
  /\ \/ cause # "none" /\ UNCHANGED faults
     \/ cause = "none" /\ Disturbs
  /\ Cancel("acquisition")
  /\ Fails(w, wk[w], "acquisition")
  /\ Publish([kind |-> "connection"], [counts EXCEPT !.failed = @ + 1])
  /\ UNCHANGED phases /\ UnchangedRun

\* A connection is lost or retired at any time.
Lose(w, s, how) ==
  /\ wk[w].held[s] = "ok"
  /\ Disturbs
  /\ Set(w, [wk[w] EXCEPT !.held[s] = how])
  /\ UNCHANGED <<cause, phases>> /\ Silent /\ UnchangedRun

-----------------------------------------------------------------------------
(* initialPhases.arrive *)

\* The arrivals as worker w sees them: its first look follows its registration
\* under the same lock.
Arrivals(w) ==
  (IF wk[w].warm THEN phases.warmed ELSE phases.acquired)
    \cup IF wk[w].pc = "arrive" THEN {w} ELSE {}

Open(warm) == IF warm THEN phases.warmupOpen ELSE phases.acquisitionOpen

WithArrivals(warm, set) ==
  IF warm THEN [phases EXCEPT !.warmed = set] ELSE [phases EXCEPT !.acquired = set]

\* Closing the changed channel wakes every parked worker.
Woken == [v \in WorkerIds |-> IF wk[v].pc = "parked" THEN [wk[v] EXCEPT !.pc = "evaluate"] ELSE wk[v]]

\* arrive returns false: the worker lost a connection and starts over.
StartsOver(rec) ==
  IF rec.warm THEN Acquiring([rec EXCEPT !.replacing = TRUE, !.ret = "initial"], "ready")
  ELSE Acquiring(rec, "barrier")

\* arrive returns true.
PassesBarrier(w) ==
  /\ wk[w].pc \in {"arrive", "evaluate"}
  /\ cause = "none"
  /\ Open(wk[w].warm) /\ ~phases.opening
  /\ Set(w, IF wk[w].warm
            THEN [wk[w] EXCEPT !.pc = "unit", !.measured = TRUE, !.ret = "unit",
                               !.acq = NoDials]
            ELSE Acquiring([wk[w] EXCEPT !.ret = "initial"], "ready"))
  /\ UNCHANGED <<cause, phases, faults>> /\ Silent /\ UnchangedRun

\* arrive: the context ended, also while parked.
ArriveCancelled(w) ==
  /\ wk[w].pc \in {"arrive", "evaluate", "parked"}
  /\ cause # "none"
  /\ Fails(w, wk[w], cause)
  /\ UNCHANGED <<cause, phases, faults>> /\ Silent /\ UnchangedRun

\* Everyone arrived: one health snapshot under all state locks decides.
Evaluate(w) ==
  LET warm == wk[w].warm
      arrived == Arrivals(w)
      unhealthy == {v \in WorkerIds : ~Usable(v)} IN
  /\ wk[w].pc \in {"arrive", "evaluate"}
  /\ cause = "none"
  /\ ~(Open(warm) /\ ~phases.opening)
  /\ CASE w \notin arrived ->
            Set(w, StartsOver(wk[w])) /\ UNCHANGED phases
       [] w \in arrived /\ (arrived # WorkerIds \/ phases.opening) ->
            /\ phases' = WithArrivals(warm, arrived)
            /\ Set(w, [wk[w] EXCEPT !.pc = "parked"])
       [] arrived = WorkerIds /\ ~phases.opening /\ unhealthy = {} ->
            /\ phases' = [WithArrivals(warm, arrived) EXCEPT
                 !.opening = TRUE, !.acquisitionOpen = TRUE, !.warmupOpen = warm]
            /\ Set(w, [wk[w] EXCEPT !.pc = "opening"])
       [] arrived = WorkerIds /\ ~phases.opening /\ unhealthy # {} ->
            /\ phases' = WithArrivals(warm, arrived \ unhealthy)
            /\ wk' = [Woken EXCEPT ![w] =
                 IF w \in unhealthy THEN StartsOver(wk[w]) ELSE [wk[w] EXCEPT !.pc = "parked"]]
  /\ UNCHANGED <<cause, faults>> /\ Silent /\ UnchangedRun

\* The phase is announced without the lock, and then the workers are released.
Opens(w) ==
  /\ wk[w].pc = "opening"
  /\ Publish([kind |-> "phase", warm |-> wk[w].warm], counts)
  /\ phases' = [phases EXCEPT !.opening = FALSE]
  /\ wk' = [Woken EXCEPT ![w].pc = "evaluate"]
  /\ UNCHANGED <<cause, faults>> /\ UnchangedRun

-----------------------------------------------------------------------------
(* Priming *)

\* prime: the next warmup trial, or the end of the phase.
Prime(w) ==
  LET rec == wk[w] IN
  /\ rec.pc = "prime"
  /\ IF rec.wi = Plan.warmup THEN Set(w, [rec EXCEPT !.pc = "check"])
     ELSE IF cause # "none" THEN Fails(w, rec, cause)
     ELSE Set(w, [rec EXCEPT !.pc = "wop", !.wreleased = {}, !.wfault = FALSE])
  /\ UNCHANGED <<cause, phases, faults>> /\ Silent /\ UnchangedRun

\* One group of a trial: it completes, perhaps retiring its connections, or
\* fails, perhaps keeping them.  It fails when the run is cancelled or one of
\* its connections is gone, and then disposes of all of them.
GroupEnds(w, used, completes, after) ==
  LET able == cause = "none" /\ \A s \in used : wk[w].held[s] = "ok" IN
  /\ completes => able /\ after # "lost"
  /\ ~able => after = "lost"
  /\ IF able /\ (~completes \/ after # "ok") THEN Disturbs ELSE UNCHANGED faults

HeldAfter(rec, used, after) ==
  [s \in Slots |-> IF s \in used /\ rec.held[s] = "ok" THEN after ELSE rec.held[s]]

\* The requests of a group: all of a synchronised trial, else one.
Members(q) == IF Plan.synchronise THEN Requests ELSE {q}

\* trial with warmup set.  A connection that was retired before a later
\* position leaves the rest unattempted.
WarmGroup(w) ==
  LET rec == wk[w] IN
  /\ rec.pc = "wop"
  /\ \E q \in NextRequests(Cardinality(rec.wreleased), rec.wi, rec.wreleased) :
       LET used == GroupSlots(q)
           through == rec.wreleased \cup Members(q) IN
       IF rec.wreleased # {} /\ \E s \in used : rec.held[s] # "ok"
       THEN Set(w, [rec EXCEPT !.pc = "wpublish"]) /\ UNCHANGED faults
       ELSE \E completes \in BOOLEAN, after \in {"ok", "lost", "retired"} :
              /\ GroupEnds(w, used, completes, after)
              /\ Set(w, [rec EXCEPT !.wreleased = through, !.wfault = ~completes,
                   !.pc = IF completes /\ through # Requests THEN "wop" ELSE "wpublish",
                   !.held = HeldAfter(rec, used, after)])
  /\ UNCHANGED <<cause, phases>> /\ Silent /\ UnchangedRun

\* prime after a trial: an incomplete one is terminal unless its complete
\* exchanges retired a connection that a later one needed.
WarmPublish(w) ==
  LET rec == wk[w]
      complete == rec.wreleased = Requests /\ ~rec.wfault
      retirement == ~complete /\ ~rec.wfault /\ ~Usable(w) IN
  /\ rec.pc = "wpublish"
  /\ Publish([kind |-> "warmup"], [counts EXCEPT !.warmups = @ + 1])
  /\ IF ~complete /\ ~retirement THEN Cancel("warmup") /\ Fails(w, rec, "warmup")
     ELSE /\ Set(w, [rec EXCEPT !.pc = IF Usable(w) THEN "prime" ELSE "check",
                                !.wi = @ + 1, !.wreleased = {}])
          /\ UNCHANGED cause
  /\ UNCHANGED <<phases, faults>> /\ UnchangedRun

\* readySet after prime: the set survived, or the whole phase starts over.
Check(w) ==
  LET rec == wk[w] IN
  /\ rec.pc = "check"
  /\ IF Usable(w)
     THEN /\ Publish([kind |-> "worker"], counts)
          /\ Set(w, Returned([rec EXCEPT !.fresh = {}]))
     ELSE /\ Set(w, Acquiring([rec EXCEPT !.replacing = TRUE], "ready"))
          /\ Silent
  /\ UNCHANGED <<cause, phases, faults>> /\ UnchangedRun

-----------------------------------------------------------------------------
(* Measured units *)

\* readySet(false): nothing to do for a usable set.
ReadySet(rec, ret) ==
  IF \A s \in Slots : rec.held[s] = "ok" THEN Returned([rec EXCEPT !.ret = ret])
  ELSE Acquiring([rec EXCEPT !.ret = ret, !.replacing = TRUE], "ready")

\* A rotation starts, or the unit ends with the context.
UnitStart(w) ==
  /\ wk[w].pc = "unit"
  /\ IF cause # "none" THEN Fails(w, wk[w], cause)
     ELSE Set(w, ReadySet(wk[w], "unit"))
  /\ UNCHANGED <<cause, phases, faults>> /\ Silent /\ UnchangedRun

\* trial: the group at the next position.  An attempted one renews recovery,
\* and the set is made ready again before another position.
Group(w) ==
  LET rec == wk[w] IN
  /\ rec.pc = "op"
  /\ \E completes \in BOOLEAN, attempted \in BOOLEAN, after \in {"ok", "lost", "retired"},
        q \in NextRequests(Cardinality(rec.released), rec.rot, rec.released) :
       LET used == GroupSlots(q)
           through == rec.released \cup Members(q)
           ended == [rec EXCEPT !.released = through, !.fault = ~completes, !.pc = "publish",
                       !.acq = IF attempted THEN NoDials ELSE @,
                       !.held = HeldAfter(rec, used, after)] IN
       /\ GroupEnds(w, used, completes, after)
       /\ completes => attempted
       /\ Set(w, IF completes /\ through # Requests THEN ReadySet(ended, "op") ELSE ended)
  /\ UNCHANGED <<cause, phases>> /\ Silent /\ UnchangedRun

\* unit after a trial.
TrialPublish(w) ==
  LET rec == wk[w]
      complete == rec.released = Requests /\ ~rec.fault
      ended == [rec EXCEPT !.rot = @ + 1, !.whole = @ /\ complete, !.ret = "unit"]
      counted == [counts EXCEPT !.attempted = @ + 1, !.complete = @ + IF complete THEN 1 ELSE 0] IN
  /\ rec.pc = "publish"
  /\ Publish([kind |-> "trial", index |-> rec.unit * UnitCount + rec.rot], counted)
  /\ Set(w, [ended EXCEPT !.pc = IF rec.err # "none" THEN "dispose"
                                 ELSE IF ended.rot < UnitCount THEN "unit" ELSE "take"])
  /\ UNCHANGED <<cause, phases, faults>> /\ UnchangedRun

\* The unit is over; campaignQueue.take gives the next one or ends the worker.
Take(w) ==
  LET rec == wk[w] IN
  /\ rec.pc = "take"
  /\ counts' = CycleCounted(rec, counts)
  /\ IF R.units > 0 /\ next >= R.units
     THEN Set(w, [rec EXCEPT !.pc = "dispose", !.entered = FALSE]) /\ UNCHANGED next
     ELSE /\ next' = next + 1
          /\ Set(w, [rec EXCEPT !.pc = IF cause = "none" THEN "unit" ELSE "dispose",
                                !.unit = next, !.rot = 0, !.entered = FALSE, !.whole = TRUE])
  /\ UNCHANGED <<cause, phases, faults, events, published, remaining, late, output, delivered, result>>

-----------------------------------------------------------------------------
(* The end of a worker and of the run *)

\* The deferred end: slots are disposed of and joined, then interactionDone
\* settles the run timeout before the last connection events are sent.
Dispose(w) ==
  LET rec == wk[w] IN
  /\ rec.pc = "dispose"
  /\ counts' = CycleCounted(rec, counts)
  /\ Set(w, [Worker EXCEPT !.pc = "report", !.measured = rec.measured,
                           !.left = Cardinality({s \in Slots : rec.held[s] # "none"})])
  /\ remaining' = remaining - 1
  /\ IF rec.err # "none" THEN Cancel(rec.err)
     ELSE IF remaining = 1 /\ late THEN Cancel("deadline")
     ELSE UNCHANGED cause
  /\ UNCHANGED <<phases, faults, events, published, next, late, output, delivered, result>>

Report(w) ==
  /\ wk[w].pc = "report"
  /\ IF wk[w].left = 0 THEN Set(w, [wk[w] EXCEPT !.pc = "done"]) /\ Silent
     ELSE /\ Publish([kind |-> "connection"], [counts EXCEPT !.closed = @ + 1])
          /\ Set(w, [wk[w] EXCEPT !.left = @ - 1])
  /\ UNCHANGED <<cause, phases, faults>> /\ UnchangedRun

\* The run timeout passes, and its timer finds interaction going on.
DeadlinePasses ==
  /\ Plan.runTimeout > 0 /\ ~late /\ result = "none"
  /\ Disturbs
  /\ late' = TRUE
  /\ UNCHANGED <<cause, wk, phases, next, events, counts, remaining, output, delivered, result,
                 published>>

TimerFires ==
  /\ late /\ remaining > 0 /\ cause = "none"
  /\ Cancel("deadline")
  /\ UNCHANGED <<wk, phases, next, events, counts, remaining, late, output, delivered, result,
                 faults, published>>

\* The caller cancels the run.
UserStops ==
  /\ cause = "none" /\ result = "none"
  /\ Disturbs
  /\ Cancel("stop")
  /\ UNCHANGED <<wk, phases, next, events, counts, remaining, late, output, delivered, result,
                 published>>

\* Run's loop: after the callback failed, events are drained and dropped.
Emit(ok) ==
  /\ events # <<>>
  /\ events' = Tail(events)
  /\ IF output \/ ok
     THEN /\ delivered' = delivered + IF ~output /\ Head(events).kind = "trial" THEN 1 ELSE 0
          /\ UNCHANGED <<cause, output, faults>>
     ELSE /\ Disturbs
          /\ output' = TRUE
          /\ Cancel("output")
          /\ UNCHANGED delivered
  /\ UNCHANGED <<wk, phases, next, counts, remaining, late, result, published>>

\* Fault: a run that delivered everything is complete whatever ended it.
CompletionIgnoresCause ==
  IF ~output /\ Plan.trials > 0 /\ counts.attempted = R.planned /\ delivered = R.planned
  THEN "complete"
  ELSE IF Plan.trials = 0 /\ cause = "stop" /\ ~output THEN "stopped"
  ELSE "failed"

\* The completion of a run: a user's stop does not spoil one that is complete.
Completion ==
  LET stopped == cause = "stop" IN
  IF /\ cause = "none" \/ stopped
     /\ ~output
     /\ Plan.trials > 0
     /\ counts.attempted = R.planned
     /\ delivered = R.planned
  THEN "complete"
  ELSE IF Plan.trials = 0 /\ stopped /\ ~output THEN "stopped"
  ELSE "failed"

Finish ==
  /\ result = "none"
  /\ events = <<>>
  /\ \A w \in WorkerIds : wk[w].pc = "done"
  /\ result' = Completion
  /\ UNCHANGED <<cause, wk, phases, next, events, counts, remaining, late, output, delivered,
                 faults, published>>

Terminated == result # "none" /\ UNCHANGED vars

WorkerStep(w) ==
  \/ EnsureCancelled(w) \/ EnsureReplace(w)
  \/ DialOk(w) \/ DialFail(w) \/ Acquired(w)
  \/ PassesBarrier(w) \/ ArriveCancelled(w) \/ Evaluate(w) \/ Opens(w)
  \/ Prime(w) \/ WarmGroup(w) \/ WarmPublish(w) \/ Check(w)
  \/ UnitStart(w) \/ Group(w) \/ TrialPublish(w) \/ Take(w)
  \/ Dispose(w) \/ Report(w)

Next ==
  \/ \E w \in WorkerIds : WorkerStep(w)
  \/ \E w \in WorkerIds, s \in Slots, how \in {"lost", "retired"} : Lose(w, s, how)
  \/ Emit(TRUE) \/ Emit(FALSE)
  \/ DeadlinePasses \/ TimerFires \/ UserStops
  \/ Finish \/ Terminated

\* Goroutines run, dials and groups end, and the callback returns promptly.
Fairness ==
  /\ \A w \in WorkerIds : WF_vars(WorkerStep(w))
  /\ WF_vars(\E ok \in BOOLEAN : Emit(ok))
  /\ WF_vars(Finish)

Spec == Init /\ [][Next]_vars /\ Fairness

-----------------------------------------------------------------------------
(* Properties *)

\* Every variable has its type.
TypeOK ==
  /\ cause \in {"none", "stop", "deadline", "output", "acquisition", "recovery", "warmup"}
  /\ \A w \in WorkerIds :
       /\ wk[w].held \in [Slots -> {"none", "ok", "lost", "retired"}]
       /\ wk[w].slot \in 1 .. Cardinality(Slots) + 1
       /\ wk[w].released \subseteq Requests /\ wk[w].rot \in 0 .. UnitCount
  /\ phases.acquired \cup phases.warmed \subseteq WorkerIds
  /\ Len(events) <= R.workers
  /\ remaining \in 0 .. R.workers

\* Measured requests go only to connections that the whole worker primed after
\* the last of them was acquired, also when one is replaced in the middle of a
\* trial or between the barriers (readySet).  No worker primes before the
\* consumer was told that every worker holds its connections, and no trial is
\* reported before it was told that every worker is warm (arrive publishes
\* before it releases the workers).
MeasuredOnPrimed ==
  /\ \A w \in WorkerIds : wk[w].pc = "op" => wk[w].fresh = {}
  /\ counts.warmups > 0 => FALSE \in published.phases
  /\ counts.attempted > 0 => TRUE \in published.phases

\* When Run returns, every connection that was acquired was disposed of and
\* reported closed once, no trial index was reported twice or beyond the plan,
\* a rotation counts as complete only with all of its trials, and the result
\* is complete exactly when the callback took every planned trial and nothing
\* but a user's stop ended the run; a run that outlived its timeout is not.
HonestResult ==
  result # "none" =>
    /\ \A w \in WorkerIds, s \in Slots : wk[w].held[s] = "none"
    /\ counts.acquired = counts.closed
    /\ counts.attempted = Cardinality(published.indices)
    /\ Plan.trials > 0 => published.indices \subseteq 0 .. R.planned - 1
    /\ Rotates(Plan) =>
         /\ counts.cycles = Cardinality({i \div UnitCount : i \in published.indices})
         /\ UnitCount * counts.cyclesComplete <= counts.complete
    /\ result = "complete" <=>
         /\ Plan.trials > 0 /\ published.indices = 0 .. R.planned - 1 /\ delivered = R.planned
         /\ ~output /\ cause \in {"none", "stop"}

\* A run with a planned number of trials returns, whoever waits at a barrier,
\* on the channel or for a connection when it is disturbed.
RunReturns == <>(result # "none")
=============================================================================
