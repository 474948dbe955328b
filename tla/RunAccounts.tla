----------------------------- MODULE RunAccounts -----------------------------
(***************************************************************************)
(* What a command keeps of the trials it is handed: the race counters      *)
(* (race_command.go), the measurement (measurement.go) and the analyse     *)
(* collector (analyse_acquisition.go, analyse_core.go), the execution      *)
(* accounts each projects and the checks those accounts must pass          *)
(* (execution_accounting.go), and the completion a run ends with           *)
(* (run_timeout.go, completion_state.go).                                  *)
(*                                                                         *)
(* A trial is [warm, out, conn, cycle, shift, arr, ranks]: out is "ok", "err"   *)
(* (Trial.Err set) or "bad" (rank-complete, a status outside 100..999,     *)
(* which tth2 delivers with code zero); ranks gives each request its       *)
(* arrival rank; cycle and shift are -1 outside rotation.  Statuses inside *)
(* the valid range are not told apart.                                     *)
(***************************************************************************)
EXTENDS RunPlan

Requests(w) == 0..(w - 1)

\* newRankMatrix
newRankMatrix(w) == [i \in Requests(w) |-> [j \in Requests(w) |-> 0]]

addRankMatrix(a, b) == [i \in DOMAIN a |-> [j \in DOMAIN a[i] |-> a[i][j] + b[i][j]]]

\* The order a trial was sent in: arrangement[position] is the request.  A
\* rotation shifts its cycle's base; other policies draw one per trial.
Arrangement(policy, base, shift, w) ==
  [p \in Requests(w) |-> IF policy = "rotate" THEN base[(p + shift) % w] ELSE base[p]]

-----------------------------------------------------------------------------
(* Tallies: the matrices a summary carries.                                *)

ZeroTally(w) ==
  [trials |-> 0, rank |-> newRankMatrix(w), position |-> newRankMatrix(w),
   assigned |-> newRankMatrix(w), before |-> newRankMatrix(w),
   statuses |-> [i \in Requests(w) |-> 0]]

tallyTrial(tally, t, w) ==
  LET Hit(P(_, _)) == [i \in Requests(w) |-> [j \in Requests(w) |-> IF P(i, j) THEN 1 ELSE 0]]
  IN [trials   |-> tally.trials + 1,
      rank     |-> addRankMatrix(tally.rank, Hit(LAMBDA r, k : t.ranks[r] = k)),
      position |-> addRankMatrix(tally.position, Hit(LAMBDA p, k : t.ranks[t.arr[p]] = k)),
      assigned |-> addRankMatrix(tally.assigned, Hit(LAMBDA r, p : t.arr[p] = r)),
      before   |-> addRankMatrix(tally.before, Hit(LAMBDA l, r : t.ranks[l] < t.ranks[r])),
      statuses |-> [r \in Requests(w) |-> tally.statuses[r] + 1]]

addTally(a, b, w) ==
  [trials   |-> a.trials + w,
   rank     |-> addRankMatrix(a.rank, b.rank),
   position |-> addRankMatrix(a.position, b.position),
   assigned |-> addRankMatrix(a.assigned, b.assigned),
   before   |-> addRankMatrix(a.before, b.before),
   statuses |-> [r \in DOMAIN a.statuses |-> a.statuses[r] + b.statuses[r]]]

-----------------------------------------------------------------------------
(* The race counters.                                                      *)

raceCounters == [warmOk |-> 0, warmErr |-> 0, ok |-> 0, err |-> 0, conns |-> {}]

\* A rank-complete trial is one without an error, whatever its statuses.
countTrial(c, t) ==
  [warmOk  |-> c.warmOk  + (IF t.warm /\ t.out # "err" THEN 1 ELSE 0),
   warmErr |-> c.warmErr + (IF t.warm /\ t.out = "err" THEN 1 ELSE 0),
   ok      |-> c.ok      + (IF ~t.warm /\ t.out # "err" THEN 1 ELSE 0),
   err     |-> c.err     + (IF ~t.warm /\ t.out = "err" THEN 1 ELSE 0),
   conns   |-> c.conns \union {t.conn}]

-----------------------------------------------------------------------------
(* The measurement.                                                        *)

newMeasurement(w) ==
  [attempted |-> 0, complete |-> 0, incomplete |-> 0, retained |-> 0, excluded |-> 0,
   warmOk |-> 0, warmErr |-> 0, conns |-> {},
   cycles |-> [c \in {} |-> 0], cyclesAttempted |-> 0, cyclesRetained |-> 0,
   cyclesIncomplete |-> 0, tally |-> ZeroTally(w), err |-> FALSE]

newCycle(w) == [received |-> 0, completeTrials |-> 0, incomplete |-> FALSE,
                shifts |-> {}, tally |-> ZeroTally(w)]

\* Mutant: a cycle is kept once all its shifts were received, failed or not.
finaliseCycle_Received(m, id, w) ==
  LET cycle == m.cycles[id]
      rest == [c \in DOMAIN m.cycles \ {id} |-> m.cycles[c]]
  IN IF cycle.received = w
     THEN [m EXCEPT !.tally = addTally(@, cycle.tally, w), !.retained = @ + w,
                    !.cyclesRetained = @ + 1, !.cycles = rest]
     ELSE [m EXCEPT !.excluded = @ + cycle.completeTrials,
                    !.cyclesIncomplete = @ + 1, !.cycles = rest]

finaliseCycle(m, id, w) ==
  LET cycle == m.cycles[id]
      complete == /\ cycle.received = w /\ cycle.completeTrials = w
                  /\ Cardinality(cycle.shifts) = w /\ ~cycle.incomplete
      rest == [c \in DOMAIN m.cycles \ {id} |-> m.cycles[c]]
  IN IF complete
     THEN [m EXCEPT !.tally = addTally(@, cycle.tally, w), !.retained = @ + w,
                    !.cyclesRetained = @ + 1, !.cycles = rest]
     ELSE [m EXCEPT !.excluded = @ + cycle.completeTrials,
                    !.cyclesIncomplete = @ + 1, !.cycles = rest]

\* One trial's share of its cycle.
receiveShift(cycle, t, w) ==
  LET valid == t.shift \in Requests(w) \ cycle.shifts
  IN [received |-> cycle.received + 1,
      completeTrials |-> cycle.completeTrials + (IF t.out = "ok" THEN 1 ELSE 0),
      incomplete |-> cycle.incomplete \/ ~valid \/ t.out # "ok",
      shifts |-> IF valid THEN cycle.shifts \union {t.shift} ELSE cycle.shifts,
      tally |-> IF t.out = "ok" THEN tallyTrial(cycle.tally, t, w) ELSE cycle.tally]

observeCycle(m, t, w) ==
  LET fresh  == t.cycle \notin DOMAIN m.cycles
      cycle  == receiveShift(IF fresh THEN newCycle(w) ELSE m.cycles[t.cycle], t, w)
      stored == [m EXCEPT !.cycles = [c \in DOMAIN @ \union {t.cycle} |->
                                        IF c = t.cycle THEN cycle ELSE @[c]],
                          !.cyclesAttempted = @ + (IF fresh THEN 1 ELSE 0)]
  IN IF cycle.received = w THEN finaliseCycle(stored, t.cycle, w) ELSE stored

\* observe.  A rank-complete trial that fails validation has been counted as
\* attempted when observe returns its error.
observe(m, t, w, policy) ==
  LET seen == [m EXCEPT !.conns = @ \union {t.conn}]
  IN CASE t.warm -> [seen EXCEPT !.warmOk = @ + (IF t.out = "err" THEN 0 ELSE 1),
                                 !.warmErr = @ + (IF t.out = "err" THEN 1 ELSE 0)]
       [] ~t.warm /\ t.out = "bad" -> [seen EXCEPT !.attempted = @ + 1, !.err = TRUE]
       [] OTHER ->
            LET counted == [seen EXCEPT !.attempted = @ + 1,
                              !.complete = @ + (IF t.out = "ok" THEN 1 ELSE 0),
                              !.incomplete = @ + (IF t.out = "ok" THEN 0 ELSE 1)]
            IN CASE policy = "rotate" -> observeCycle(counted, t, w)
                 [] policy # "rotate" /\ t.out = "ok" ->
                      [counted EXCEPT !.tally = tallyTrial(@, t, w), !.retained = @ + 1]
                 [] OTHER -> counted

\* Mutant: open cycles are left out of the accounts.
finish_Open(m, w) == {}

\* finish closes every cycle still open, in the order a map gives them: what it
\* may do next, and nothing once all are closed.
finish(m, w) == {finaliseCycle(m, id, w) : id \in DOMAIN m.cycles}

\* reconcile, against what the transport tallied for itself.
reconcile(m, transport, w, policy) ==
  LET reference == IF policy # "rotate" THEN transport ELSE m.tally
  IN /\ \A r \in Requests(w) : m.tally.statuses[r] = reference.trials
     /\ \A r \in Requests(w) : m.tally.rank[r] = reference.rank[r]
     /\ \A l, r \in Requests(w) :
          IF l = r THEN m.tally.before[l][r] = 0
          ELSE m.tally.before[l][r] + m.tally.before[r][l] = m.retained

-----------------------------------------------------------------------------
(* The analyse collector.                                                  *)

newAnalyseCollector ==
  [attempted |-> 0, completed |-> 0, warmOk |-> 0, warmErr |-> 0, conns |-> {},
   attemptedCycles |-> {}, cycles |-> [c \in {} |-> <<>>], issue |-> "none",
   sinkFailed |-> FALSE]

\* fail keeps the first issue.
failCollector(c, code) == IF c.issue = "none" THEN [c EXCEPT !.issue = code] ELSE c

\* collector.observe after the sink has been offered the observation; a trial
\* with an invalid status is not rank-complete here.
collect(c, t, w, planned) ==
  LET seen == [c EXCEPT !.conns = @ \union {t.conn}]
      counted == [seen EXCEPT !.attempted = @ + 1,
                    !.attemptedCycles = IF t.cycle \in 0..(planned - 1)
                                        THEN @ \union {t.cycle} ELSE @]
      whole == [counted EXCEPT !.completed = @ + 1]
      held  == IF t.cycle \in DOMAIN c.cycles THEN c.cycles[t.cycle] ELSE <<>>
  IN CASE t.warm -> [seen EXCEPT !.warmOk = @ + (IF t.out = "ok" THEN 1 ELSE 0),
                                 !.warmErr = @ + (IF t.out = "ok" THEN 0 ELSE 1)]
       [] ~t.warm /\ t.out # "ok" -> failCollector(counted, "incomplete_cycle")
       [] ~t.warm /\ t.out = "ok" /\ t.cycle \notin 0..(planned - 1) ->
            failCollector(whole, "incomplete_cycle")
       [] ~t.warm /\ t.out = "ok" /\ (t.shift \notin Requests(w)
             \/ \E i \in DOMAIN held : held[i].shift = t.shift) ->
            failCollector(whole, "invalid_shift")
       [] OTHER ->
            [whole EXCEPT !.cycles = [k \in DOMAIN @ \union {t.cycle} |->
                IF k = t.cycle
                THEN Append(held, [conn |-> t.conn, shift |-> t.shift, ranks |-> t.ranks])
                ELSE @[k]]]

\* collector.finish: the whole cycles, and the first issue met.
finishCollector(c, w, planned, runErr) ==
  LET ended == IF runErr # "none" THEN failCollector(c, "interrupted") ELSE c
      whole == {k \in DOMAIN c.cycles : Len(c.cycles[k]) = w}
      short == IF whole # DOMAIN c.cycles THEN failCollector(ended, "incomplete_cycle") ELSE ended
  IN [evidence |-> [k \in whole |-> c.cycles[k]],
      collector |-> IF Cardinality(DOMAIN c.cycles) # planned
                    THEN failCollector(short, "incomplete_cycle") ELSE short]

\* validateAnalyseEvidence, for the arrangements rotation gives; floor is the
\* number of cycles a width needs.
validateAnalyseEvidence(evidence, issue, w, floor) ==
  LET rankCount == checkedProduct(<<Cardinality(DOMAIN evidence), w, w>>)
  IN CASE issue # "none" -> issue
       [] w \notin 2..8 -> "unsupported_width"
       [] Cardinality(DOMAIN evidence) < floor -> "insufficient_cycles"
       [] ~rankCount.ok \/ rankCount.value > MaxOperations -> "evidence_too_large"
       [] \E k \in DOMAIN evidence : {evidence[k][i].shift : i \in DOMAIN evidence[k]} # Requests(w)
            -> "invalid_shift"
       [] \E k \in DOMAIN evidence : \E i \in DOMAIN evidence[k] :
            evidence[k][i].conn # evidence[k][1].conn -> "mixed_connections"
       [] OTHER -> "valid"

-----------------------------------------------------------------------------
(* Execution accounts.  planned is -1 for a race without a maximum; a      *)
(* command without cycles has cycles <<>>.                                 *)

Replacements(conns, plannedConns) == Cardinality({id \in conns : id >= plannedConns})

sharedExecution(conns, plannedConns, warmOk, warmErr, pw, attempted, complete, retained, w) ==
  [planned |-> plannedConns, observed |-> Cardinality(conns),
   replacements |-> Replacements(conns, plannedConns),
   primingAttempted |-> warmOk + warmErr, primingComplete |-> warmOk, primingIncomplete |-> warmErr,
   primingOps |-> checkedProduct(<<warmOk + warmErr, pw>>),
   primingOpsComplete |-> checkedProduct(<<warmOk, pw>>),
   ops |-> checkedProduct(<<attempted, w>>), opsComplete |-> checkedProduct(<<complete, w>>),
   opsRetained |-> checkedProduct(<<retained, w>>)]

projectRaceExecution(c, planned, plannedConns, w, pw) ==
  [shared |-> sharedExecution(c.conns, plannedConns, c.warmOk, c.warmErr, pw,
                              c.ok + c.err, c.ok, c.ok, w),
   planned |-> planned, attempted |-> c.ok + c.err, complete |-> c.ok, incomplete |-> c.err,
   unattempted |-> IF planned < 0 THEN 0 ELSE planned - (c.ok + c.err),
   retained |-> c.ok, excluded |-> 0, cycles |-> <<>>]

measureExecution(m, planned, plannedConns, w, pw, policy) ==
  [shared |-> sharedExecution(m.conns, plannedConns, m.warmOk, m.warmErr, pw,
                              m.attempted, m.complete, m.retained, w),
   planned |-> planned, attempted |-> m.attempted, complete |-> m.complete,
   incomplete |-> m.incomplete, unattempted |-> planned - m.attempted,
   retained |-> m.retained, excluded |-> m.excluded,
   cycles |-> IF policy # "rotate" THEN <<>>
              ELSE <<[planned |-> planned \div w, attempted |-> m.cyclesAttempted,
                      complete |-> m.cyclesRetained, incomplete |-> m.cyclesIncomplete,
                      unattempted |-> Max({0, (planned \div w) - m.cyclesAttempted}),
                      retained |-> m.cyclesRetained]>>]

executionAccounting(c, evidence, valid, plannedCycles, plannedConns, w, pw) ==
  LET whole    == Cardinality(DOMAIN evidence)
      retained == IF valid THEN whole ELSE 0
  IN [shared |-> sharedExecution(c.conns, plannedConns, c.warmOk, c.warmErr, pw,
                                 c.attempted, c.completed, retained * w, w),
      planned |-> plannedCycles * w, attempted |-> c.attempted, complete |-> c.completed,
      incomplete |-> c.attempted - c.completed, unattempted |-> plannedCycles * w - c.attempted,
      retained |-> retained * w, excluded |-> c.completed - retained * w,
      cycles |-> <<[planned |-> plannedCycles, attempted |-> Cardinality(c.attemptedCycles),
                    complete |-> whole,
                    incomplete |-> Cardinality(c.attemptedCycles) - whole,
                    unattempted |-> plannedCycles - Cardinality(c.attemptedCycles),
                    retained |-> retained]>>]

NonNegative(values) == \A v \in values : v >= 0

validateSharedExecution(s) ==
  /\ s.primingOps.ok /\ s.primingOpsComplete.ok /\ s.ops.ok /\ s.opsComplete.ok /\ s.opsRetained.ok
  /\ s.replacements <= s.observed
  /\ s.primingComplete <= s.primingAttempted
  /\ s.primingIncomplete = s.primingAttempted - s.primingComplete
  /\ s.opsRetained.value <= s.opsComplete.value /\ s.opsComplete.value <= s.ops.value

validateRaceExecution(e) ==
  /\ validateSharedExecution(e.shared)
  /\ e.complete <= e.attempted /\ e.incomplete = e.attempted - e.complete
  /\ e.planned >= 0 => /\ e.attempted <= e.planned
                       /\ e.unattempted = e.planned - e.attempted

\* The trial arithmetic measure and analyse share.
validateTrialCounts(e) ==
  /\ validateSharedExecution(e.shared)
  /\ NonNegative({e.planned, e.attempted, e.complete, e.incomplete, e.unattempted,
                  e.retained, e.excluded})
  /\ e.attempted <= e.planned
  /\ e.incomplete = e.attempted - e.complete
  /\ e.unattempted = e.planned - e.attempted
  /\ e.excluded = e.complete - e.retained

validateMeasureExecution(e, w) ==
  /\ validateTrialCounts(e)
  /\ e.cycles # <<>> =>
       LET c == e.cycles[1] IN
       /\ NonNegative({c.planned, c.attempted, c.retained, c.incomplete, c.unattempted})
       /\ c.attempted <= c.planned /\ c.retained <= c.attempted
       /\ c.incomplete = c.attempted - c.retained
       /\ c.unattempted = c.planned - c.attempted
       /\ c.planned * w = e.planned /\ c.retained * w = e.retained
       /\ c.attempted <= e.attempted /\ e.attempted <= c.attempted * w

validateAnalyseExecution(e, w) ==
  LET c == e.cycles[1] IN
  /\ validateTrialCounts(e)
  /\ NonNegative({c.planned, c.attempted, c.complete, c.incomplete, c.unattempted, c.retained})
  /\ c.attempted <= c.planned /\ c.complete <= c.attempted /\ c.retained <= c.complete
  /\ c.incomplete = c.attempted - c.complete
  /\ c.unattempted = c.planned - c.attempted
  /\ c.planned * w = e.planned /\ c.complete * w <= e.complete /\ c.retained * w = e.retained
  /\ c.attempted <= e.attempted /\ e.attempted <= c.attempted * w

-----------------------------------------------------------------------------
(* Completions: [state, code].  An error is "none", "canceled", "deadline" *)
(* or a concrete one; a live context's cause is "none", "canceled" or      *)
(* "timeout" (errRunTimeout).                                              *)

Concrete(err) == err \notin {"none", "canceled", "deadline"}

completedRun == [state |-> "complete", code |-> "none"]
stoppedRun   == [state |-> "stopped", code |-> "interrupted"]

failedRun(err, fallback) ==
  [state |-> "failed",
   code |-> CASE err = "deadline" -> "deadline_exceeded"
              [] err = "canceled" -> "interrupted"
              [] OTHER            -> fallback]

\* Mutant: the deadline hides a concrete error.
liveRunFailed_Deadline(err, cause, fallback) ==
  CASE cause = "timeout" -> [state |-> "failed", code |-> "run_timeout"]
    [] cause # "timeout" /\ err # "none" -> failedRun(err, fallback)
    [] err = "none" /\ cause = "canceled" -> failedRun(cause, fallback)
    [] OTHER -> completedRun

liveRunFailed(err, cause, fallback) ==
  CASE Concrete(err)     -> failedRun(err, fallback)
    [] ~Concrete(err) /\ cause = "timeout" -> [state |-> "failed", code |-> "run_timeout"]
    [] ~Concrete(err) /\ cause # "timeout" /\ err # "none" -> failedRun(err, fallback)
    [] err = "none" /\ cause = "canceled" -> failedRun(cause, fallback)
    [] OTHER -> completedRun

\* liveRunError chooses the same way for a run that never reached its report.
liveRunError(err, cause) ==
  CASE Concrete(err)       -> err
    [] ~Concrete(err) /\ cause = "timeout" -> "run_timeout"
    [] OTHER               -> IF err # "none" THEN err ELSE cause

finaliseLiveCompletion(completion, cause, fallback) ==
  IF \/ completion.state = "failed" /\ completion.code \notin {"interrupted", "deadline_exceeded"}
     \/ cause = "none"
  THEN completion
  ELSE liveRunFailed("none", cause, fallback)

\* A failed run that was interrupted is a clean stop when the context given is
\* cancelled.
stopInterruptedRun(cancelled, completion) ==
  IF cancelled /\ completion.state = "failed" /\ completion.code = "interrupted"
  THEN stoppedRun ELSE completion
=============================================================================
