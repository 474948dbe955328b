----------------------------- MODULE CommandRun -----------------------------
(***************************************************************************)
(* One race, measure or analyse command from its parsed command line to    *)
(* its exit status: the plan, the live phase with its deadline, the path   *)
(* fit, the report stream, the loop over the trials of tth2's TrialStream, *)
(* the live boundary, the accounts and the terminal record.                *)
(*                                                                         *)
(* The user may interrupt and the run deadline may fire between any two    *)
(* steps of the command, any write to the report may be the first that     *)
(* fails, and the stream yields what TrialStream.tla allows: each cycle's  *)
(* shifts in order, cycles of different connections interleaved, failed    *)
(* trials in place, nothing failed after cancellation.                     *)
(***************************************************************************)
EXTENDS RunAccounts

CONSTANTS Configs,    \* the command lines
          RTTs,       \* path round trips a PING may measure
          CycleFloor, \* bound: analysePairResolutionFloor, small enough to reach
          MaxYields,  \* bound: measured trials of an unlimited race
          MaxPriming, \* bound: priming trials yielded
          MaxBad      \* bound: responses with a status outside 100..999

\* A command line names one of the three commands, and its request lists have
\* lengths, which the provers cannot find out for themselves: SelectSeq is closed
\* to them.
ASSUME CommandAssumption ==
  \A c \in Configs :
    /\ c.cmd \in {"race", "measure", "analyse"}
    /\ Len(materialise(c.blocks).reqs) \in Nat
    /\ Len(allRequests(materialise(c.blocks))) \in Nat

VARIABLES
  cfg,       \* the command line
  plan,      \* what it resolved to
  pc,        \* where the command is
  parent,    \* the command's context: "live" or "cancelled"
  timer,     \* the run deadline: "off", "armed", "fired"
  cause,     \* context.Cause of the live phase's context
  driving,   \* FALSE once cancelDrive was called
  stream,    \* what the stream yielded: open cycles, next index, priming, bad
  streamErr, \* stream.Err() once the stream ended
  summary,   \* stream.Summary(), which only a measurement reads
  acc,       \* the command's own account of the trials
  failure,   \* reportErr or evidenceErr: "none", "io", "pipe", "evidence"
  out,       \* the structured stream
  boundary,  \* the cause live.finish returned
  log,       \* history: the measured trials handed to a measurement, by place
  result     \* [exit, completion] once known

vars == <<cfg, plan, pc, parent, timer, cause, driving, stream, streamErr, summary, acc,
          failure, out, boundary, log, result>>
envVars  == <<parent, timer, cause>>
liveVars == <<driving, stream, streamErr, summary, acc, failure, boundary, log>>

NoCompletion == [state |-> "none", code |-> "none"]
Unset == [exit |-> -1, completion |-> NoCompletion]

Perms(w) == {f \in [Requests(w) -> Requests(w)] : \A i, j \in Requests(w) : i # j => f[i] # f[j]}

Init ==
  /\ cfg \in Configs
  /\ plan = <<>> /\ pc = "plan"
  /\ parent = "live" /\ timer = "off" /\ cause = "none"
  /\ driving = TRUE
  /\ stream = [open |-> [c \in {} |-> 0], last |-> [c \in {} |-> 0],
               started |-> 0, index |-> 0, priming |-> 0, bad |-> 0]
  /\ streamErr = "none" /\ summary = <<>> /\ acc = <<>> /\ failure = "none"
  /\ out = [started |-> FALSE, count |-> 0, next |-> 0, finished |-> FALSE,
            poison |-> "none", records |-> <<>>]
  /\ boundary = "none" /\ log = {} /\ result = Unset

\* The command returns: runCLI turns a usage error into 2, any other into 1.
Return(code, completion) ==
  /\ pc' = "done"
  /\ result' = [exit |-> code, completion |-> completion]

-----------------------------------------------------------------------------
(* Planning, before anything is opened.                                    *)

cycleFloor(w) == Min({CycleFloor, analysePairResolutionFloor(w)})

\* The workload of each command: [err, planned, cycles].
planWork(c, w) ==
  CASE c.cmd = "race" ->
         LET r == parseRace(c.requested, c.arrange)
             t == IF c.requested < 0 THEN [ok |-> TRUE, value |-> -1]
                  ELSE resolveTrials(c.requested, w, r.policy)
         IN [ok |-> t.ok, policy |-> r.policy, planned |-> t.value, cycles |-> 0]
    [] c.cmd = "measure" ->
         LET m == parseMeasure(c.unit, c.requested, c.arrange)
             b == resolveMeasureBudget(m, w)
         IN [ok |-> m.err = "none" /\ w >= 2 /\ b.ok, policy |-> m.policy,
             planned |-> b.value, cycles |-> 0]
    [] c.cmd = "analyse" ->
         LET a == resolveAnalyseWorkload(w, c.requested, cycleFloor(w))
         IN [ok |-> a.err = "none", policy |-> "rotate", planned |-> a.trials,
             cycles |-> a.cycles]

Plan ==
  /\ pc = "plan"
  /\ LET m    == materialise(cfg.blocks)
         w    == Len(m.reqs)
         work == planWork(cfg, w)
         t    == transportTuning(cfg.flags)
         usage == \/ t.err # "none" \/ resolveRoles(cfg.blocks, cfg.warmup) # "none"
                  \/ w = 0 \/ ~work.ok
     IN /\ plan' = [w |-> w, pw |-> warmupBatchWidth(m, cfg.warmup),
                    aw |-> activeBatchWidth(m, w, cfg.warmup),
                    policy |-> work.policy, planned |-> work.planned, cycles |-> work.cycles,
                    tuning |-> t, conns |-> 0,
                    requests |-> Len(allRequests(m)), labels |-> Len(m.a.labels)]
        /\ IF usage THEN Return(2, NoCompletion)
           ELSE /\ pc' = "fit" /\ UNCHANGED result
  /\ UNCHANGED <<cfg, envVars, liveVars, out>>

\* The units of work connections can share; analyse gives whole cycles.
workLimit == IF cfg.cmd = "analyse" THEN plan.cycles
             ELSE trialConnectionWorkLimit(plan.planned, plan.w, plan.policy)

steady == cfg.cmd # "race" \/ plan.planned # 1

\* --dry-run: the plan as far as it is known without the network, then exit.
DryRun ==
  /\ pc = "fit" /\ cfg.dryRun
  /\ LET p == previewDeliveryPlan(plan.tuning, plan.w, plan.aw, workLimit, steady)
         stated == cfg.cmd = "measure" =>
           workload(plan.planned, plan.w, cfg.warmup, plan.pw, p.connectionLimit).ok
     IN \E code \in {0, 1, 2} :
          /\ IF p.err # "none" THEN code = 2 ELSE (code = 0 /\ stated) \/ code = 1
          /\ Return(code, NoCompletion)
  /\ UNCHANGED <<cfg, plan, envVars, liveVars, out>>

\* startLiveRunPhase: a context already cancelled gives a live phase that is too.
StartLive ==
  /\ pc = "fit" /\ ~cfg.dryRun /\ timer = "off" /\ cause = "none" /\ plan.conns = 0
  /\ timer' = IF cfg.timeout THEN "armed" ELSE "off"
  /\ cause' = IF parent = "cancelled" THEN "canceled" ELSE "none"
  /\ pc' = "ping"
  /\ UNCHANGED <<cfg, plan, parent, liveVars, out, result>>

LiveError == CASE cause = "timeout" -> "deadline" [] cause = "canceled" -> "canceled" [] OTHER -> "none"

\* fitPipeline.  A failed fit ends the live phase and returns its own error or
\* the phase's cause, whichever liveRunError prefers.
FitFails ==
  /\ pc = "ping"
  /\ NeedsPath(plan.tuning, plan.w, steady)
  /\ \E err \in {"dial", LiveError} \ {"none"} :
       /\ liveRunError(err, cause) # "none"
       /\ Return(1, NoCompletion)
  /\ boundary' = cause /\ timer' = "off"
  /\ UNCHANGED <<cfg, plan, parent, cause, driving, stream, streamErr, summary, acc, failure, out, log>>

Fit ==
  /\ pc = "ping"
  /\ NeedsPath(plan.tuning, plan.w, steady) => cause = "none"
  /\ \E rtt \in RTTs :
       LET t == fitPipeline(plan.tuning, plan.w, plan.aw, workLimit, steady, rtt)
           primed == cfg.cmd # "analyse" \/ validateAnalyseWarmup(plan.pw, cfg.warmup, t.connectionLimit)
       IN /\ plan' = [plan EXCEPT !.tuning = t, !.conns = t.connectionLimit]
          /\ IF t.err # "none" \/ ~primed
             THEN Return(IF t.err # "none" THEN 1 ELSE 2, NoCompletion)
             ELSE /\ pc' = "header" /\ UNCHANGED result
  /\ UNCHANGED <<cfg, envVars, liveVars, out>>

-----------------------------------------------------------------------------
(* The report stream.  encode fails once and poisons the stream.           *)

checkRequest  == out.started /\ ~out.finished /\ out.next < out.count
checkEvidence == out.started /\ ~out.finished /\ out.next = out.count

\* A write that succeeds, or the first that fails; a closed pipe is told apart
\* only on the process's own standard output.
Encode(kind, next) ==
  \/ /\ out.poison = "none"
     /\ out' = [next EXCEPT !.records = Append(@, kind)]
  \/ /\ out.poison = "none"
     /\ \E e \in {"io", "pipe"} : out' = [out EXCEPT !.poison = e]

Failed == out'.poison # "none"

\* isClosedPipe makes a vanished reader a quiet success.
WriteFailed(e) == IF e = "pipe" /\ cfg.pipe THEN 0 ELSE 1

\* A framing check that fails is an error of the command, not a write.
Misframed == /\ Return(1, NoCompletion) /\ UNCHANGED out

\* The run record and, one by one, the request catalogue.  openReportDestination
\* may fail first, and a delivery or workload that cannot be stated is an error.
Header ==
  /\ pc = "header"
  /\ \/ /\ ~out.started /\ Return(1, NoCompletion) /\ UNCHANGED <<out, acc, summary>>
     \/ /\ ~out.started
        /\ IF cfg.json THEN makeStructuredDelivery(plan.tuning, plan.w)
           ELSE cfg.cmd = "measure" => workload(plan.planned, plan.w, cfg.warmup, plan.pw, plan.conns).ok
        /\ Encode("run", [out EXCEPT !.started = TRUE, !.count = plan.requests])
        /\ acc' = CASE cfg.cmd = "race"    -> raceCounters
                    [] cfg.cmd = "measure" -> newMeasurement(plan.w)
                    [] cfg.cmd = "analyse" -> newAnalyseCollector
        /\ summary' = ZeroTally(plan.w)
        /\ IF Failed THEN Return(WriteFailed(out'.poison), NoCompletion)
           ELSE UNCHANGED <<pc, result>>
     \/ /\ out.started /\ out.next < plan.labels
        /\ IF ~checkRequest THEN Misframed
           ELSE /\ Encode("request", [out EXCEPT !.next = @ + 1])
                /\ IF Failed THEN Return(WriteFailed(out'.poison), NoCompletion)
                   ELSE UNCHANGED <<pc, result>>
        /\ UNCHANGED <<acc, summary>>
     \/ /\ out.started /\ out.next = plan.labels
        /\ pc' = "drive"
        /\ UNCHANGED <<out, acc, summary, result>>
  /\ UNCHANGED <<cfg, plan, envVars, driving, stream, streamErr, failure, boundary, log>>

-----------------------------------------------------------------------------
(* The trial loop.                                                         *)

DriveDone == ~driving \/ cause # "none"

\* Nothing is left to yield: a race without a maximum goes on.
AllYielded ==
  IF plan.policy = "rotate"
  THEN stream.started = plan.planned \div plan.w /\ DOMAIN stream.open = {}
  ELSE stream.index = plan.planned

Yields == IF plan.planned < 0 THEN MaxYields ELSE plan.planned

\* The orders a trial may be sent in; only a measurement reads them.
InOrder == [i \in Requests(plan.w) |-> i]
Bases == IF cfg.cmd = "measure" /\ plan.policy # "none" THEN Perms(plan.w) ELSE {InOrder}

\* The places the stream may fill next: [cycle, shift, base, conn].
NextPlaces ==
  IF plan.policy # "rotate"
  THEN IF stream.index < Yields
       THEN {[cycle |-> -1, shift |-> -1, base |-> b, conn |-> k] : b \in Bases, k \in 0..plan.conns}
       ELSE {}
  ELSE {[cycle |-> c, shift |-> stream.open[c], base |-> stream.last[c].base, conn |-> k] :
          c \in DOMAIN stream.open, k \in {0, plan.conns}}
       \union
       (IF stream.started < Yields \div plan.w /\ Cardinality(DOMAIN stream.open) < plan.conns
        THEN {[cycle |-> stream.started, shift |-> 0, base |-> b, conn |-> k] :
                b \in Bases, k \in {0, plan.conns}}
        ELSE {})

\* A cycle stays on its connection until a trial of it fails.
ConnAllowed(p) ==
  p.cycle \in DOMAIN stream.last =>
    \/ p.conn = stream.last[p.cycle].conn
    \/ stream.last[p.cycle].out = "err" /\ p.conn = plan.conns

\* base is the cycle's base.
Advance(t, base) ==
  IF t.cycle < 0 THEN [stream EXCEPT !.index = @ + 1]
  ELSE LET after == t.shift + 1
           keep  == IF after = plan.w THEN DOMAIN stream.open \ {t.cycle}
                    ELSE DOMAIN stream.open \union {t.cycle}
       IN [stream EXCEPT !.started = Max({@, t.cycle + 1}), !.index = @ + 1,
             !.open = [c \in keep |-> IF c = t.cycle THEN after ELSE @[c]],
             !.last = [c \in keep |-> IF c = t.cycle
                                      THEN [conn |-> t.conn, out |-> t.out, base |-> base]
                                      ELSE @[c]]]

\* What became of a trial: [out, ranks].  Only a measurement reads the ranks.
Outcomes ==
  {[out |-> "ok", ranks |-> r] : r \in IF cfg.cmd = "measure" THEN Perms(plan.w) ELSE {InOrder}}
    \union (IF DriveDone THEN {} ELSE {[out |-> "err", ranks |-> InOrder]})
    \union (IF stream.bad = MaxBad THEN {} ELSE {[out |-> "bad", ranks |-> InOrder]})

\* What the stream hands over next.
Trials ==
  {[trial |-> [warm |-> FALSE, cycle |-> p.cycle, shift |-> p.shift, conn |-> p.conn,
               arr |-> Arrangement(plan.policy, p.base, p.shift, plan.w),
               out |-> o.out, ranks |-> o.ranks],
    base |-> p.base] :
     p \in {q \in NextPlaces : ConnAllowed(q)}, o \in Outcomes}

Priming ==
  IF cfg.warmup = 0 \/ stream.priming = MaxPriming THEN {}
  ELSE {[trial |-> [warm |-> TRUE, cycle |-> -1, shift |-> -1, conn |-> k, arr |-> InOrder,
                    out |-> o, ranks |-> InOrder],
         base |-> InOrder] : k \in {0, plan.conns}, o \in {"ok", "err"}}

Place(t) == IF t.cycle < 0 THEN <<stream.index>> ELSE <<t.cycle, t.shift>>

\* A race writes each trial before it counts it; the first failed write cancels
\* the drive, and the loop drains without looking.
raceTrial(t) ==
  IF failure # "none" THEN UNCHANGED <<acc, failure, driving, out>>
  ELSE IF ~checkEvidence
  THEN /\ failure' = "io" /\ driving' = FALSE /\ UNCHANGED <<acc, out>>
  ELSE /\ Encode("evidence", out)
       /\ failure' = out'.poison
       /\ driving' = ~Failed
       /\ acc' = IF Failed THEN acc ELSE countTrial(acc, t)

\* Measure writes nothing before its summary; malformed evidence cancels the
\* drive.
measureTrial(t) ==
  /\ IF failure # "none" THEN UNCHANGED <<acc, failure, driving>>
     ELSE LET m == observe(acc, t, plan.w, plan.policy)
          IN /\ acc' = m
             /\ failure' = IF m.err THEN "evidence" ELSE "none"
             /\ driving' = (driving /\ ~m.err)
  /\ UNCHANGED out

\* Analyse keeps collecting after its sink failed.  Only a JSON report has a
\* sink, and priming trials are not offered to it.
analyseTrial(t) ==
  LET collected == collect(acc, t, plan.w, plan.cycles)
  IN IF t.warm \/ ~cfg.json
     THEN /\ acc' = collected /\ UNCHANGED <<failure, driving, out>>
     ELSE /\ \/ out.poison = "none" /\ checkEvidence /\ Encode("evidence", out)
             \/ out.poison # "none" /\ UNCHANGED out
          /\ acc' = IF Failed
                    THEN [failCollector(collected, "incomplete_cycle") EXCEPT !.sinkFailed = TRUE]
                    ELSE collected
          /\ driving' = (driving /\ ~Failed)
          /\ UNCHANGED failure

\* One trial of stream.All, handed to the command.
Trial ==
  /\ pc = "drive"
  /\ \E y \in Trials \union Priming :
       LET t == y.trial IN
       /\ stream' = IF t.warm THEN [stream EXCEPT !.priming = @ + 1]
                    ELSE [Advance(t, y.base) EXCEPT !.bad = @ + (IF t.out = "bad" THEN 1 ELSE 0)]
       /\ IF t.warm \/ failure # "none" \/ cfg.cmd # "measure" THEN UNCHANGED <<summary, log>>
          ELSE /\ summary' = IF t.out = "err" THEN summary ELSE tallyTrial(summary, t, plan.w)
               /\ log' = log \union {[place |-> Place(t), out |-> t.out, ranks |-> t.ranks, arr |-> t.arr]}
       /\ CASE cfg.cmd = "race"    -> raceTrial(t)
            [] cfg.cmd = "measure" -> measureTrial(t)
            [] cfg.cmd = "analyse" -> analyseTrial(t)
  /\ UNCHANGED <<cfg, plan, pc, envVars, streamErr, boundary, result>>

\* The stream ends with everything yielded, with its context's error, or with
\* a failure of its own (priming, dialling, the peer's stream limit).
StreamEnds ==
  /\ pc = "drive"
  /\ \/ AllYielded /\ streamErr' = "none"
     \/ ~AllYielded /\ DriveDone
        /\ streamErr' = IF cause = "timeout" /\ driving THEN "deadline" ELSE "canceled"
     \/ ~AllYielded /\ ~DriveDone /\ streamErr' = "transport"
  /\ pc' = "boundary"
  /\ UNCHANGED <<cfg, plan, envVars, driving, stream, summary, acc, failure, out, boundary, log, result>>

\* live.finish: the cause is read, then the phase's own timer cancelled.
LiveFinish ==
  /\ pc = "boundary"
  /\ boundary' = cause
  /\ timer' = IF timer = "armed" THEN "off" ELSE timer
  /\ pc' = "settle"
  /\ UNCHANGED <<cfg, plan, parent, cause, driving, stream, streamErr, summary, acc, failure, out, log, result>>

-----------------------------------------------------------------------------
(* Settling: completion, accounts, the terminal record, the exit status.   *)

\* Race and measure.  The context race looks at is the command's; measure was
\* handed the live phase's, which live.finish has cancelled unless the deadline
\* had ended it.
liveCompletion ==
  IF failure # "none" THEN failedRun(failure, "internal_error")
  ELSE IF streamErr = "none" /\ boundary = "none" THEN completedRun
  ELSE stopInterruptedRun(IF cfg.cmd = "race" THEN parent = "cancelled" ELSE boundary # "timeout",
                          liveRunFailed(streamErr, boundary, "acquisition_failed"))

analyseCompletion ==
  LET collected == CASE acc.sinkFailed     -> failedRun("sink", "internal_error")
                     [] ~acc.sinkFailed /\ streamErr # "none" -> failedRun(streamErr, "acquisition_failed")
                     [] OTHER -> completedRun
  IN stopInterruptedRun(parent = "cancelled",
       finaliseLiveCompletion(collected, boundary, "acquisition_failed"))

\* terminalErr is nil for a clean run and for an interrupted unlimited race; a
\* stop of a bounded run is an error even when the stream had ended by itself.
liveExit(completion) ==
  IF completion.state = "complete" THEN 0
  ELSE IF completion.state = "stopped" /\ cfg.cmd = "race" /\ plan.planned < 0 THEN 0 ELSE 1

\* A measurement closes its open cycles before anything is reported.
Finish ==
  /\ pc = "settle" /\ cfg.cmd = "measure"
  /\ acc' \in finish(acc, plan.w)
  /\ UNCHANGED <<cfg, plan, pc, envVars, driving, stream, streamErr, summary, failure, out,
                 boundary, log, result>>

\* The terminal record, and what the command returns after it.
Terminal(completion, code) ==
  IF ~checkEvidence \/ out.poison # "none"
  THEN /\ Return(IF out.poison # "none" THEN WriteFailed(out.poison) ELSE 1, completion)
       /\ UNCHANGED out
  ELSE /\ Encode("result", [out EXCEPT !.finished = TRUE])
       /\ Return(IF Failed THEN WriteFailed(out'.poison) ELSE code, completion)

raceSettles ==
  LET e == projectRaceExecution(acc, plan.planned, plan.conns, plan.w, plan.pw)
  IN IF failure \in {"io", "pipe"}
     THEN /\ Return(WriteFailed(failure), NoCompletion) /\ UNCHANGED out
     ELSE IF ~validateRaceExecution(e)
     THEN /\ Return(1, NoCompletion) /\ UNCHANGED out
     ELSE Terminal(liveCompletion, liveExit(liveCompletion))

measureSettles ==
  LET m == acc
      sound == failure # "none" \/ reconcile(m, summary, plan.w, plan.policy)
      completion == IF sound THEN liveCompletion ELSE failedRun("reconcile", "internal_error")
      e == measureExecution(m, plan.planned, plan.conns, plan.w, plan.pw, plan.policy)
      code == IF completion.state = "complete" /\ m.retained = 0 THEN 1 ELSE liveExit(completion)
  IN /\ finish(m, plan.w) = {}
     /\ IF ~validateMeasureExecution(e, plan.w)
        THEN /\ Return(1, NoCompletion) /\ UNCHANGED out
        ELSE Terminal(completion, code)

\* The inference itself (difference or no detection) does not reach the exit
\* status; only its availability does.
analyseSettles ==
  LET f == finishCollector(acc, plan.w, plan.cycles, streamErr)
      validity == validateAnalyseEvidence(f.evidence, f.collector.issue, plan.w, cycleFloor(plan.w))
      e == executionAccounting(acc, f.evidence, validity = "valid", plan.cycles,
                               plan.conns, plan.w, plan.pw)
      code == IF validity # "valid" \/ analyseCompletion.code = "run_timeout" THEN 1 ELSE 0
  IN IF ~validateAnalyseExecution(e, plan.w)
     THEN /\ Return(1, NoCompletion) /\ UNCHANGED out
     ELSE Terminal(analyseCompletion, code)

Settle ==
  /\ pc = "settle"
  /\ CASE cfg.cmd = "race"    -> raceSettles
       [] cfg.cmd = "measure" -> measureSettles
       [] cfg.cmd = "analyse" -> analyseSettles
  /\ UNCHANGED <<cfg, plan, envVars, liveVars>>

-----------------------------------------------------------------------------
(* The outside world.                                                      *)

\* SIGINT cancels the command's context, and with it a live phase that nothing
\* else has ended.
Interrupt ==
  /\ pc # "done" /\ parent = "live"
  /\ parent' = "cancelled"
  /\ cause' = IF cause = "none" /\ pc \notin {"plan", "fit", "settle"} THEN "canceled" ELSE cause
  /\ UNCHANGED <<cfg, plan, pc, timer, liveVars, out, result>>

Deadline ==
  /\ pc # "done" /\ timer = "armed"
  /\ timer' = "fired"
  /\ cause' = IF cause = "none" THEN "timeout" ELSE cause
  /\ UNCHANGED <<cfg, plan, pc, parent, liveVars, out, result>>

\* A command that has returned; any other state without a step is a deadlock.
Returned == pc = "done" /\ UNCHANGED vars

Next == \/ Plan \/ DryRun \/ StartLive \/ FitFails \/ Fit \/ Header \/ Trial \/ StreamEnds
        \/ LiveFinish \/ Finish \/ Settle \/ Interrupt \/ Deadline \/ Returned

Spec == Init /\ [][Next]_vars

-----------------------------------------------------------------------------
(* Properties.                                                             *)

TypeOK ==
  /\ cfg \in Configs
  /\ pc \in {"plan", "fit", "ping", "header", "drive", "boundary", "settle", "done"}
  /\ parent \in {"live", "cancelled"} /\ timer \in {"off", "armed", "fired"}
  /\ cause \in {"none", "canceled", "timeout"} /\ boundary \in {"none", "canceled", "timeout"}
  /\ driving \in BOOLEAN
  /\ failure \in {"none", "io", "pipe", "evidence"}
  /\ result.exit \in -1..2

\* The measured trials a rotating measurement may keep: those of cycles all of
\* whose shifts arrived without a failure.
Kept == IF plan.policy # "rotate" THEN {t \in log : t.out = "ok"}
        ELSE {t \in log : \A s \in Requests(plan.w) :
                \E u \in log : u.place = <<t.place[1], s>> /\ u.out = "ok"}

\* However the trials of several cycles interleave, fail or are cut short, the
\* matrices a measurement reports count exactly the kept trials, and under
\* rotation every request stood equally often at every position
\* (measurement.go: "Rotation counts are committed only when a whole cycle is
\* complete").
WholeCyclesOnly ==
  pc = "settle" /\ cfg.cmd = "measure" /\ failure = "none" /\ finish(acc, plan.w) = {} =>
    /\ acc.retained = Cardinality(Kept) /\ acc.tally.trials = Cardinality(Kept)
    /\ acc.retained + acc.excluded = Cardinality({t \in log : t.out = "ok"})
    /\ \A r, k \in Requests(plan.w) :
         acc.tally.rank[r][k] = Cardinality({t \in Kept : t.ranks[r] = k})
    /\ plan.policy = "rotate" => \A r, p \in Requests(plan.w) :
         acc.tally.assigned[r][p] * plan.w = acc.retained

\* The accounts a command projects always pass the checks of
\* execution_accounting.go and the measurement reconciles with the transport's
\* own summary, wherever an interrupt, a deadline, a failed trial or a failed
\* connection cut the run; a run stopped by malformed evidence is the exception.
AccountsBalance ==
  pc = "settle" /\ failure = "none" =>
    CASE cfg.cmd = "race" ->
           validateRaceExecution(projectRaceExecution(acc, plan.planned, plan.conns, plan.w, plan.pw))
      [] cfg.cmd = "measure" ->
           finish(acc, plan.w) = {} =>
             /\ validateMeasureExecution(
                  measureExecution(acc, plan.planned, plan.conns, plan.w, plan.pw, plan.policy), plan.w)
             /\ reconcile(acc, summary, plan.w, plan.policy)
      [] cfg.cmd = "analyse" ->
           LET f == finishCollector(acc, plan.w, plan.cycles, streamErr)
               valid == validateAnalyseEvidence(f.evidence, f.collector.issue, plan.w, cycleFloor(plan.w)) = "valid"
           IN validateAnalyseExecution(executionAccounting(acc, f.evidence, valid,
                plan.cycles, plan.conns, plan.w, plan.pw), plan.w)

\* A report is framed as the contract says (one run record, the whole request
\* catalogue, evidence, one terminal result) whatever fails, and an exit status
\* of zero means that result was written or that the reader of a pipe went away.
ReportFramed ==
  /\ \A i \in DOMAIN out.records :
       CASE out.records[i] = "run"      -> i = 1
         [] out.records[i] = "request"  -> i \in 2..(plan.requests + 1)
         [] out.records[i] = "evidence" -> i > plan.requests + 1
         [] out.records[i] = "result"   -> i = Len(out.records) /\ i > plan.requests + 1 /\ pc = "done"
  /\ result.exit = 0 => \/ cfg.dryRun
                        \/ out.records # <<>> /\ Last(out.records) = "result"
                        \/ out.poison = "pipe" /\ cfg.pipe

\* The completion a terminal record carries names what ended the run: complete
\* only with every planned trial attempted and nothing having ended the live
\* phase; stopped only for an interrupt of the command itself; run_timeout only
\* for the deadline; and neither an interrupt nor the deadline replaces a
\* failure of the stream that came with it.  The report that carries it is framed.
CompletionNamesCause ==
  /\ ReportFramed
  /\ pc = "done" /\ result.completion.state # "none" =>
    LET c == result.completion IN
    /\ c.state = "complete" => /\ boundary = "none" /\ streamErr = "none" /\ failure = "none"
                               /\ AllYielded
    /\ c.state = "stopped" => boundary = "canceled" /\ parent = "cancelled" /\ failure = "none"
    /\ c.code = "run_timeout" => boundary = "timeout" /\ timer = "fired"
    /\ streamErr = "transport" /\ failure = "none" /\ (cfg.cmd = "analyse" => ~acc.sinkFailed)
         => c.code = "acquisition_failed"
    /\ c.code = "interrupted" => c.state = "stopped"
    /\ c.code # "deadline_exceeded"
=============================================================================
