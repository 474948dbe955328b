-------------------------- MODULE CommandRunProofs --------------------------
(***************************************************************************)
(* Theorems about CommandRun: the completion a run ends with names what    *)
(* ended it and its report is framed (CompletionNamed), and a measurement  *)
(* reports exactly the trials of its whole cycles (WholeCyclesKept).       *)
(*                                                                         *)
(* The first rests on Inv: the control of the command, the consistency of  *)
(* the measurement's own accounts, and what a finished run has said.  The  *)
(* second adds the stream's open cycles (Streamed) and, for every cycle,   *)
(* what the measurement has counted of the log (Counted).                  *)
(***************************************************************************)
EXTENDS CommandRun, FiniteSetTheorems, SequenceTheorems, TLAPS

Phases == {"plan", "fit", "ping", "header", "drive", "boundary", "settle", "done"}
Causes == {"none", "canceled", "timeout"}
Live   == {"header", "drive", "boundary", "settle"}
Kinds  == {"run", "request", "evidence", "result"}

-----------------------------------------------------------------------------
(* The invariant of the command's control.                                 *)

Typed ==
  /\ cfg \in Configs /\ pc \in Phases
  /\ parent \in {"live", "cancelled"} /\ timer \in {"off", "armed", "fired"}
  /\ cause \in Causes /\ boundary \in Causes /\ driving \in BOOLEAN
  /\ streamErr \in {"none", "deadline", "canceled", "transport"}
  /\ failure \in {"none", "io", "pipe", "evidence"}
  /\ result.exit \in -1..2
  /\ pc # "done" => result = Unset
  /\ pc \notin {"plan", "done"} => plan.w \in Nat \ {0} /\ plan.requests \in Nat

\* What happened to the live phase, and who may have caused it.
CauseKept ==
  /\ cause = "canceled" => parent = "cancelled"
  /\ cause = "timeout" /\ pc # "done" => timer = "fired"
  /\ pc = "settle" => /\ boundary = "canceled" => parent = "cancelled"
                      /\ boundary = "timeout" => timer = "fired"
                      /\ timer # "armed"

\* What stopped the drive: a write, the evidence or the analyse sink.
Stopped ==
  /\ pc \notin Live \union {"done"} => driving /\ failure = "none"
  /\ pc = "header" => driving /\ failure = "none" /\ (out.started => out.poison = "none")
  /\ pc \in {"drive", "boundary", "settle"} =>
       /\ out.started
       /\ cfg.cmd = "race" => failure # "evidence" /\ (~driving => failure # "none")
       /\ cfg.cmd = "measure" => failure \in {"none", "evidence"} /\ (~driving => failure # "none")
       /\ cfg.cmd = "analyse" => failure = "none" /\ (~driving => acc.sinkFailed)
  /\ failure = "pipe" => out.poison = "pipe"
  /\ pc \in Live /\ out.started /\ cfg.cmd = "analyse" => "sinkFailed" \in DOMAIN acc

\* How the stream ended, against the cause the live phase had or was left with.
Ended ==
  LET met == IF pc = "boundary" THEN cause ELSE boundary IN
  pc \in {"boundary", "settle"} =>
    /\ streamErr = "none" => AllYielded
    /\ streamErr = "canceled" => ~driving \/ met = "canceled"
    /\ streamErr = "deadline" => met = "timeout"

\* The records of the stream, by place.
Framed ==
  /\ out = [started |-> out.started, count |-> out.count, next |-> out.next,
            finished |-> out.finished, poison |-> out.poison, records |-> out.records]
  /\ out.records \in Seq(Kinds)
  /\ out.poison \in {"none", "io", "pipe"}
  /\ out.started \in BOOLEAN /\ out.finished \in BOOLEAN
  /\ out.finished => out.started /\ pc = "done"
  /\ ~out.started => out.records = <<>> /\ out.next = 0
  /\ out.started =>
       /\ pc \in Live \union {"done"}
       /\ out.count = plan.requests /\ plan.requests \in Nat
       /\ out.next \in 0..plan.requests
       /\ Len(out.records) >= out.next + 1
       /\ out.records[1] = "run"
       /\ \A i \in 2..(out.next + 1) : out.records[i] = "request"
       /\ \A i \in (out.next + 2)..Len(out.records) :
            /\ out.next = plan.requests
            /\ \/ out.records[i] = "evidence"
               \/ out.records[i] = "result" /\ i = Len(out.records) /\ out.finished

Control == Typed /\ CauseKept /\ Stopped /\ Ended /\ Framed

-----------------------------------------------------------------------------
(* The steps before the report.                                            *)

\* The initial state satisfies the invariant.
LEMMA ControlInit == Init => Control
  BY DEF Init, Control, Typed, CauseKept, Stopped, Ended, Framed, Phases, Causes, Live, Unset

\* Planning gives a measured width that is positive.
LEMMA PlanKeeps == ASSUME Control, Plan PROVE Control'
<1> DEFINE m == materialise(cfg.blocks)
           w == Len(m.reqs)
<1>1. w \in Nat /\ Len(allRequests(m)) \in Nat
  BY CommandAssumption DEF Control, Typed
<1>2. plan'.w = w /\ plan'.requests = Len(allRequests(m))
  BY DEF Plan
<1>3. \/ pc' = "done" /\ result'.exit = 2
      \/ pc' = "fit" /\ w # 0 /\ result' = result
  BY DEF Plan, Return
<1>4. /\ pc = "plan"
      /\ UNCHANGED <<cfg, parent, timer, cause, driving, stream, streamErr, summary, acc,
                     failure, boundary, log, out>>
  BY DEF Plan, envVars, liveVars
<1> HIDE DEF m, w
<1>5. Typed'
  BY <1>1, <1>2, <1>3, <1>4 DEF Control, Typed, Phases
<1>6. CauseKept' /\ Stopped' /\ Ended'
  BY <1>3, <1>4 DEF Control, CauseKept, Stopped, Ended, Live
<1>7. Framed'
  BY <1>3, <1>4 DEF Control, Framed, Live
<1> QED BY <1>5, <1>6, <1>7 DEF Control

\* A dry run ends with the status of its preview.
LEMMA DryRunKeeps == ASSUME Control, DryRun PROVE Control'
<1>1. /\ pc = "fit" /\ pc' = "done" /\ result'.exit \in {0, 1, 2}
      /\ UNCHANGED <<cfg, plan, parent, timer, cause, driving, stream, streamErr, summary, acc,
                     failure, boundary, log, out>>
  BY DEF DryRun, Return, envVars, liveVars
<1>2. Typed' BY <1>1 DEF Control, Typed, Phases
<1>3. CauseKept' /\ Stopped' /\ Ended' BY <1>1 DEF Control, CauseKept, Stopped, Ended, Live
<1>4. Framed' BY <1>1 DEF Control, Framed, Live
<1> QED BY <1>2, <1>3, <1>4 DEF Control

\* The live phase starts with its deadline armed, cancelled if the command is.
LEMMA StartLiveKeeps == ASSUME Control, StartLive PROVE Control'
<1>1. /\ pc = "fit" /\ pc' = "ping"
      /\ timer' \in {"armed", "off"}
      /\ cause' \in {"canceled", "none"} /\ (cause' = "canceled" => parent = "cancelled")
      /\ UNCHANGED <<cfg, plan, parent, driving, stream, streamErr, summary, acc,
                     failure, boundary, log, out, result>>
  BY DEF StartLive, liveVars
<1>2. Typed' BY <1>1 DEF Control, Typed, Phases, Causes
<1>3. CauseKept' /\ Stopped' /\ Ended' BY <1>1 DEF Control, CauseKept, Stopped, Ended, Live
<1>4. Framed' BY <1>1 DEF Control, Framed, Live
<1> QED BY <1>2, <1>3, <1>4 DEF Control

\* A failed fit returns before anything is reported.
LEMMA FitFailsKeeps == ASSUME Control, FitFails PROVE Control'
<1>1. /\ pc = "ping" /\ pc' = "done" /\ result'.exit = 1
      /\ boundary' = cause /\ timer' = "off"
      /\ UNCHANGED <<cfg, plan, parent, cause, driving, stream, streamErr, summary, acc,
                     failure, log, out>>
  BY DEF FitFails, Return
<1>2. Typed' BY <1>1 DEF Control, Typed, Phases
<1>3. CauseKept' /\ Stopped' /\ Ended' BY <1>1 DEF Control, CauseKept, Stopped, Ended, Live
<1>4. Framed' BY <1>1 DEF Control, Framed, Live
<1> QED BY <1>2, <1>3, <1>4 DEF Control

\* A fit settles the tuning and leaves the width and the catalogue as planned.
LEMMA FitKeeps == ASSUME Control, Fit PROVE Control'
<1>1. /\ pc = "ping"
      /\ \/ pc' = "done" /\ result'.exit \in {1, 2}
         \/ pc' = "header" /\ result' = result
      /\ UNCHANGED <<cfg, parent, timer, cause, driving, stream, streamErr, summary, acc,
                     failure, boundary, log, out>>
  BY DEF Fit, Return, envVars, liveVars
<1>2. plan'.w = plan.w /\ plan'.requests = plan.requests
  BY DEF Fit
<1>3. Typed' BY <1>1, <1>2 DEF Control, Typed, Phases
<1>4. CauseKept' /\ Stopped' /\ Ended' BY <1>1 DEF Control, CauseKept, Stopped, Ended, Live, Framed
<1>5. Framed' BY <1>1, <1>2 DEF Control, Framed, Live
<1> QED BY <1>3, <1>4, <1>5 DEF Control

-----------------------------------------------------------------------------
(* The report and the trials.                                              *)

\* A write either adds its record to the stream or poisons it.
LEMMA EncodeDoes ==
  ASSUME NEW kind, NEW next, Encode(kind, next)
  PROVE  /\ out.poison = "none"
         /\ \/ out' = [next EXCEPT !.records = Append(@, kind)]
            \/ \E e \in {"io", "pipe"} : out' = [out EXCEPT !.poison = e]
  BY DEF Encode

\* Of a first record, a request record, evidence and the terminal record that was
\* written, each is where the framing puts it; a failed write changes no record.
LEMMA FramedGrows ==
  ASSUME Framed, pc \in Live, pc' \in Live \union {"done"}, UNCHANGED plan, plan.requests \in Nat,
         \/ UNCHANGED out
         \/ /\ ~out.started
            /\ Encode("run", [out EXCEPT !.started = TRUE, !.count = plan.requests])
         \/ checkRequest /\ Encode("request", [out EXCEPT !.next = @ + 1])
         \/ checkEvidence /\ Encode("evidence", out)
         \/ checkEvidence /\ Encode("result", [out EXCEPT !.finished = TRUE]) /\ pc' = "done"
  PROVE  Framed'
<1>0. /\ out = [started |-> out.started, count |-> out.count, next |-> out.next,
               finished |-> out.finished, poison |-> out.poison, records |-> out.records]
      /\ out.records \in Seq(Kinds) /\ Len(out.records) \in Nat
      /\ out.finished => pc = "done"
  BY DEF Framed
<1> DEFINE r == out.records
           n == Len(r)
<1>1. CASE UNCHANGED out
  BY <1>1, <1>0 DEF Framed, Live
<1>2. CASE \E e \in {"io", "pipe"} : out' = [out EXCEPT !.poison = e]
  <2>1. PICK e \in {"io", "pipe"} : out' = [out EXCEPT !.poison = e]
    BY <1>2
  <2>2. /\ out' = [started |-> out.started, count |-> out.count, next |-> out.next,
                   finished |-> out.finished, poison |-> e, records |-> out.records]
    BY <2>1, <1>0
  <2> QED BY <2>2, <1>0 DEF Framed, Live
<1>3. CASE ~out.started /\ out' = [[out EXCEPT !.started = TRUE, !.count = plan.requests]
                                     EXCEPT !.records = Append(@, "run")]
  <2>1. out' = [started |-> TRUE, count |-> plan.requests, next |-> out.next,
                finished |-> out.finished, poison |-> out.poison, records |-> Append(r, "run")]
    BY <1>3, <1>0
  <2>2. r = <<>> /\ out.next = 0
    BY <1>3 DEF Framed
  <2>3. Append(r, "run") \in Seq(Kinds) /\ Len(Append(r, "run")) = 1 /\ Append(r, "run")[1] = "run"
    BY <2>2 DEF Kinds
  <2>4. out.finished => pc' = "done"
    BY <1>3 DEF Framed
  <2> QED BY <2>1, <2>2, <2>3, <2>4 DEF Framed
<1>4. CASE checkRequest /\ out' = [[out EXCEPT !.next = @ + 1] EXCEPT !.records = Append(@, "request")]
  <2> DEFINE s == Append(r, "request")
  <2>1. out' = [started |-> out.started, count |-> out.count, next |-> out.next + 1,
                finished |-> out.finished, poison |-> out.poison, records |-> s]
    BY <1>4, <1>0
  <2>2. /\ out.started /\ ~out.finished /\ out.next < plan.requests /\ out.next \in Nat
        /\ n >= out.next + 1
        /\ n \notin (out.next + 2)..n
    <3>1. /\ out.started /\ ~out.finished /\ out.next < plan.requests /\ out.next \in Nat
          /\ n >= out.next + 1
      BY <1>4 DEF Framed, checkRequest
    <3>2. n \in (out.next + 2)..n => out.next = plan.requests
      BY <3>1 DEF Framed
    <3> QED BY <3>1, <3>2
  <2>3. n = out.next + 1
    BY <2>2, <1>0
  <2>4. /\ s \in Seq(Kinds) /\ Len(s) = n + 1
        /\ \A i \in 1..n : s[i] = r[i]
        /\ s[n + 1] = "request"
    BY <1>0 DEF Kinds
  <2>5. s[1] = "run" /\ \A i \in 2..(out.next + 2) : s[i] = "request"
    BY <2>2, <2>3, <2>4, <1>4 DEF Framed
  <2> HIDE DEF s
  <2> QED BY <2>1, <2>2, <2>3, <2>4, <2>5 DEF Framed
<1>5. ASSUME NEW kind \in {"evidence", "result"}, NEW fin \in BOOLEAN, checkEvidence,
             out' = [[out EXCEPT !.finished = fin] EXCEPT !.records = Append(@, kind)],
             kind = "evidence" => ~fin,
             kind = "result" => fin,
             fin => pc' = "done"
      PROVE  Framed'
  <2> DEFINE s == Append(r, kind)
  <2>1. out' = [started |-> out.started, count |-> out.count, next |-> out.next,
                finished |-> fin, poison |-> out.poison, records |-> s]
    BY <1>5, <1>0
  <2>2. /\ out.started /\ ~out.finished /\ out.next = plan.requests /\ n >= out.next + 1
        /\ out.next \in Nat
        /\ \A i \in (out.next + 2)..n : r[i] = "evidence"
    BY <1>5 DEF Framed, checkEvidence
  <2>3. /\ s \in Seq(Kinds) /\ Len(s) = n + 1
        /\ \A i \in 1..n : s[i] = r[i]
        /\ s[n + 1] = kind
    BY <1>0 DEF Kinds
  <2>4. s[1] = "run" /\ \A i \in 2..(out.next + 1) : s[i] = "request"
    BY <2>2, <2>3, <1>0 DEF Framed
  <2> HIDE DEF s
  <2>5. \A i \in (out.next + 2)..(n + 1) :
           \/ s[i] = "evidence"
           \/ s[i] = "result" /\ i = n + 1 /\ fin
    <3> TAKE i \in (out.next + 2)..(n + 1)
    <3>1. CASE i = n + 1
      <4>1. s[i] = kind BY <3>1, <2>3
      <4> QED BY <4>1, <3>1, <1>5
    <3>2. CASE i # n + 1
      <4>1. i \in (out.next + 2)..n /\ i \in 1..n BY <3>2, <2>2, <1>0
      <4>2. s[i] = r[i] /\ r[i] = "evidence" BY <4>1, <2>2, <2>3
      <4> QED BY <4>2
    <3> QED BY <3>1, <3>2
  <2> QED BY <2>1, <2>2, <2>3, <2>4, <2>5, <1>5 DEF Framed
<1>6. CASE checkEvidence /\ out' = [out EXCEPT !.records = Append(@, "evidence")]
  <2>1. ~out.finished
    BY <1>6 DEF checkEvidence
  <2>2. out = [out EXCEPT !.finished = FALSE]
    BY <2>1, <1>0
  <2> QED BY <1>6, <2>2, <1>5
<1>7. CASE /\ checkEvidence /\ pc' = "done"
           /\ out' = [[out EXCEPT !.finished = TRUE] EXCEPT !.records = Append(@, "result")]
  BY <1>7, <1>5
<1> QED BY <1>1, <1>2, <1>3, <1>4, <1>6, <1>7, EncodeDoes

\* The run record, the request records, and the step to the trials.
LEMMA HeaderKeeps == ASSUME Control, Header PROVE Control'
<1>1. /\ pc = "header"
      /\ UNCHANGED <<cfg, plan, parent, timer, cause, driving, stream, streamErr, failure,
                     boundary, log>>
  BY DEF Header, envVars
<1>2. /\ plan.requests \in Nat /\ plan.w \in Nat \ {0} /\ cfg \in Configs
      /\ cfg.cmd \in {"race", "measure", "analyse"}
      /\ driving /\ failure = "none" /\ result = Unset
      /\ out.started \in BOOLEAN /\ out.poison \in {"none", "io", "pipe"}
      /\ out.started => out.poison = "none"
  BY <1>1, CommandAssumption DEF Control, Typed, Stopped, Framed, Live
<1>3. \/ /\ pc' = "done" /\ result'.exit \in {0, 1}
      \/ /\ pc' = pc /\ result' = result /\ out'.poison = "none"
      \/ /\ pc' = "drive" /\ result' = result /\ out' = out /\ acc' = acc /\ out.started
  BY <1>1 DEF Header, Return, WriteFailed, Misframed, Failed
<1>4. \/ UNCHANGED <<out, acc>>
      \/ /\ ~out.started
         /\ Encode("run", [out EXCEPT !.started = TRUE, !.count = plan.requests])
         /\ cfg.cmd = "analyse" => acc' = newAnalyseCollector
      \/ /\ out.started /\ checkRequest /\ acc' = acc
         /\ Encode("request", [out EXCEPT !.next = @ + 1])
  <2>1. CASE ~out.started /\ Return(1, NoCompletion) /\ UNCHANGED <<out, acc, summary>>
    BY <2>1
  <2>2. CASE out.started
    BY <2>2 DEF Header, Misframed
  <2>3. CASE /\ ~out.started
             /\ Encode("run", [out EXCEPT !.started = TRUE, !.count = plan.requests])
             /\ acc' = CASE cfg.cmd = "race"    -> raceCounters
                    [] cfg.cmd = "measure" -> newMeasurement(plan.w)
                    [] cfg.cmd = "analyse" -> newAnalyseCollector
    BY <2>3, <1>2
  <2> QED BY <2>1, <2>2, <2>3 DEF Header
<1>5. pc' \in {"header", "drive", "done"}
  BY <1>1, <1>3
<1>6. Framed'
  BY <1>1, <1>2, <1>4, <1>5, FramedGrows DEF Control, Live
<1>7. Typed'
  BY <1>1, <1>2, <1>3, <1>5 DEF Control, Typed, Phases, Unset
<1>8. CauseKept' /\ Ended'
  BY <1>1, <1>5 DEF Control, CauseKept, Ended
<1>9. cfg.cmd = "analyse" /\ out'.started /\ pc' \in Live => "sinkFailed" \in DOMAIN acc'
  <2>1. CASE UNCHANGED <<out, acc>>
    BY <2>1, <1>1 DEF Control, Stopped, Live
  <2>2. CASE cfg.cmd = "analyse" => acc' = newAnalyseCollector
    BY <2>2 DEF newAnalyseCollector
  <2>3. CASE out.started /\ acc' = acc
    BY <2>3, <1>1 DEF Control, Stopped, Live
  <2> QED BY <1>4, <2>1, <2>2, <2>3
<1>10. Stopped'
  BY <1>1, <1>2, <1>3, <1>5, <1>9 DEF Stopped, Live
<1> QED BY <1>6, <1>7, <1>8, <1>10 DEF Control

\* Collecting a trial keeps what is known of the sink.
LEMMA CollectKeepsSink ==
  ASSUME NEW c, NEW t, NEW w, NEW planned, "sinkFailed" \in DOMAIN c
  PROVE  LET d == collect(c, t, w, planned) IN
         /\ "sinkFailed" \in DOMAIN d /\ d.sinkFailed = c.sinkFailed
         /\ \A code : [failCollector(d, code) EXCEPT !.sinkFailed = TRUE].sinkFailed
         /\ \A code : "sinkFailed" \in DOMAIN [failCollector(d, code) EXCEPT !.sinkFailed = TRUE]
<1> DEFINE Keeps(d) == "sinkFailed" \in DOMAIN d /\ d.sinkFailed = c.sinkFailed
<1>1. Keeps(collect(c, t, w, planned))
  BY Zenon DEF collect, failCollector
<1> QED BY <1>1 DEF failCollector

\* One trial handed to the command.
LEMMA TrialKeeps == ASSUME Control, Trial PROVE Control'
<1>1. /\ pc = "drive" /\ pc' = "drive"
      /\ UNCHANGED <<cfg, plan, parent, timer, cause, streamErr, boundary, result>>
  BY DEF Trial, envVars
<1>2. /\ plan.requests \in Nat /\ cfg \in Configs
      /\ cfg.cmd \in {"race", "measure", "analyse"}
      /\ failure \in {"none", "io", "pipe", "evidence"} /\ driving \in BOOLEAN
      /\ out.poison \in {"none", "io", "pipe"} /\ (failure = "pipe" => out.poison = "pipe")
  BY <1>1, CommandAssumption DEF Control, Typed, Stopped, Framed
<1>3. PICK t : \/ cfg.cmd = "race" /\ raceTrial(t)
               \/ cfg.cmd = "measure" /\ measureTrial(t)
               \/ cfg.cmd = "analyse" /\ analyseTrial(t)
  BY <1>2 DEF Trial
<1>4. UNCHANGED out \/ (checkEvidence /\ Encode("evidence", out))
  BY <1>3 DEF raceTrial, measureTrial, analyseTrial
<1>5. Framed'
  BY <1>1, <1>2, <1>4, FramedGrows DEF Control, Live
<1>6. out'.poison \in {"none", "io", "pipe"} /\ (out.poison = "pipe" => out'.poison = "pipe")
  <2>1. CASE UNCHANGED out BY <2>1, <1>2
  <2>2. CASE Encode("evidence", out)
    BY <2>2, <1>5 DEF Encode, Framed
  <2> QED BY <2>1, <2>2, <1>4
<1>7. out'.started
  <2>1. out.started BY <1>1 DEF Control, Stopped
  <2>2. CASE UNCHANGED out BY <2>1, <2>2
  <2>3. CASE Encode("evidence", out)
    BY <2>1, <2>3 DEF Encode, Control, Framed
  <2> QED BY <1>4, <2>2, <2>3
<1>8. CASE cfg.cmd = "race" /\ raceTrial(t)
  <2>1. failure # "evidence" /\ (~driving => failure # "none")
    BY <1>1, <1>8 DEF Control, Stopped
  <2>2. /\ driving' \in BOOLEAN /\ failure' \in {"none", "io", "pipe"}
        /\ ~driving' => failure' # "none"
        /\ failure' = "pipe" => out'.poison = "pipe"
    <3>1. CASE failure # "none"
      BY <3>1, <2>1, <1>2, <1>8 DEF raceTrial
    <3>2. CASE failure = "none" /\ ~checkEvidence
      BY <3>2, <1>8 DEF raceTrial
    <3>3. CASE failure = "none" /\ checkEvidence
      BY <3>3, <1>6, <1>8 DEF raceTrial, Failed
    <3> QED BY <3>1, <3>2, <3>3
  <2>3. Typed' /\ CauseKept' /\ Ended'
    BY <1>1, <2>2 DEF Control, Typed, CauseKept, Ended
  <2>4. Stopped'
    BY <1>1, <2>2, <1>8, <1>7 DEF Stopped, Live
  <2> QED BY <1>5, <2>3, <2>4 DEF Control
<1>9. CASE cfg.cmd = "measure" /\ measureTrial(t)
  <2>1. failure \in {"none", "evidence"} /\ (~driving => failure # "none")
    BY <1>1, <1>9 DEF Control, Stopped
  <2>2. /\ driving' \in BOOLEAN /\ failure' \in {"none", "evidence"}
        /\ ~driving' => failure' # "none"
    BY <2>1, <1>2, <1>9 DEF measureTrial
  <2>3. Typed' /\ CauseKept' /\ Ended'
    BY <1>1, <2>2 DEF Control, Typed, CauseKept, Ended
  <2>4. Stopped'
    BY <1>1, <2>2, <1>9, <1>7 DEF Stopped, Live
  <2> QED BY <1>5, <2>3, <2>4 DEF Control
<1>10. CASE cfg.cmd = "analyse" /\ analyseTrial(t)
  <2> DEFINE d == collect(acc, t, plan.w, plan.cycles)
  <2>1. failure = "none" /\ (~driving => acc.sinkFailed) /\ "sinkFailed" \in DOMAIN acc
    BY <1>1, <1>10 DEF Control, Stopped, Live
  <2>2. failure' = failure
    BY <1>10 DEF analyseTrial
  <2>3. /\ "sinkFailed" \in DOMAIN d /\ d.sinkFailed = acc.sinkFailed
        /\ \A code : [failCollector(d, code) EXCEPT !.sinkFailed = TRUE].sinkFailed
        /\ \A code : "sinkFailed" \in DOMAIN [failCollector(d, code) EXCEPT !.sinkFailed = TRUE]
    BY <2>1, CollectKeepsSink
  <2>4. \/ acc' = d /\ driving' = driving
        \/ /\ acc' = [failCollector(d, "incomplete_cycle") EXCEPT !.sinkFailed = TRUE]
           /\ driving' \in BOOLEAN
    <3> HIDE DEF d
    <3>1. CASE t.warm \/ ~cfg.json
      BY <3>1, <1>10 DEF analyseTrial, d
    <3>2. CASE ~(t.warm \/ ~cfg.json)
      <4>1. /\ acc' = IF Failed
                      THEN [failCollector(d, "incomplete_cycle") EXCEPT !.sinkFailed = TRUE]
                      ELSE d
            /\ driving' = (driving /\ ~Failed)
        BY <3>2, <1>10 DEF analyseTrial, d
      <4>2. CASE Failed BY <4>1, <4>2
      <4>3. CASE ~Failed BY <4>1, <4>3, <1>2
      <4> QED BY <4>2, <4>3
    <3> QED BY <3>1, <3>2
  <2> HIDE DEF d
  <2>5. /\ "sinkFailed" \in DOMAIN acc' /\ driving' \in BOOLEAN
        /\ ~driving' => acc'.sinkFailed
    <3>1. CASE acc' = d /\ driving' = driving
      BY <3>1, <2>1, <2>3, <1>2
    <3>2. CASE /\ acc' = [failCollector(d, "incomplete_cycle") EXCEPT !.sinkFailed = TRUE]
               /\ driving' \in BOOLEAN
      BY <3>2, <2>3
    <3> QED BY <2>4, <3>1, <3>2
  <2>6. Typed' /\ CauseKept' /\ Ended'
    BY <1>1, <2>1, <2>2, <2>5 DEF Control, Typed, CauseKept, Ended
  <2>7. Stopped'
    BY <1>1, <2>1, <2>2, <2>5, <1>10, <1>7 DEF Stopped, Live
  <2> QED BY <1>5, <2>6, <2>7 DEF Control
<1> QED BY <1>3, <1>8, <1>9, <1>10

-----------------------------------------------------------------------------
(* The end of the run.                                                     *)

\* The stream ends with everything yielded, with what ended its context, or with
\* an error of its own.
LEMMA StreamEndsKeeps == ASSUME Control, StreamEnds PROVE Control'
<1>1. /\ pc = "drive" /\ pc' = "boundary"
      /\ UNCHANGED <<cfg, plan, parent, timer, cause, driving, stream, acc, failure, out,
                     boundary, result>>
  BY DEF StreamEnds, envVars
<1>2. /\ streamErr' \in {"none", "deadline", "canceled", "transport"}
      /\ streamErr' = "none" => AllYielded
      /\ streamErr' = "canceled" => ~driving \/ cause = "canceled"
      /\ streamErr' = "deadline" => cause = "timeout"
  BY DEF StreamEnds, DriveDone, Control, Typed, Causes
<1>3. Typed' BY <1>1, <1>2 DEF Control, Typed, Phases
<1>4. CauseKept' /\ Stopped' /\ Framed'
  BY <1>1 DEF Control, CauseKept, Stopped, Framed, Live
<1>5. AllYielded' = AllYielded BY <1>1 DEF AllYielded
<1>6. Ended' BY <1>1, <1>2, <1>5 DEF Ended
<1> QED BY <1>3, <1>4, <1>6 DEF Control

\* The live phase ends: its cause is what it was left with.
LEMMA LiveFinishKeeps == ASSUME Control, LiveFinish PROVE Control'
<1>1. /\ pc = "boundary" /\ pc' = "settle" /\ boundary' = cause
      /\ timer' = IF timer = "armed" THEN "off" ELSE timer
      /\ UNCHANGED <<cfg, plan, parent, cause, driving, stream, streamErr, acc, failure, out,
                     result>>
  BY DEF LiveFinish
<1>2. Typed' BY <1>1 DEF Control, Typed, Phases
<1>3. CauseKept' BY <1>1 DEF Control, CauseKept, Typed
<1>4. Stopped' /\ Framed' BY <1>1 DEF Control, Stopped, Framed, Live
<1>5. AllYielded' = AllYielded BY <1>1 DEF AllYielded
<1>6. Ended' BY <1>1, <1>5 DEF Control, Ended
<1> QED BY <1>2, <1>3, <1>4, <1>6 DEF Control

\* Closing a cycle touches nothing but the measurement.
LEMMA FinishKeeps == ASSUME Control, Finish PROVE Control'
<1>1. /\ pc = "settle" /\ pc' = pc /\ cfg.cmd = "measure"
      /\ UNCHANGED <<cfg, plan, parent, timer, cause, driving, stream, streamErr, failure, out,
                     boundary, result>>
  BY DEF Finish, envVars
<1>2. Typed' /\ CauseKept' /\ Framed' BY <1>1 DEF Control, Typed, CauseKept, Framed
<1>3. Stopped' BY <1>1 DEF Control, Stopped, Live
<1>4. AllYielded' = AllYielded BY <1>1 DEF AllYielded
<1>5. Ended' BY <1>1, <1>4 DEF Control, Ended
<1> QED BY <1>2, <1>3, <1>5 DEF Control

\* An interrupt is remembered by the command and by a phase nothing else ended.
LEMMA InterruptKeeps == ASSUME Control, Interrupt PROVE Control'
<1>1. /\ pc # "done" /\ pc' = pc /\ parent' = "cancelled"
      /\ cause' = IF cause = "none" /\ pc \notin {"plan", "fit", "settle"} THEN "canceled" ELSE cause
      /\ UNCHANGED <<cfg, plan, timer, driving, stream, streamErr, acc, failure, boundary, out,
                     result>>
  BY DEF Interrupt, liveVars
<1>2. Typed' /\ CauseKept' /\ Framed' BY <1>1 DEF Control, Typed, CauseKept, Framed, Causes
<1>3. Stopped' BY <1>1 DEF Control, Stopped, Live
<1>4. AllYielded' = AllYielded BY <1>1 DEF AllYielded
<1>5. Ended' BY <1>1, <1>4 DEF Control, Ended
<1> QED BY <1>2, <1>3, <1>5 DEF Control

\* The deadline fires only while the phase's timer is armed.
LEMMA DeadlineKeeps == ASSUME Control, Deadline PROVE Control'
<1>1. /\ pc # "done" /\ pc' = pc /\ timer = "armed" /\ timer' = "fired"
      /\ cause' = IF cause = "none" THEN "timeout" ELSE cause
      /\ UNCHANGED <<cfg, plan, parent, driving, stream, streamErr, acc, failure, boundary, out,
                     result>>
  BY DEF Deadline, liveVars
<1>2. Typed' /\ CauseKept' /\ Framed' BY <1>1 DEF Control, Typed, CauseKept, Framed, Causes
<1>3. Stopped' BY <1>1 DEF Control, Stopped, Live
<1>4. AllYielded' = AllYielded BY <1>1 DEF AllYielded
<1>5. Ended' BY <1>1, <1>4 DEF Control, Ended
<1> QED BY <1>2, <1>3, <1>5 DEF Control

\* The command has returned with a completion, its terminal record written or not.
Concluded(completion) ==
  /\ pc' = "done" /\ result'.completion = completion /\ result'.exit \in {0, 1}
  /\ UNCHANGED out \/ (checkEvidence /\ Encode("result", [out EXCEPT !.finished = TRUE]))
  /\ result'.exit = 0 => \/ out'.poison = "pipe" /\ cfg.pipe
                         \/ out'.records # <<>> /\ Last(out'.records) = "result"

\* The terminal record is written or not; the command returns either way.
LEMMA TerminalDoes ==
  ASSUME Framed, pc \in Live, plan.requests \in Nat, UNCHANGED plan,
         NEW completion, NEW code, code \in {0, 1}, Terminal(completion, code)
  PROVE  Concluded(completion)
<1>1. CASE ~checkEvidence \/ out.poison # "none"
  BY <1>1 DEF Terminal, Return, WriteFailed, Concluded
<1>2. CASE checkEvidence /\ out.poison = "none"
  <2>1. /\ Encode("result", [out EXCEPT !.finished = TRUE])
        /\ pc' = "done"
        /\ result' = [exit |-> IF Failed THEN WriteFailed(out'.poison) ELSE code,
                      completion |-> completion]
    BY <1>2 DEF Terminal, Return
  <2>2. CASE out'.poison # "none"
    BY <2>1, <2>2, <1>2 DEF WriteFailed, Failed, Concluded
  <2>3. CASE out'.poison = "none"
    <3>1. out' = [[out EXCEPT !.finished = TRUE] EXCEPT !.records = Append(@, "result")]
      <4>1. \A e \in {"io", "pipe"} : out' # [out EXCEPT !.poison = e]
        BY <2>3 DEF Framed
      <4> QED BY <2>1, <4>1, EncodeDoes
    <3>2. out'.records = Append(out.records, "result") /\ out.records \in Seq(Kinds)
      BY <3>1 DEF Framed
    <3>3. /\ Len(out'.records) = Len(out.records) + 1
          /\ out'.records[Len(out.records) + 1] = "result"
      BY <3>2 DEF Kinds
    <3>4. out'.records # <<>> /\ Last(out'.records) = "result"
      BY <3>2, <3>3 DEF Last
    <3> QED BY <2>1, <2>3, <3>4, <1>2 DEF Return, Failed, Concluded
  <2> QED BY <2>2, <2>3
<1> QED BY <1>1, <1>2

-----------------------------------------------------------------------------
(* The tallies of a measurement.                                           *)

Matrix(w) == [Requests(w) -> [Requests(w) -> Nat]]

Tallies(w) == [trials : Nat, rank : Matrix(w), position : Matrix(w), assigned : Matrix(w),
               before : Matrix(w), statuses : [Requests(w) -> Nat]]

\* Every request has a status per trial, and of two requests one came first.
Sound(t, w) ==
  /\ t \in Tallies(w)
  /\ \A r \in Requests(w) : t.statuses[r] = t.trials
  /\ \A l, r \in Requests(w) : IF l = r THEN t.before[l][r] = 0
                               ELSE t.before[l][r] + t.before[r][l] = t.trials

\* An empty tally is sound.
LEMMA ZeroSound == ASSUME NEW w PROVE Sound(ZeroTally(w), w) /\ ZeroTally(w).trials = 0
  BY DEF ZeroTally, Sound, Tallies, Matrix, newRankMatrix

\* The sum of two matrices.
LEMMA MatrixSum ==
  ASSUME NEW w, NEW a \in Matrix(w), NEW b \in Matrix(w)
  PROVE  /\ addRankMatrix(a, b) \in Matrix(w)
         /\ \A i, j \in Requests(w) : addRankMatrix(a, b)[i][j] = a[i][j] + b[i][j]
<1>1. DOMAIN a = Requests(w) /\ \A i \in Requests(w) : DOMAIN a[i] = Requests(w)
  BY DEF Matrix
<1>2. addRankMatrix(a, b) = [i \in Requests(w) |-> [j \in Requests(w) |-> a[i][j] + b[i][j]]]
  BY <1>1 DEF addRankMatrix
<1>3. \A i, j \in Requests(w) : a[i][j] \in Nat /\ b[i][j] \in Nat
  BY DEF Matrix
<1>4. \A i, j \in Requests(w) : a[i][j] + b[i][j] \in Nat
  BY <1>3
<1>5. addRankMatrix(a, b) \in Matrix(w)
  BY <1>2, <1>4 DEF Matrix
<1> QED BY <1>2, <1>5

\* A tally with one more trial in it.
OneTrialMore(n, t, u, w) ==
  /\ n \in Tallies(w) /\ n.trials = t.trials + 1
  /\ \A r \in Requests(w) : n.statuses[r] = t.statuses[r] + 1
  /\ \A i, j \in Requests(w) :
       /\ n.rank[i][j] = t.rank[i][j] + (IF u.ranks[i] = j THEN 1 ELSE 0)
       /\ n.assigned[i][j] = t.assigned[i][j] + (IF u.arr[j] = i THEN 1 ELSE 0)
       /\ n.before[i][j] = t.before[i][j] + (IF u.ranks[i] < u.ranks[j] THEN 1 ELSE 0)

\* What one trial adds to a tally.
LEMMA TallyCounts ==
  ASSUME NEW w, NEW t, Sound(t, w), NEW u
  PROVE  OneTrialMore(tallyTrial(t, u, w), t, u, w)
<1> DEFINE R == [i \in Requests(w) |-> [j \in Requests(w) |-> IF u.ranks[i] = j THEN 1 ELSE 0]]
           P == [i \in Requests(w) |-> [j \in Requests(w) |-> IF u.ranks[u.arr[i]] = j THEN 1 ELSE 0]]
           A == [i \in Requests(w) |-> [j \in Requests(w) |-> IF u.arr[j] = i THEN 1 ELSE 0]]
           B == [i \in Requests(w) |-> [j \in Requests(w) |-> IF u.ranks[i] < u.ranks[j] THEN 1 ELSE 0]]
<1>1. R \in Matrix(w) /\ P \in Matrix(w) /\ A \in Matrix(w) /\ B \in Matrix(w)
  BY DEF Matrix
<1>2. tallyTrial(t, u, w) =
        [trials |-> t.trials + 1, rank |-> addRankMatrix(t.rank, R),
         position |-> addRankMatrix(t.position, P), assigned |-> addRankMatrix(t.assigned, A),
         before |-> addRankMatrix(t.before, B),
         statuses |-> [r \in Requests(w) |-> t.statuses[r] + 1]]
  BY DEF tallyTrial
<1>3. /\ \A i, j \in Requests(w) :
           /\ R[i][j] = IF u.ranks[i] = j THEN 1 ELSE 0
           /\ A[i][j] = IF u.arr[j] = i THEN 1 ELSE 0
           /\ B[i][j] = IF u.ranks[i] < u.ranks[j] THEN 1 ELSE 0
  OBVIOUS
<1> HIDE DEF R, P, A, B
<1>4. /\ t.trials \in Nat /\ t.rank \in Matrix(w) /\ t.position \in Matrix(w)
      /\ t.assigned \in Matrix(w) /\ t.before \in Matrix(w) /\ t.statuses \in [Requests(w) -> Nat]
  BY DEF Sound, Tallies
<1>5. [r \in Requests(w) |-> t.statuses[r] + 1] \in [Requests(w) -> Nat]
  BY <1>4
<1>6. /\ addRankMatrix(t.rank, R) \in Matrix(w) /\ addRankMatrix(t.position, P) \in Matrix(w)
      /\ addRankMatrix(t.assigned, A) \in Matrix(w) /\ addRankMatrix(t.before, B) \in Matrix(w)
  BY <1>1, <1>4, MatrixSum
<1>7. \A i, j \in Requests(w) :
        /\ addRankMatrix(t.rank, R)[i][j] = t.rank[i][j] + R[i][j]
        /\ addRankMatrix(t.assigned, A)[i][j] = t.assigned[i][j] + A[i][j]
        /\ addRankMatrix(t.before, B)[i][j] = t.before[i][j] + B[i][j]
  BY <1>1, <1>4, MatrixSum
<1>8. tallyTrial(t, u, w) \in Tallies(w)
  BY <1>2, <1>4, <1>5, <1>6 DEF Tallies
<1> QED BY <1>2, <1>3, <1>7, <1>8 DEF OneTrialMore

\* A trial whose ranks are a permutation keeps a tally sound.
LEMMA TallySound ==
  ASSUME NEW w \in Nat, NEW t, Sound(t, w), NEW u, u.ranks \in Perms(w)
  PROVE  Sound(tallyTrial(t, u, w), w) /\ tallyTrial(t, u, w).trials = t.trials + 1
<1> DEFINE n == tallyTrial(t, u, w)
<1>1. /\ n \in Tallies(w) /\ n.trials = t.trials + 1
      /\ \A r \in Requests(w) : n.statuses[r] = t.statuses[r] + 1
      /\ \A i, j \in Requests(w) :
           n.before[i][j] = t.before[i][j] + (IF u.ranks[i] < u.ranks[j] THEN 1 ELSE 0)
  BY TallyCounts DEF OneTrialMore
<1> HIDE DEF n
<1>2. t.trials \in Nat /\ \A i, j \in Requests(w) : t.before[i][j] \in Nat
  BY DEF Sound, Tallies, Matrix
<1>3. /\ \A i \in Requests(w) : u.ranks[i] \in Int
      /\ \A i, j \in Requests(w) : i # j => u.ranks[i] # u.ranks[j]
  BY DEF Perms, Requests
<1>4. ASSUME NEW l \in Requests(w), NEW r \in Requests(w)
      PROVE  IF l = r THEN n.before[l][r] = 0 ELSE n.before[l][r] + n.before[r][l] = n.trials
  <2>1. CASE l = r
    BY <2>1, <1>1, <1>2, <1>3 DEF Sound
  <2>2. CASE l # r
    <3>1. t.before[l][r] + t.before[r][l] = t.trials
      BY <2>2 DEF Sound
    <3>2. \/ u.ranks[l] < u.ranks[r] /\ ~(u.ranks[r] < u.ranks[l])
          \/ u.ranks[r] < u.ranks[l] /\ ~(u.ranks[l] < u.ranks[r])
      BY <2>2, <1>3
    <3> QED BY <2>2, <3>1, <3>2, <1>1, <1>2
  <2> QED BY <2>1, <2>2
<1>5. \A r \in Requests(w) : n.statuses[r] = n.trials
  BY <1>1 DEF Sound
<1> QED BY <1>1, <1>4, <1>5 DEF Sound, n

\* A tally with those of a whole cycle in it.
WholeMore(n, a, b, w) ==
  /\ Sound(n, w) /\ n.trials = a.trials + w
  /\ \A i, j \in Requests(w) : /\ n.rank[i][j] = a.rank[i][j] + b.rank[i][j]
                              /\ n.assigned[i][j] = a.assigned[i][j] + b.assigned[i][j]

\* Adding the tally of a whole cycle keeps a tally sound.
LEMMA AddSound ==
  ASSUME NEW w, NEW a, NEW b, Sound(a, w), Sound(b, w), b.trials = w
  PROVE  WholeMore(addTally(a, b, w), a, b, w)
<1> DEFINE n == addTally(a, b, w)
<1>1. /\ a.trials \in Nat /\ w \in Nat
      /\ a.rank \in Matrix(w) /\ a.position \in Matrix(w) /\ a.assigned \in Matrix(w)
      /\ a.before \in Matrix(w) /\ a.statuses \in [Requests(w) -> Nat]
      /\ b.rank \in Matrix(w) /\ b.position \in Matrix(w) /\ b.assigned \in Matrix(w)
      /\ b.before \in Matrix(w) /\ b.statuses \in [Requests(w) -> Nat]
  BY DEF Sound, Tallies
<1>2. n = [trials |-> a.trials + w, rank |-> addRankMatrix(a.rank, b.rank),
           position |-> addRankMatrix(a.position, b.position),
           assigned |-> addRankMatrix(a.assigned, b.assigned),
           before |-> addRankMatrix(a.before, b.before),
           statuses |-> [r \in Requests(w) |-> a.statuses[r] + b.statuses[r]]]
  BY <1>1 DEF addTally
<1> HIDE DEF n
<1>3. /\ addRankMatrix(a.rank, b.rank) \in Matrix(w)
      /\ addRankMatrix(a.position, b.position) \in Matrix(w)
      /\ addRankMatrix(a.assigned, b.assigned) \in Matrix(w)
      /\ addRankMatrix(a.before, b.before) \in Matrix(w)
      /\ [r \in Requests(w) |-> a.statuses[r] + b.statuses[r]] \in [Requests(w) -> Nat]
  <2>1. \A r \in Requests(w) : a.statuses[r] + b.statuses[r] \in Nat
    BY <1>1
  <2> QED BY <2>1, <1>1, MatrixSum
<1>4. n \in Tallies(w)
  BY <1>1, <1>2, <1>3 DEF Tallies
<1>5. \A i, j \in Requests(w) :
        /\ n.rank[i][j] = a.rank[i][j] + b.rank[i][j]
        /\ n.assigned[i][j] = a.assigned[i][j] + b.assigned[i][j]
        /\ n.before[i][j] = a.before[i][j] + b.before[i][j]
  BY <1>1, <1>2, MatrixSum
<1>6. \A r \in Requests(w) : n.statuses[r] = n.trials
  BY <1>2, <1>1 DEF Sound
<1>7. ASSUME NEW l \in Requests(w), NEW r \in Requests(w)
      PROVE  IF l = r THEN n.before[l][r] = 0 ELSE n.before[l][r] + n.before[r][l] = n.trials
  <2>1. /\ a.before[l][r] \in Nat /\ a.before[r][l] \in Nat
        /\ b.before[l][r] \in Nat /\ b.before[r][l] \in Nat
    BY <1>1 DEF Matrix
  <2>2. n.trials = a.trials + w BY <1>2
  <2>3. CASE l = r
    BY <2>3, <1>5 DEF Sound
  <2>4. CASE l # r
    <3>1. a.before[l][r] + a.before[r][l] = a.trials /\ b.before[l][r] + b.before[r][l] = w
      BY <2>4 DEF Sound
    <3> QED BY <3>1, <2>1, <2>2, <2>4, <1>5, <1>1
  <2> QED BY <2>3, <2>4
<1> QED BY <1>2, <1>4, <1>5, <1>6, <1>7 DEF Sound, WholeMore, n

-----------------------------------------------------------------------------
(* The measurement.                                                        *)

\* A measurement and its cycles are records, and a cycle's tally counts the
\* cycle's complete trials.
Measurement(m, w) ==
  /\ m = [attempted |-> m.attempted, complete |-> m.complete, incomplete |-> m.incomplete,
          retained |-> m.retained, excluded |-> m.excluded, warmOk |-> m.warmOk,
          warmErr |-> m.warmErr, conns |-> m.conns, cycles |-> m.cycles,
          cyclesAttempted |-> m.cyclesAttempted, cyclesRetained |-> m.cyclesRetained,
          cyclesIncomplete |-> m.cyclesIncomplete, tally |-> m.tally, err |-> m.err]
  /\ ~m.err
  /\ Sound(m.tally, w) /\ m.retained = m.tally.trials
  /\ m.cycles = [c \in DOMAIN m.cycles |-> m.cycles[c]]
  /\ \A c \in DOMAIN m.cycles :
       LET y == m.cycles[c] IN
       /\ y = [received |-> y.received, completeTrials |-> y.completeTrials,
               incomplete |-> y.incomplete, shifts |-> y.shifts, tally |-> y.tally]
       /\ y.received \in Nat /\ Sound(y.tally, w) /\ y.completeTrials = y.tally.trials

\* A measurement that nothing has spoilt is consistent, and one whose trials do
\* not rotate is the transport's own summary.
Tallied ==
  cfg.cmd = "measure" /\ out.started /\ pc \in Live /\ failure = "none" =>
    /\ Measurement(acc, plan.w)
    /\ plan.policy # "rotate" => DOMAIN acc.cycles = {} /\ acc.tally = summary

\* A fresh measurement is consistent.
LEMMA NewMeasurementOK == ASSUME NEW w PROVE Measurement(newMeasurement(w), w)
  BY ZeroSound DEF Measurement, newMeasurement

\* What closing a cycle does to a measurement.
LEMMA FinaliseDoes ==
  ASSUME NEW w, NEW m, Measurement(m, w), NEW id \in DOMAIN m.cycles
  PROVE  LET n == finaliseCycle(m, id, w)
             y == m.cycles[id]
             whole == /\ y.received = w /\ y.completeTrials = w
                      /\ Cardinality(y.shifts) = w /\ ~y.incomplete IN
         /\ n.cycles = [c \in DOMAIN m.cycles \ {id} |-> m.cycles[c]]
         /\ whole => /\ n.tally = addTally(m.tally, y.tally, w) /\ n.retained = m.retained + w
                     /\ n.excluded = m.excluded
         /\ ~whole => /\ n.tally = m.tally /\ n.retained = m.retained
                      /\ n.excluded = m.excluded + y.completeTrials
         /\ n.err = m.err
         /\ n = [attempted |-> n.attempted, complete |-> n.complete, incomplete |-> n.incomplete,
                 retained |-> n.retained, excluded |-> n.excluded, warmOk |-> n.warmOk,
                 warmErr |-> n.warmErr, conns |-> n.conns, cycles |-> n.cycles,
                 cyclesAttempted |-> n.cyclesAttempted, cyclesRetained |-> n.cyclesRetained,
                 cyclesIncomplete |-> n.cyclesIncomplete, tally |-> n.tally, err |-> n.err]
<1> DEFINE y == m.cycles[id]
           whole == /\ y.received = w /\ y.completeTrials = w
                    /\ Cardinality(y.shifts) = w /\ ~y.incomplete
           rest == [c \in DOMAIN m.cycles \ {id} |-> m.cycles[c]]
           n == finaliseCycle(m, id, w)
<1>1. n = IF whole
          THEN [m EXCEPT !.tally = addTally(@, y.tally, w), !.retained = @ + w,
                         !.cyclesRetained = @ + 1, !.cycles = rest]
          ELSE [m EXCEPT !.excluded = @ + y.completeTrials,
                         !.cyclesIncomplete = @ + 1, !.cycles = rest]
  BY DEF finaliseCycle
<1> HIDE DEF whole, rest, n, y
<1>2. m = [attempted |-> m.attempted, complete |-> m.complete, incomplete |-> m.incomplete,
          retained |-> m.retained, excluded |-> m.excluded, warmOk |-> m.warmOk,
          warmErr |-> m.warmErr, conns |-> m.conns, cycles |-> m.cycles,
          cyclesAttempted |-> m.cyclesAttempted, cyclesRetained |-> m.cyclesRetained,
          cyclesIncomplete |-> m.cyclesIncomplete, tally |-> m.tally, err |-> m.err]
  BY DEF Measurement
<1>3. CASE whole
  <2>1. n = [attempted |-> m.attempted, complete |-> m.complete, incomplete |-> m.incomplete,
          retained |-> m.retained + w, excluded |-> m.excluded, warmOk |-> m.warmOk,
          warmErr |-> m.warmErr, conns |-> m.conns, cycles |-> rest,
          cyclesAttempted |-> m.cyclesAttempted, cyclesRetained |-> m.cyclesRetained + 1,
          cyclesIncomplete |-> m.cyclesIncomplete, tally |-> addTally(m.tally, y.tally, w),
          err |-> m.err]
    BY <1>1, <1>2, <1>3
  <2> QED BY <2>1, <1>3 DEF whole, rest, n, y
<1>4. CASE ~whole
  <2>1. n = [attempted |-> m.attempted, complete |-> m.complete, incomplete |-> m.incomplete,
          retained |-> m.retained, excluded |-> m.excluded + y.completeTrials, warmOk |-> m.warmOk,
          warmErr |-> m.warmErr, conns |-> m.conns, cycles |-> rest,
          cyclesAttempted |-> m.cyclesAttempted, cyclesRetained |-> m.cyclesRetained,
          cyclesIncomplete |-> m.cyclesIncomplete + 1, tally |-> m.tally, err |-> m.err]
    BY <1>1, <1>2, <1>4
  <2> QED BY <2>1, <1>4 DEF whole, rest, n, y
<1> QED BY <1>3, <1>4

\* Closing a cycle keeps a measurement consistent.
LEMMA FinaliseKeeps ==
  ASSUME NEW w \in Nat, NEW m, Measurement(m, w), NEW id \in DOMAIN m.cycles
  PROVE  Measurement(finaliseCycle(m, id, w), w)
<1> DEFINE n == finaliseCycle(m, id, w)
           y == m.cycles[id]
<1>1. /\ n.cycles = [c \in DOMAIN m.cycles \ {id} |-> m.cycles[c]]
      /\ \/ /\ y.completeTrials = w /\ n.tally = addTally(m.tally, y.tally, w)
            /\ n.retained = m.retained + w
         \/ n.tally = m.tally /\ n.retained = m.retained
      /\ n.err = m.err
      /\ n = [attempted |-> n.attempted, complete |-> n.complete, incomplete |-> n.incomplete,
                 retained |-> n.retained, excluded |-> n.excluded, warmOk |-> n.warmOk,
                 warmErr |-> n.warmErr, conns |-> n.conns, cycles |-> n.cycles,
                 cyclesAttempted |-> n.cyclesAttempted, cyclesRetained |-> n.cyclesRetained,
                 cyclesIncomplete |-> n.cyclesIncomplete, tally |-> n.tally, err |-> n.err]
  BY FinaliseDoes
<1> HIDE DEF n
<1>2. /\ Sound(y.tally, w) /\ y.completeTrials = y.tally.trials
      /\ Sound(m.tally, w) /\ m.retained = m.tally.trials /\ ~m.err
  BY DEF Measurement
<1>3. Sound(n.tally, w) /\ n.retained = n.tally.trials
  <2>1. CASE /\ y.completeTrials = w /\ n.tally = addTally(m.tally, y.tally, w)
             /\ n.retained = m.retained + w
    <3>1. Sound(y.tally, w) /\ Sound(m.tally, w) /\ y.tally.trials = w
      BY <2>1, <1>2
    <3>2. /\ Sound(addTally(m.tally, y.tally, w), w)
          /\ addTally(m.tally, y.tally, w).trials = m.tally.trials + w
      <4> DEFINE b == y.tally
                 a == m.tally
      <4>1. Sound(a, w) /\ Sound(b, w) /\ b.trials = w
        BY <3>1
      <4> HIDE DEF a, b
      <4>2. Sound(addTally(a, b, w), w) /\ addTally(a, b, w).trials = a.trials + w
        <5>1. WholeMore(addTally(a, b, w), a, b, w)
          BY <4>1, AddSound
        <5> QED BY <5>1 DEF WholeMore
      <4> QED BY <4>2 DEF a, b
    <3> QED BY <2>1, <3>2, <1>2
  <2>2. CASE n.tally = m.tally /\ n.retained = m.retained
    BY <2>2, <1>2
  <2> QED BY <1>1, <2>1, <2>2
<1>4. \A c \in DOMAIN n.cycles :
       LET z == n.cycles[c] IN
       /\ z = [received |-> z.received, completeTrials |-> z.completeTrials,
               incomplete |-> z.incomplete, shifts |-> z.shifts, tally |-> z.tally]
       /\ z.received \in Nat /\ Sound(z.tally, w) /\ z.completeTrials = z.tally.trials
  BY <1>1 DEF Measurement
<1>5. n.cycles = [c \in DOMAIN n.cycles |-> n.cycles[c]]
  BY <1>1
<1> QED BY <1>1, <1>2, <1>3, <1>4, <1>5 DEF Measurement, n

\* A cycle as it is once it has received a trial.
Received(z, y, t, w) ==
  /\ z = [received |-> z.received, completeTrials |-> z.completeTrials,
          incomplete |-> z.incomplete, shifts |-> z.shifts, tally |-> z.tally]
  /\ z.received = y.received + 1 /\ Sound(z.tally, w) /\ z.completeTrials = z.tally.trials
  /\ z.tally = IF t.out = "ok" THEN tallyTrial(y.tally, t, w) ELSE y.tally
  /\ z.tally.trials = y.tally.trials + (IF t.out = "ok" THEN 1 ELSE 0)
  /\ z.incomplete = (y.incomplete \/ t.shift \notin Requests(w) \ y.shifts \/ t.out # "ok")
  /\ z.shifts = IF t.shift \in Requests(w) \ y.shifts THEN y.shifts \union {t.shift}
                ELSE y.shifts

\* What a cycle has of a shift it received.
LEMMA ReceiveDoes ==
  ASSUME NEW w \in Nat, NEW t, t.out = "ok" => t.ranks \in Perms(w),
         NEW y, y.received \in Nat, Sound(y.tally, w), y.completeTrials = y.tally.trials
  PROVE  Received(receiveShift(y, t, w), y, t, w)
<1> DEFINE z == receiveShift(y, t, w)
           valid == t.shift \in Requests(w) \ y.shifts
<1>1. z = [received |-> y.received + 1,
           completeTrials |-> y.completeTrials + (IF t.out = "ok" THEN 1 ELSE 0),
           incomplete |-> y.incomplete \/ ~valid \/ t.out # "ok",
           shifts |-> IF valid THEN y.shifts \union {t.shift} ELSE y.shifts,
           tally |-> IF t.out = "ok" THEN tallyTrial(y.tally, t, w) ELSE y.tally]
  BY DEF receiveShift
<1> HIDE DEF z, valid
<1>2. /\ z = [received |-> z.received, completeTrials |-> z.completeTrials,
              incomplete |-> z.incomplete, shifts |-> z.shifts, tally |-> z.tally]
      /\ z.received = y.received + 1
      /\ z.completeTrials = y.completeTrials + (IF t.out = "ok" THEN 1 ELSE 0)
      /\ z.tally = IF t.out = "ok" THEN tallyTrial(y.tally, t, w) ELSE y.tally
      /\ z.incomplete = (y.incomplete \/ ~valid \/ t.out # "ok")
      /\ z.shifts = IF valid THEN y.shifts \union {t.shift} ELSE y.shifts
  BY <1>1
<1>3. y.tally.trials \in Nat
  BY DEF Sound, Tallies
<1>4. CASE t.out = "ok"
  <2>1. Sound(tallyTrial(y.tally, t, w), w) /\ tallyTrial(y.tally, t, w).trials = y.tally.trials + 1
    BY <1>4, TallySound
  <2> QED BY <2>1, <1>2, <1>4 DEF valid, z, Received
<1>5. CASE t.out # "ok"
  <2> QED BY <1>2, <1>3, <1>5 DEF valid, z, Received
<1> QED BY <1>4, <1>5

\* The measurement with a trial received by its cycle, before the cycle closes.
Stored(m, t, w) ==
  LET fresh == t.cycle \notin DOMAIN m.cycles
      cycle == receiveShift(IF fresh THEN newCycle(w) ELSE m.cycles[t.cycle], t, w)
  IN [m EXCEPT !.cycles = [c \in DOMAIN @ \union {t.cycle} |->
                                        IF c = t.cycle THEN cycle ELSE @[c]],
               !.cyclesAttempted = @ + (IF fresh THEN 1 ELSE 0)]

\* The measurement n that m becomes when its cycle y receives a trial.
StoredIn(n, y, m, t, w) ==
  /\ Measurement(n, w)
  /\ DOMAIN n.cycles = DOMAIN m.cycles \union {t.cycle}
  /\ n.cycles[t.cycle] = receiveShift(y, t, w)
  /\ y.received \in Nat /\ Sound(y.tally, w) /\ y.completeTrials = y.tally.trials
  /\ \A c \in DOMAIN m.cycles \ {t.cycle} : n.cycles[c] = m.cycles[c]
  /\ n.tally = m.tally /\ n.retained = m.retained /\ n.excluded = m.excluded

\* What a measurement has of a rotating trial.
LEMMA StoredDoes ==
  ASSUME NEW w \in Nat, NEW t, t.out = "ok" => t.ranks \in Perms(w), NEW m, Measurement(m, w)
  PROVE  StoredIn(Stored(m, t, w),
                  IF t.cycle \in DOMAIN m.cycles THEN m.cycles[t.cycle] ELSE newCycle(w), m, t, w)
<1> DEFINE n == Stored(m, t, w)
           y == IF t.cycle \in DOMAIN m.cycles THEN m.cycles[t.cycle] ELSE newCycle(w)
           z == receiveShift(y, t, w)
           all == [c \in DOMAIN m.cycles \union {t.cycle} |-> IF c = t.cycle THEN z ELSE m.cycles[c]]
           att == m.cyclesAttempted + (IF t.cycle \notin DOMAIN m.cycles THEN 1 ELSE 0)
<1>1. n = [m EXCEPT !.cycles = all, !.cyclesAttempted = att]
  BY DEF Stored
<1>2. y.received \in Nat /\ Sound(y.tally, w) /\ y.completeTrials = y.tally.trials
  <2>1. CASE t.cycle \in DOMAIN m.cycles
    BY <2>1 DEF Measurement
  <2>2. CASE t.cycle \notin DOMAIN m.cycles
    BY <2>2, ZeroSound DEF newCycle
  <2> QED BY <2>1, <2>2
<1> HIDE DEF y
<1>3. /\ z = [received |-> z.received, completeTrials |-> z.completeTrials,
              incomplete |-> z.incomplete, shifts |-> z.shifts, tally |-> z.tally]
      /\ z.received = y.received + 1 /\ Sound(z.tally, w) /\ z.completeTrials = z.tally.trials
  <2>1. Received(receiveShift(y, t, w), y, t, w)
    BY <1>2, ReceiveDoes
  <2> HIDE DEF z
  <2> QED BY <2>1 DEF Received, z
<1> HIDE DEF z, att
<1>4. DOMAIN all = DOMAIN m.cycles \union {t.cycle} /\ all[t.cycle] = z
      /\ (\A c \in DOMAIN m.cycles \ {t.cycle} : all[c] = m.cycles[c])
      /\ all = [c \in DOMAIN all |-> all[c]]
  OBVIOUS
<1> HIDE DEF all, n
<1>5. /\ m = [attempted |-> m.attempted, complete |-> m.complete, incomplete |-> m.incomplete,
          retained |-> m.retained, excluded |-> m.excluded, warmOk |-> m.warmOk,
          warmErr |-> m.warmErr, conns |-> m.conns, cycles |-> m.cycles,
          cyclesAttempted |-> m.cyclesAttempted, cyclesRetained |-> m.cyclesRetained,
          cyclesIncomplete |-> m.cyclesIncomplete, tally |-> m.tally, err |-> m.err]
      /\ ~m.err /\ Sound(m.tally, w) /\ m.retained = m.tally.trials
  BY DEF Measurement
<1>6. n = [attempted |-> m.attempted, complete |-> m.complete, incomplete |-> m.incomplete,
          retained |-> m.retained, excluded |-> m.excluded, warmOk |-> m.warmOk,
          warmErr |-> m.warmErr, conns |-> m.conns, cycles |-> all,
          cyclesAttempted |-> att, cyclesRetained |-> m.cyclesRetained,
          cyclesIncomplete |-> m.cyclesIncomplete, tally |-> m.tally, err |-> m.err]
  BY <1>1, <1>5
<1>7. /\ n = [attempted |-> n.attempted, complete |-> n.complete, incomplete |-> n.incomplete,
              retained |-> n.retained, excluded |-> n.excluded, warmOk |-> n.warmOk,
              warmErr |-> n.warmErr, conns |-> n.conns, cycles |-> n.cycles,
              cyclesAttempted |-> n.cyclesAttempted, cyclesRetained |-> n.cyclesRetained,
              cyclesIncomplete |-> n.cyclesIncomplete, tally |-> n.tally, err |-> n.err]
      /\ n.cycles = all /\ n.tally = m.tally /\ n.retained = m.retained
      /\ n.excluded = m.excluded /\ n.err = m.err
  BY <1>6
<1>8. \A c \in DOMAIN n.cycles :
       LET x == n.cycles[c] IN
       /\ x = [received |-> x.received, completeTrials |-> x.completeTrials,
               incomplete |-> x.incomplete, shifts |-> x.shifts, tally |-> x.tally]
       /\ x.received \in Nat /\ Sound(x.tally, w) /\ x.completeTrials = x.tally.trials
  <2> TAKE c \in DOMAIN n.cycles
  <2>1. CASE c = t.cycle
    <3>1. n.cycles[c] = z BY <2>1, <1>4, <1>7
    <3>2. z.received \in Nat BY <1>2, <1>3
    <3> QED BY <3>1, <3>2, <1>3
  <2>2. CASE c # t.cycle
    <3>1. c \in DOMAIN m.cycles /\ n.cycles[c] = m.cycles[c] BY <2>2, <1>4, <1>7
    <3> QED BY <3>1 DEF Measurement
  <2> QED BY <2>1, <2>2
<1>9. Measurement(n, w)
  BY <1>4, <1>5, <1>7, <1>8 DEF Measurement
<1> QED BY <1>2, <1>4, <1>7, <1>9 DEF StoredIn, n, z, y

\* Two measurements that agree on what they tally.
Alike(n, m) ==
  /\ n.cycles = m.cycles /\ n.tally = m.tally /\ n.retained = m.retained
  /\ n.excluded = m.excluded

\* A measurement in which a tally and a number of retained trials replace its own.
LEMMA CountedRetained ==
  ASSUME NEW c, NEW u, NEW kept,
         c = [attempted |-> c.attempted, complete |-> c.complete, incomplete |-> c.incomplete,
              retained |-> c.retained, excluded |-> c.excluded, warmOk |-> c.warmOk,
              warmErr |-> c.warmErr, conns |-> c.conns, cycles |-> c.cycles,
              cyclesAttempted |-> c.cyclesAttempted, cyclesRetained |-> c.cyclesRetained,
              cyclesIncomplete |-> c.cyclesIncomplete, tally |-> c.tally, err |-> c.err]
  PROVE  [c EXCEPT !.tally = u, !.retained = kept]
           = [attempted |-> c.attempted, complete |-> c.complete, incomplete |-> c.incomplete,
              retained |-> kept, excluded |-> c.excluded, warmOk |-> c.warmOk,
              warmErr |-> c.warmErr, conns |-> c.conns, cycles |-> c.cycles,
              cyclesAttempted |-> c.cyclesAttempted, cyclesRetained |-> c.cyclesRetained,
              cyclesIncomplete |-> c.cyclesIncomplete, tally |-> u, err |-> c.err]
<1> DEFINE d == [c EXCEPT !.tally = u]
<1>1. [c EXCEPT !.tally = u, !.retained = kept] = [d EXCEPT !.retained = kept]
  OBVIOUS
<1>2. d = [attempted |-> c.attempted, complete |-> c.complete, incomplete |-> c.incomplete,
           retained |-> c.retained, excluded |-> c.excluded, warmOk |-> c.warmOk,
           warmErr |-> c.warmErr, conns |-> c.conns, cycles |-> c.cycles,
           cyclesAttempted |-> c.cyclesAttempted, cyclesRetained |-> c.cyclesRetained,
           cyclesIncomplete |-> c.cyclesIncomplete, tally |-> u, err |-> c.err]
  OBVIOUS
<1> HIDE DEF d
<1>3. [d EXCEPT !.retained = kept]
        = [attempted |-> c.attempted, complete |-> c.complete, incomplete |-> c.incomplete,
           retained |-> kept, excluded |-> c.excluded, warmOk |-> c.warmOk,
           warmErr |-> c.warmErr, conns |-> c.conns, cycles |-> c.cycles,
           cyclesAttempted |-> c.cyclesAttempted, cyclesRetained |-> c.cyclesRetained,
           cyclesIncomplete |-> c.cyclesIncomplete, tally |-> u, err |-> c.err]
  BY <1>2
<1> QED BY <1>1, <1>3

\* What observing a trial does to a measurement that it does not spoil.
LEMMA ObserveDoes ==
  ASSUME NEW w \in Nat, NEW m, Measurement(m, w), NEW policy,
         NEW t, t.warm \in BOOLEAN, t.out \in {"ok", "err", "bad"},
         ~observe(m, t, w, policy).err
  PROVE  LET n == observe(m, t, w, policy) IN
         \/ (t.warm \/ (policy # "rotate" /\ t.out = "err")) /\ Measurement(n, w) /\ Alike(n, m)
         \/ /\ ~t.warm /\ policy = "rotate" /\ t.out \in {"ok", "err"}
            /\ \E c : Measurement(c, w) /\ Alike(c, m) /\ n = observeCycle(c, t, w)
         \/ /\ ~t.warm /\ policy # "rotate" /\ t.out = "ok"
            /\ n.cycles = m.cycles /\ n.tally = tallyTrial(m.tally, t, w)
            /\ n.retained = m.retained + 1 /\ n.excluded = m.excluded
            /\ t.ranks \in Perms(w) => Measurement(n, w)
<1> DEFINE n == observe(m, t, w, policy)
           seen == [m EXCEPT !.conns = @ \union {t.conn}]
           k == IF t.out = "ok" THEN 1 ELSE 0
           counted == [seen EXCEPT !.attempted = @ + 1, !.complete = @ + k,
                                   !.incomplete = @ + (IF t.out = "ok" THEN 0 ELSE 1)]
<1>0. m = [attempted |-> m.attempted, complete |-> m.complete, incomplete |-> m.incomplete,
          retained |-> m.retained, excluded |-> m.excluded, warmOk |-> m.warmOk,
          warmErr |-> m.warmErr, conns |-> m.conns, cycles |-> m.cycles,
          cyclesAttempted |-> m.cyclesAttempted, cyclesRetained |-> m.cyclesRetained,
          cyclesIncomplete |-> m.cyclesIncomplete, tally |-> m.tally, err |-> m.err]
  BY DEF Measurement
<1>1. /\ ~m.err /\ Sound(m.tally, w) /\ m.retained = m.tally.trials
      /\ m.cycles = [c \in DOMAIN m.cycles |-> m.cycles[c]]
      /\ \A c \in DOMAIN m.cycles :
       LET y == m.cycles[c] IN
       /\ y = [received |-> y.received, completeTrials |-> y.completeTrials,
               incomplete |-> y.incomplete, shifts |-> y.shifts, tally |-> y.tally]
       /\ y.received \in Nat /\ Sound(y.tally, w) /\ y.completeTrials = y.tally.trials
  BY DEF Measurement
<1>2. CASE t.warm
  <2>1. n = [seen EXCEPT !.warmOk = @ + (IF t.out = "err" THEN 0 ELSE 1),
                         !.warmErr = @ + (IF t.out = "err" THEN 1 ELSE 0)]
    BY <1>2 DEF observe
  <2> HIDE DEF n
  <2>2. Measurement(n, w) /\ Alike(n, m)
    BY <1>0, <1>1, <2>1 DEF Measurement, Alike
  <2> QED BY <1>2, <2>2 DEF n
<1>3. CASE ~t.warm /\ t.out = "bad"
  <2>1. n = [seen EXCEPT !.attempted = @ + 1, !.err = TRUE]
    BY <1>3 DEF observe
  <2>2. n.err = TRUE
    BY <2>1, <1>0
  <2> QED BY <2>2
<1>4. Measurement(counted, w) /\ Alike(counted, m)
  <2> DEFINE i == IF t.out = "ok" THEN 0 ELSE 1
             j == m.conns \union {t.conn}
  <2>2. counted = [[m EXCEPT !.conns = j] EXCEPT !.attempted = @ + 1, !.complete = @ + k,
                                                 !.incomplete = @ + i]
    OBVIOUS
  <2> HIDE DEF k, i, j, counted
  <2>3. [m EXCEPT !.conns = j] =
         [attempted |-> m.attempted, complete |-> m.complete, incomplete |-> m.incomplete,
          retained |-> m.retained, excluded |-> m.excluded, warmOk |-> m.warmOk,
          warmErr |-> m.warmErr, conns |-> j, cycles |-> m.cycles,
          cyclesAttempted |-> m.cyclesAttempted, cyclesRetained |-> m.cyclesRetained,
          cyclesIncomplete |-> m.cyclesIncomplete, tally |-> m.tally, err |-> m.err]
    BY <1>0
  <2>1. counted = [attempted |-> m.attempted + 1, complete |-> m.complete + k,
          incomplete |-> m.incomplete + i,
          retained |-> m.retained, excluded |-> m.excluded, warmOk |-> m.warmOk,
          warmErr |-> m.warmErr, conns |-> j, cycles |-> m.cycles,
          cyclesAttempted |-> m.cyclesAttempted, cyclesRetained |-> m.cyclesRetained,
          cyclesIncomplete |-> m.cyclesIncomplete, tally |-> m.tally, err |-> m.err]
    BY <2>2, <2>3
  <2> QED BY <1>0, <1>1, <2>1 DEF Measurement, Alike
<1>5. CASE ~t.warm /\ t.out # "bad" /\ policy = "rotate"
  <2>1. n = observeCycle(counted, t, w)
    BY <1>5 DEF observe
  <2> HIDE DEF counted, n
  <2>2. \E c : Measurement(c, w) /\ Alike(c, m) /\ n = observeCycle(c, t, w)
    BY <2>1, <1>4
  <2> QED BY <2>2, <1>5 DEF n
<1>6. CASE ~t.warm /\ t.out = "err" /\ policy # "rotate"
  <2>1. n = counted
    BY <1>6 DEF observe
  <2> HIDE DEF counted, n
  <2> QED BY <2>1, <1>4, <1>6 DEF n
<1>7. CASE ~t.warm /\ t.out = "ok" /\ policy # "rotate"
  <2>1. n = [counted EXCEPT !.tally = tallyTrial(@, t, w), !.retained = @ + 1]
    BY <1>7 DEF observe
  <2> HIDE DEF counted
  <2>2. /\ counted = [attempted |-> counted.attempted, complete |-> counted.complete,
          incomplete |-> counted.incomplete,
          retained |-> counted.retained, excluded |-> counted.excluded, warmOk |-> counted.warmOk,
          warmErr |-> counted.warmErr, conns |-> counted.conns, cycles |-> counted.cycles,
          cyclesAttempted |-> counted.cyclesAttempted, cyclesRetained |-> counted.cyclesRetained,
          cyclesIncomplete |-> counted.cyclesIncomplete, tally |-> counted.tally,
          err |-> counted.err]
    BY <1>4 DEF Measurement
  <2>5. /\ ~counted.err
        /\ counted.cycles = m.cycles /\ counted.tally = m.tally
        /\ counted.retained = m.retained /\ counted.excluded = m.excluded
    BY <1>4 DEF Measurement, Alike
  <2> DEFINE u == tallyTrial(m.tally, t, w)
  <2> HIDE DEF u
  <2>6. n = [counted EXCEPT !.tally = u, !.retained = m.retained + 1]
    BY <2>1, <2>5 DEF u
  <2>3. n = [attempted |-> counted.attempted, complete |-> counted.complete,
          incomplete |-> counted.incomplete,
          retained |-> m.retained + 1, excluded |-> m.excluded, warmOk |-> counted.warmOk,
          warmErr |-> counted.warmErr, conns |-> counted.conns, cycles |-> m.cycles,
          cyclesAttempted |-> counted.cyclesAttempted, cyclesRetained |-> counted.cyclesRetained,
          cyclesIncomplete |-> counted.cyclesIncomplete, tally |-> u,
          err |-> counted.err]
    <3>1. counted.cycles = m.cycles /\ counted.excluded = m.excluded
      BY <2>5
    <3> QED BY <2>2, <2>6, <3>1, CountedRetained
  <2> HIDE DEF n
  <2>4. ASSUME t.ranks \in Perms(w) PROVE Measurement(n, w)
    <3>1. /\ Sound(tallyTrial(m.tally, t, w), w)
          /\ tallyTrial(m.tally, t, w).trials = m.tally.trials + 1
      BY <1>1, <2>4, TallySound
    <3> QED BY <1>1, <2>5, <2>3, <3>1 DEF Measurement, u
  <2> QED BY <2>3, <2>4, <1>7 DEF n, u
<1> QED BY <1>2, <1>3, <1>5, <1>6, <1>7

\* A rotating trial is stored in its cycle, and the last one closes it.
LEMMA ObserveCycleDoes ==
  ASSUME NEW w, NEW t, NEW c, Measurement(c, w)
  PROVE  observeCycle(c, t, w) =
           IF receiveShift(IF t.cycle \in DOMAIN c.cycles THEN c.cycles[t.cycle] ELSE newCycle(w),
                           t, w).received = w
           THEN finaliseCycle(Stored(c, t, w), t.cycle, w) ELSE Stored(c, t, w)
<1>1. (IF t.cycle \notin DOMAIN c.cycles THEN newCycle(w) ELSE c.cycles[t.cycle])
        = IF t.cycle \in DOMAIN c.cycles THEN c.cycles[t.cycle] ELSE newCycle(w)
  OBVIOUS
<1> QED BY <1>1, Zenon DEF observeCycle, Stored

\* The trials a measurement is handed have permutations for ranks.
LEMMA TrialIs ==
  ASSUME plan.w \in Nat, NEW y \in Trials \union Priming
  PROVE  /\ y.trial.warm \in BOOLEAN /\ y.trial.out \in {"ok", "err", "bad"}
         /\ cfg.cmd = "measure" => y.trial.ranks \in Perms(plan.w)
<1>1. InOrder \in Perms(plan.w)
  BY DEF InOrder, Perms, Requests
<1>2. CASE y \in Trials
  <2>1. PICK p \in {q \in NextPlaces : ConnAllowed(q)}, o \in Outcomes :
          y = [trial |-> [warm |-> FALSE, cycle |-> p.cycle, shift |-> p.shift, conn |-> p.conn,
                          arr |-> Arrangement(plan.policy, p.base, p.shift, plan.w),
                          out |-> o.out, ranks |-> o.ranks],
               base |-> p.base]
    BY <1>2 DEF Trials
  <2>2. o.out \in {"ok", "err", "bad"} /\ (cfg.cmd = "measure" => o.ranks \in Perms(plan.w))
    BY <1>1 DEF Outcomes
  <2> QED BY <2>1, <2>2
<1>3. CASE y \in Priming
  <2>1. y.trial.warm = TRUE /\ y.trial.out \in {"ok", "err"} /\ y.trial.ranks = InOrder
    BY <1>3 DEF Priming
  <2> QED BY <1>1, <2>1
<1> QED BY <1>2, <1>3

\* What a trial does to a measurement that nothing has spoilt.
LEMMA MeasureTrialDoes ==
  ASSUME Control, Tallied, Trial, cfg.cmd = "measure", failure' = "none"
  PROVE  \E y \in Trials \union Priming :
           /\ acc' = observe(acc, y.trial, plan.w, plan.policy) /\ ~acc'.err
           /\ stream' = IF y.trial.warm THEN [stream EXCEPT !.priming = @ + 1]
                        ELSE [Advance(y.trial, y.base) EXCEPT !.bad =
                                @ + (IF y.trial.out = "bad" THEN 1 ELSE 0)]
           /\ IF y.trial.warm THEN UNCHANGED <<summary, log>>
              ELSE /\ summary' = IF y.trial.out = "err" THEN summary
                                 ELSE tallyTrial(summary, y.trial, plan.w)
                   /\ log' = log \union {[place |-> Place(y.trial), out |-> y.trial.out,
                                         ranks |-> y.trial.ranks, arr |-> y.trial.arr]}
           /\ plan.w \in Nat /\ Measurement(acc, plan.w) /\ failure = "none"
<1>1. pc = "drive" /\ out.started /\ plan.w \in Nat
  BY DEF Trial, Control, Stopped, Typed
<1>2. PICK y \in Trials \union Priming :
        /\ stream' = IF y.trial.warm THEN [stream EXCEPT !.priming = @ + 1]
                     ELSE [Advance(y.trial, y.base) EXCEPT !.bad =
                             @ + (IF y.trial.out = "bad" THEN 1 ELSE 0)]
        /\ IF y.trial.warm \/ failure # "none" \/ cfg.cmd # "measure" THEN UNCHANGED <<summary, log>>
           ELSE /\ summary' = IF y.trial.out = "err" THEN summary
                              ELSE tallyTrial(summary, y.trial, plan.w)
                /\ log' = log \union {[place |-> Place(y.trial), out |-> y.trial.out,
                                      ranks |-> y.trial.ranks, arr |-> y.trial.arr]}
        /\ measureTrial(y.trial)
  BY DEF Trial
<1>3. /\ failure = "none" /\ acc' = observe(acc, y.trial, plan.w, plan.policy)
      /\ ~acc'.err
  BY <1>2 DEF measureTrial
<1>4. Measurement(acc, plan.w)
  BY <1>1, <1>3 DEF Tallied, Live
<1> QED BY <1>1, <1>2, <1>3, <1>4

\* Observing a trial keeps a measurement consistent.
LEMMA ObserveKeeps ==
  ASSUME NEW w \in Nat, NEW m, Measurement(m, w), NEW policy,
         NEW t, t.warm \in BOOLEAN, t.out \in {"ok", "err", "bad"}, t.ranks \in Perms(w),
         ~observe(m, t, w, policy).err
  PROVE  Measurement(observe(m, t, w, policy), w)
<1> DEFINE n == observe(m, t, w, policy)
<1>1. \/ Measurement(n, w)
      \/ \E c : Measurement(c, w) /\ n = observeCycle(c, t, w)
  <2> HIDE DEF n
  <2> QED BY ObserveDoes DEF n
<1>2. ASSUME NEW c, Measurement(c, w) PROVE Measurement(observeCycle(c, t, w), w)
  <2>1. Measurement(Stored(c, t, w), w) /\ t.cycle \in DOMAIN Stored(c, t, w).cycles
    BY <1>2, StoredDoes DEF StoredIn
  <2>2. Measurement(finaliseCycle(Stored(c, t, w), t.cycle, w), w)
    BY <2>1, FinaliseKeeps
  <2> QED BY <2>1, <2>2, <1>2, ObserveCycleDoes
<1> HIDE DEF n
<1> QED BY <1>1, <1>2 DEF n

\* Trials, closings and whatever leaves the measurement alone keep it tallied.
LEMMA TalliedKeeps == ASSUME Control, Tallied, Next PROVE Tallied'
<1>1. CASE Trial
  <2> SUFFICES ASSUME cfg.cmd = "measure", failure' = "none"
               PROVE  /\ Measurement(acc', plan.w)
                      /\ plan.policy # "rotate" => DOMAIN acc'.cycles = {} /\ acc'.tally = summary'
    BY <1>1 DEF Tallied, Trial
  <2>1. PICK y \in Trials \union Priming :
          /\ acc' = observe(acc, y.trial, plan.w, plan.policy) /\ ~acc'.err
          /\ IF y.trial.warm THEN UNCHANGED <<summary, log>>
             ELSE /\ summary' = IF y.trial.out = "err" THEN summary
                                ELSE tallyTrial(summary, y.trial, plan.w)
                  /\ log' = log \union {[place |-> Place(y.trial), out |-> y.trial.out,
                                         ranks |-> y.trial.ranks, arr |-> y.trial.arr]}
          /\ plan.w \in Nat /\ Measurement(acc, plan.w) /\ failure = "none"
    BY <1>1, MeasureTrialDoes
  <2> DEFINE t == y.trial
  <2>2. /\ t.warm \in BOOLEAN /\ t.out \in {"ok", "err", "bad"} /\ t.ranks \in Perms(plan.w)
    BY <2>1, TrialIs
  <2>3. Measurement(acc', plan.w)
    BY <2>1, <2>2, ObserveKeeps
  <2>4. ASSUME plan.policy # "rotate" PROVE DOMAIN acc'.cycles = {} /\ acc'.tally = summary'
    <3>1. DOMAIN acc.cycles = {} /\ acc.tally = summary
      BY <2>1, <2>4, <1>1 DEF Tallied, Trial, Live, Control, Stopped
    <3>2. \/ (t.warm \/ t.out = "err") /\ acc'.cycles = acc.cycles /\ acc'.tally = acc.tally
          \/ /\ ~t.warm /\ t.out = "ok"
             /\ acc'.cycles = acc.cycles /\ acc'.tally = tallyTrial(acc.tally, t, plan.w)
      <4> HIDE DEF t
      <4>1. ~observe(acc, t, plan.w, plan.policy).err
        BY <2>1 DEF t
      <4>2. \/ (t.warm \/ t.out = "err") /\ Alike(observe(acc, t, plan.w, plan.policy), acc)
            \/ /\ ~t.warm /\ t.out = "ok"
               /\ observe(acc, t, plan.w, plan.policy).cycles = acc.cycles
               /\ observe(acc, t, plan.w, plan.policy).tally = tallyTrial(acc.tally, t, plan.w)
        BY <2>1, <2>2, <2>4, <4>1, ObserveDoes
      <4> QED BY <2>1, <4>2 DEF Alike, t
    <3> QED BY <2>1, <3>1, <3>2
  <2> QED BY <2>3, <2>4
<1>2. CASE Finish
  <2> SUFFICES ASSUME failure = "none", out.started
               PROVE  /\ Measurement(acc', plan.w)
                      /\ plan.policy # "rotate" => DOMAIN acc'.cycles = {} /\ acc'.tally = summary'
    BY <1>2 DEF Tallied, Finish
  <2>1. /\ Measurement(acc, plan.w) /\ plan.w \in Nat
        /\ plan.policy # "rotate" => DOMAIN acc.cycles = {}
    BY <1>2 DEF Tallied, Finish, Live, Control, Typed
  <2>2. PICK id \in DOMAIN acc.cycles : acc' = finaliseCycle(acc, id, plan.w)
    BY <1>2 DEF Finish, finish
  <2>3. Measurement(acc', plan.w)
    BY <2>1, <2>2, FinaliseKeeps
  <2> QED BY <2>1, <2>2, <2>3
<1>3. CASE Header
  <2>1. CASE UNCHANGED <<acc, summary>> /\ out'.started = out.started
    BY <1>3, <2>1 DEF Header, envVars, Tallied, Live
  <2>2. CASE ~out.started /\ ~out'.started
    BY <2>2 DEF Tallied
  <2>3. CASE /\ acc' = CASE cfg.cmd = "race" -> raceCounters
                         [] cfg.cmd = "measure" -> newMeasurement(plan.w)
                         [] cfg.cmd = "analyse" -> newAnalyseCollector
             /\ summary' = ZeroTally(plan.w)
    <3>1. UNCHANGED <<plan, cfg>>
      BY <1>3 DEF Header
    <3>2. cfg.cmd = "measure" => acc' = newMeasurement(plan.w)
      BY <2>3
    <3>3. cfg.cmd = "measure" => /\ Measurement(acc', plan.w) /\ DOMAIN acc'.cycles = {}
                                 /\ acc'.tally = summary'
      BY <3>2, <2>3, NewMeasurementOK DEF newMeasurement
    <3> QED BY <3>1, <3>3 DEF Tallied
  <2>4. out.started => out'.started
    BY <1>3 DEF Header, Encode, Misframed, Control, Framed
  <2>5. out'.started \in BOOLEAN /\ out.started \in BOOLEAN
    BY <1>3, HeaderKeeps DEF Control, Framed
  <2> QED BY <1>3, <2>1, <2>2, <2>3, <2>4, <2>5 DEF Header
<1>4. CASE Plan \/ DryRun \/ StartLive \/ FitFails \/ Fit
  <2>1. pc \notin Live /\ out' = out
    BY <1>4 DEF Plan, DryRun, StartLive, FitFails, Fit, Live
  <2>2. ~out'.started
    <3>1. pc # "done" BY <1>4 DEF Plan, DryRun, StartLive, FitFails, Fit
    <3> QED BY <2>1, <3>1 DEF Control, Framed
  <2> QED BY <2>2 DEF Tallied
<1>5. CASE StreamEnds \/ LiveFinish \/ Interrupt \/ Deadline \/ Returned
  <2>1. /\ UNCHANGED <<cfg, plan, acc, summary, failure, out>>
        /\ pc' \in Live => pc \in Live
    BY <1>5 DEF StreamEnds, LiveFinish, Interrupt, Deadline, Returned, vars, liveVars, Live
  <2> QED BY <2>1 DEF Tallied
<1>6. CASE Settle
  <2>1. pc' = "done"
    BY <1>6, CommandAssumption
       DEF Settle, Control, Typed, raceSettles, measureSettles, analyseSettles, Return, Terminal
  <2> QED BY <2>1 DEF Tallied, Live
<1> QED BY <1>1, <1>2, <1>3, <1>4, <1>5, <1>6 DEF Next

\* A consistent measurement reconciles with the transport's summary.
LEMMA Reconciles ==
  ASSUME NEW m, NEW w, Measurement(m, w), NEW transport, NEW policy,
         policy # "rotate" => m.tally = transport
  PROVE  reconcile(m, transport, w, policy)
<1>1. (IF policy # "rotate" THEN transport ELSE m.tally) = m.tally
  OBVIOUS
<1> QED BY <1>1 DEF reconcile, Measurement, Sound

-----------------------------------------------------------------------------
(* The completion.                                                         *)

\* A completion that names what ended the run.
Names(c) ==
  /\ c.state = "complete" => /\ boundary = "none" /\ streamErr = "none" /\ failure = "none"
                             /\ AllYielded
  /\ c.state = "stopped" => boundary = "canceled" /\ parent = "cancelled" /\ failure = "none"
  /\ c.code = "run_timeout" => boundary = "timeout" /\ timer = "fired"
  /\ streamErr = "transport" /\ failure = "none" /\ (cfg.cmd = "analyse" => ~acc.sinkFailed)
       => c.code = "acquisition_failed"
  /\ c.code = "interrupted" => c.state = "stopped"
  /\ c.code # "deadline_exceeded"

\* What ended a race or a measurement is what its completion names.
LEMMA LiveCompletionNames ==
  ASSUME Control, pc = "settle", cfg.cmd \in {"race", "measure"}
  PROVE  Names(liveCompletion)
<1>1. /\ boundary \in {"none", "canceled", "timeout"}
      /\ streamErr \in {"none", "deadline", "canceled", "transport"}
      /\ failure \in {"none", "io", "pipe", "evidence"}
      /\ boundary = "canceled" => parent = "cancelled"
      /\ boundary = "timeout" => timer = "fired"
  BY DEF Control, Typed, Causes, CauseKept
<1>2. ~driving => failure # "none"
  BY DEF Control, Stopped
<1>3. /\ streamErr = "none" => AllYielded
      /\ streamErr = "canceled" => ~driving \/ boundary = "canceled"
      /\ streamErr = "deadline" => boundary = "timeout"
  BY DEF Control, Ended
<1> DEFINE given == IF cfg.cmd = "race" THEN parent = "cancelled" ELSE boundary # "timeout"
<1>4. boundary = "canceled" => given
  BY <1>1
<1> HIDE DEF given
<1>5. liveCompletion = IF failure # "none" THEN failedRun(failure, "internal_error")
        ELSE IF streamErr = "none" /\ boundary = "none" THEN completedRun
        ELSE stopInterruptedRun(given, liveRunFailed(streamErr, boundary, "acquisition_failed"))
  BY DEF liveCompletion, given
<1>6. CASE failure # "none"
  <2>1. liveCompletion = [state |-> "failed", code |-> "internal_error"]
    BY <1>1, <1>5, <1>6 DEF failedRun
  <2> QED BY <2>1, <1>6 DEF Names
<1>7. CASE failure = "none" /\ streamErr = "none" /\ boundary = "none"
  <2>1. liveCompletion = [state |-> "complete", code |-> "none"]
    BY <1>5, <1>7 DEF completedRun
  <2> QED BY <2>1, <1>3, <1>7 DEF Names
<1>8. CASE failure = "none" /\ streamErr = "transport"
  <2>1. liveRunFailed(streamErr, boundary, "acquisition_failed")
          = [state |-> "failed", code |-> "acquisition_failed"]
    BY <1>8 DEF liveRunFailed, failedRun, Concrete
  <2>2. liveCompletion = [state |-> "failed", code |-> "acquisition_failed"]
    BY <1>5, <1>8, <2>1 DEF stopInterruptedRun
  <2> QED BY <2>2 DEF Names
<1>9. CASE failure = "none" /\ streamErr # "transport" /\ boundary = "timeout"
  <2>1. liveRunFailed(streamErr, boundary, "acquisition_failed")
          = [state |-> "failed", code |-> "run_timeout"]
    BY <1>1, <1>9 DEF liveRunFailed, Concrete
  <2>2. liveCompletion = [state |-> "failed", code |-> "run_timeout"]
    BY <1>5, <1>9, <2>1 DEF stopInterruptedRun
  <2> QED BY <2>2, <1>1, <1>9 DEF Names
<1>10. CASE failure = "none" /\ streamErr # "transport" /\ boundary = "canceled"
  <2>1. streamErr \in {"none", "canceled"}
    BY <1>1, <1>3, <1>10
  <2>2. liveRunFailed(streamErr, boundary, "acquisition_failed")
          = [state |-> "failed", code |-> "interrupted"]
    BY <2>1, <1>10 DEF liveRunFailed, failedRun, Concrete
  <2>3. liveCompletion = [state |-> "stopped", code |-> "interrupted"]
    BY <1>4, <1>5, <1>10, <2>2 DEF stopInterruptedRun, stoppedRun
  <2> QED BY <2>3, <1>1, <1>10 DEF Names
<1>11. streamErr # "none" /\ boundary = "none" /\ failure = "none" => streamErr = "transport"
  BY <1>1, <1>2, <1>3
<1> QED BY <1>1, <1>6, <1>7, <1>8, <1>9, <1>10, <1>11

\* What ended an analysis is what its completion names.
LEMMA AnalyseCompletionNames ==
  ASSUME Control, pc = "settle", cfg.cmd = "analyse"
  PROVE  Names(analyseCompletion)
<1>1. /\ boundary \in {"none", "canceled", "timeout"}
      /\ streamErr \in {"none", "deadline", "canceled", "transport"}
      /\ boundary = "canceled" => parent = "cancelled"
      /\ boundary = "timeout" => timer = "fired"
  BY DEF Control, Typed, Causes, CauseKept
<1>2. failure = "none" /\ (~driving => acc.sinkFailed)
  BY DEF Control, Stopped
<1>3. /\ streamErr = "none" => AllYielded
      /\ streamErr = "canceled" => ~driving \/ boundary = "canceled"
      /\ streamErr = "deadline" => boundary = "timeout"
  BY DEF Control, Ended
<1> DEFINE collected == CASE acc.sinkFailed     -> failedRun("sink", "internal_error")
                          [] ~acc.sinkFailed /\ streamErr # "none" ->
                               failedRun(streamErr, "acquisition_failed")
                          [] OTHER -> completedRun
           final == finaliseLiveCompletion(collected, boundary, "acquisition_failed")
<1>4. analyseCompletion = stopInterruptedRun(parent = "cancelled", final)
  BY DEF analyseCompletion
<1>5. CASE acc.sinkFailed
  <2>1. collected = [state |-> "failed", code |-> "internal_error"]
    BY <1>5 DEF failedRun
  <2> HIDE DEF collected
  <2>2. final = [state |-> "failed", code |-> "internal_error"]
    BY <2>1 DEF finaliseLiveCompletion
  <2> HIDE DEF final
  <2>3. analyseCompletion = [state |-> "failed", code |-> "internal_error"]
    BY <1>4, <2>2 DEF stopInterruptedRun
  <2> QED BY <2>3, <1>5 DEF Names
<1>6. CASE ~acc.sinkFailed
  <2>1. collected = IF streamErr = "none" THEN [state |-> "complete", code |-> "none"]
                    ELSE failedRun(streamErr, "acquisition_failed")
    BY <1>6 DEF completedRun
  <2> HIDE DEF collected
  <2>2. CASE streamErr = "transport"
    <3>1. collected = [state |-> "failed", code |-> "acquisition_failed"]
      BY <2>1, <2>2 DEF failedRun
    <3>2. final = [state |-> "failed", code |-> "acquisition_failed"]
      BY <3>1 DEF finaliseLiveCompletion
    <3> HIDE DEF final
    <3>3. analyseCompletion = [state |-> "failed", code |-> "acquisition_failed"]
      BY <1>4, <3>2 DEF stopInterruptedRun
    <3> QED BY <3>3 DEF Names
  <2>3. CASE streamErr # "transport" /\ boundary = "none"
    <3>1. streamErr = "none"
      BY <2>3, <1>1, <1>2, <1>3, <1>6
    <3>2. collected = [state |-> "complete", code |-> "none"]
      BY <2>1, <3>1
    <3>3. final = [state |-> "complete", code |-> "none"]
      BY <3>2, <2>3 DEF finaliseLiveCompletion
    <3> HIDE DEF final
    <3>4. analyseCompletion = [state |-> "complete", code |-> "none"]
      BY <1>4, <3>3 DEF stopInterruptedRun
    <3> QED BY <3>1, <3>4, <2>3, <1>2, <1>3 DEF Names
  <2>4. CASE streamErr # "transport" /\ boundary # "none"
    <3>1. collected.state = "failed" => collected.code \in {"interrupted", "deadline_exceeded"}
      BY <2>1, <2>4, <1>1 DEF failedRun
    <3>2. final = liveRunFailed("none", boundary, "acquisition_failed")
      BY <3>1, <2>4 DEF finaliseLiveCompletion
    <3> HIDE DEF final
    <3>3. CASE boundary = "timeout"
      <4>1. final = [state |-> "failed", code |-> "run_timeout"]
        BY <3>2, <3>3 DEF liveRunFailed, Concrete
      <4>2. analyseCompletion = [state |-> "failed", code |-> "run_timeout"]
        BY <1>4, <4>1 DEF stopInterruptedRun
      <4> QED BY <4>2, <3>3, <2>4, <1>1 DEF Names
    <3>4. CASE boundary = "canceled"
      <4>1. final = [state |-> "failed", code |-> "interrupted"]
        BY <3>2, <3>4 DEF liveRunFailed, Concrete, failedRun
      <4>2. analyseCompletion = [state |-> "stopped", code |-> "interrupted"]
        BY <1>1, <1>4, <4>1, <3>4 DEF stopInterruptedRun, stoppedRun
      <4> QED BY <4>2, <3>4, <2>4, <1>1, <1>2 DEF Names
    <3> QED BY <2>4, <3>3, <3>4, <1>1
  <2> QED BY <2>2, <2>3, <2>4
<1> QED BY <1>5, <1>6

\* The command settles: an error, or a terminal record with its completion.
LEMMA SettleDoes ==
  ASSUME Control, Tallied, Settle
  PROVE  /\ pc = "settle" /\ pc' = "done" /\ UNCHANGED <<cfg, plan, envVars, liveVars>>
         /\ result'.exit \in {0, 1}
         /\ UNCHANGED out \/ (checkEvidence /\ Encode("result", [out EXCEPT !.finished = TRUE]))
         /\ result'.completion = NoCompletion \/ Names(result'.completion)
         /\ result'.exit = 0 => \/ out'.poison = "pipe" /\ cfg.pipe
                                \/ out'.records # <<>> /\ Last(out'.records) = "result"
<1>1. /\ pc = "settle" /\ UNCHANGED <<cfg, plan, envVars, liveVars>> /\ UNCHANGED plan
      /\ cfg.cmd \in {"race", "measure", "analyse"} /\ Framed
      /\ plan.requests \in Nat /\ pc \in Live /\ out.started
      /\ failure = "pipe" => out.poison = "pipe"
  BY CommandAssumption DEF Settle, Control, Typed, Stopped, Live
<1> DEFINE Done ==
             /\ pc' = "done" /\ result'.exit \in {0, 1}
             /\ UNCHANGED out \/ (checkEvidence /\ Encode("result", [out EXCEPT !.finished = TRUE]))
             /\ result'.completion = NoCompletion \/ Names(result'.completion)
             /\ result'.exit = 0 => \/ out'.poison = "pipe" /\ cfg.pipe
                                    \/ out'.records # <<>> /\ Last(out'.records) = "result"
<1>2. SUFFICES Done
  BY <1>1
<1>3. ASSUME Return(1, NoCompletion), UNCHANGED out PROVE Done
  BY <1>3 DEF Return
<1>4. liveExit(liveCompletion) \in {0, 1}
  BY DEF liveExit
<1>5. CASE cfg.cmd = "race"
  <2>1. raceSettles
    BY <1>5 DEF Settle
  <2>2. CASE failure \in {"io", "pipe"}
    <3>1. Return(WriteFailed(failure), NoCompletion) /\ UNCHANGED out
      BY <2>1, <2>2 DEF raceSettles
    <3> QED BY <3>1, <2>2, <1>1 DEF Return, WriteFailed
  <2>3. CASE failure \notin {"io", "pipe"}
    <3>1. \/ Return(1, NoCompletion) /\ UNCHANGED out
          \/ Terminal(liveCompletion, liveExit(liveCompletion))
      BY <2>1, <2>3 DEF raceSettles
    <3>2. Names(liveCompletion)
      BY <1>1, <1>5, LiveCompletionNames
    <3>3. CASE Terminal(liveCompletion, liveExit(liveCompletion))
      <4>1. Concluded(liveCompletion) BY <3>3, <1>1, <1>4, TerminalDoes
      <4> QED BY <4>1, <3>2 DEF Concluded
    <3> QED BY <3>1, <3>3, <1>3
  <2> QED BY <2>2, <2>3
<1>6. CASE cfg.cmd = "measure"
  <2> DEFINE sound == failure # "none" \/ reconcile(acc, summary, plan.w, plan.policy)
             c == IF sound THEN liveCompletion ELSE failedRun("reconcile", "internal_error")
             code == IF c.state = "complete" /\ acc.retained = 0 THEN 1 ELSE liveExit(c)
  <2>1. sound
    <3>1. CASE failure = "none"
      <4>1. Measurement(acc, plan.w) /\ (plan.policy # "rotate" => acc.tally = summary)
        BY <3>1, <1>1, <1>6 DEF Tallied
      <4> QED BY <4>1, Reconciles
    <3> QED BY <3>1
  <2> HIDE DEF sound
  <2>2. \/ Return(1, NoCompletion) /\ UNCHANGED out
        \/ Terminal(c, code)
    BY <1>6 DEF Settle, measureSettles, sound
  <2>3. c = liveCompletion
    BY <2>1
  <2> HIDE DEF c
  <2>4. code \in {0, 1}
    BY <2>3, <1>4
  <2> HIDE DEF code
  <2>5. Names(c)
    BY <2>3, <1>1, <1>6, LiveCompletionNames
  <2>6. CASE Terminal(c, code)
    <3>1. Concluded(c) BY <2>4, <2>6, <1>1, TerminalDoes
    <3> QED BY <3>1, <2>5 DEF Concluded
  <2> QED BY <2>2, <2>6, <1>3
<1>7. CASE cfg.cmd = "analyse"
  <2>1. \/ Return(1, NoCompletion) /\ UNCHANGED out
        \/ \E code \in {0, 1} : Terminal(analyseCompletion, code)
    <3>1. analyseSettles BY <1>7 DEF Settle
    <3> DEFINE f == finishCollector(acc, plan.w, plan.cycles, streamErr)
               validity == validateAnalyseEvidence(f.evidence, f.collector.issue, plan.w,
                                                   cycleFloor(plan.w))
               e == executionAccounting(acc, f.evidence, validity = "valid", plan.cycles,
                                        plan.conns, plan.w, plan.pw)
               code == IF validity # "valid" \/ analyseCompletion.code = "run_timeout"
                       THEN 1 ELSE 0
    <3>2. IF ~validateAnalyseExecution(e, plan.w)
          THEN Return(1, NoCompletion) /\ UNCHANGED out
          ELSE Terminal(analyseCompletion, code)
      BY <3>1 DEF analyseSettles
    <3>3. code \in {0, 1} OBVIOUS
    <3> HIDE DEF code, e
    <3> QED BY <3>2, <3>3
  <2>2. Names(analyseCompletion)
    BY <1>1, <1>7, AnalyseCompletionNames
  <2>3. ASSUME NEW code, code \in {0, 1}, Terminal(analyseCompletion, code) PROVE Done
    <3>1. Concluded(analyseCompletion) BY <2>3, <1>1, TerminalDoes
    <3> QED BY <3>1, <2>2 DEF Concluded
  <2> QED BY <2>1, <2>3, <1>3
<1> QED BY <1>1, <1>5, <1>6, <1>7

\* Settling ends the run with its report framed.
LEMMA SettleKeeps == ASSUME Control, Tallied, Settle PROVE Control'
<1>1. /\ pc = "settle" /\ pc' = "done" /\ UNCHANGED <<cfg, plan, envVars, liveVars>>
      /\ result'.exit \in {0, 1}
      /\ UNCHANGED out \/ (checkEvidence /\ Encode("result", [out EXCEPT !.finished = TRUE]))
  BY SettleDoes
<1>2. plan.requests \in Nat
  BY <1>1 DEF Control, Typed
<1>3. Framed'
  BY <1>1, <1>2, FramedGrows DEF Control, Live
<1>4. Typed' /\ CauseKept' /\ Ended'
  BY <1>1 DEF Control, Typed, CauseKept, Ended, Phases, envVars, liveVars
<1>5. failure = "pipe" => out'.poison = "pipe"
  BY <1>1 DEF Control, Stopped, Encode
<1>6. Stopped'
  BY <1>1, <1>5 DEF Stopped, Live, liveVars
<1> QED BY <1>3, <1>4, <1>6 DEF Control

\* Every step keeps the invariant of the control.
LEMMA ControlKeeps == ASSUME Control, Tallied, Next PROVE Control'
<1>1. ASSUME Returned PROVE Control'
  <2>1. UNCHANGED vars BY <1>1 DEF Returned
  <2>2. AllYielded' = AllYielded BY <2>1 DEF AllYielded, vars
  <2> QED BY <2>1, <2>2 DEF vars, Control, Typed, CauseKept, Stopped, Ended, Framed
<1> QED BY <1>1, PlanKeeps, DryRunKeeps, StartLiveKeeps, FitFailsKeeps, FitKeeps, HeaderKeeps,
           TrialKeeps, StreamEndsKeeps, LiveFinishKeeps, FinishKeeps, SettleKeeps,
           InterruptKeeps, DeadlineKeeps DEF Next

\* What a finished run says: its exit status and its completion.
Told ==
  /\ result.exit = 0 => \/ cfg.dryRun
                        \/ out.records # <<>> /\ Last(out.records) = "result"
                        \/ out.poison = "pipe" /\ cfg.pipe
  /\ pc = "done" /\ result.completion.state # "none" => Names(result.completion)

\* Every step keeps what the run says.
LEMMA ToldKeeps == ASSUME Control, Tallied, Told, Next PROVE Told'
<1>1. Control'
  BY ControlKeeps
<1>2. CASE pc' # "done"
  <2>1. result'.exit # 0
    BY <1>1, <1>2 DEF Control, Typed, Unset
  <2> QED BY <1>2, <2>1 DEF Told
<1>3. CASE pc' = "done"
  <2>1. CASE Plan \/ DryRun \/ FitFails \/ Fit
    <3>1. result'.completion = NoCompletion /\ (result'.exit = 0 => cfg'.dryRun)
      <4>1. CASE Plan BY <4>1, <1>3 DEF Plan, Return
      <4>2. CASE DryRun BY <4>2 DEF DryRun, Return
      <4>3. CASE FitFails BY <4>3 DEF FitFails, Return
      <4>4. CASE Fit BY <4>4, <1>3 DEF Fit, Return
      <4> QED BY <2>1, <4>1, <4>2, <4>3, <4>4
    <3> QED BY <3>1 DEF Told, NoCompletion
  <2>2. CASE Header
    <3>1. /\ result'.completion = NoCompletion /\ UNCHANGED cfg
          /\ result'.exit = 0 => out'.poison = "pipe" /\ cfg.pipe
      BY <2>2, <1>3 DEF Header, Return, WriteFailed, Misframed
    <3> QED BY <3>1 DEF Told, NoCompletion
  <2>3. CASE Settle
    <3>1. /\ UNCHANGED <<cfg, plan, envVars, liveVars>>
          /\ result'.completion = NoCompletion \/ Names(result'.completion)
          /\ result'.exit = 0 => \/ out'.poison = "pipe" /\ cfg.pipe
                                 \/ out'.records # <<>> /\ Last(out'.records) = "result"
      BY <2>3, SettleDoes
    <3>2. AllYielded' = AllYielded
      BY <3>1 DEF AllYielded, liveVars
    <3>3. result'.completion.state # "none" => Names(result.completion)'
      BY <3>1, <3>2 DEF Names, NoCompletion, envVars, liveVars
    <3> QED BY <3>1, <3>3 DEF Told
  <2>4. CASE Returned
    <3>1. UNCHANGED vars BY <2>4 DEF Returned
    <3>2. AllYielded' = AllYielded BY <3>1 DEF AllYielded, vars
    <3> QED BY <3>1, <3>2 DEF Told, Names, vars
  <2>5. ~(Interrupt \/ Deadline \/ StartLive \/ Trial \/ StreamEnds \/ LiveFinish \/ Finish)
    BY <1>3 DEF Interrupt, Deadline, StartLive, Trial, StreamEnds, LiveFinish, Finish
  <2> QED BY <2>1, <2>2, <2>3, <2>4, <2>5 DEF Next
<1> QED BY <1>2, <1>3

\* The framed stream is the one the contract describes.
LEMMA FramedMeans == ASSUME Framed, Told PROVE ReportFramed
<1>1. ASSUME NEW i \in DOMAIN out.records
      PROVE  CASE out.records[i] = "run"      -> i = 1
               [] out.records[i] = "request"  -> i \in 2..(plan.requests + 1)
               [] out.records[i] = "evidence" -> i > plan.requests + 1
               [] out.records[i] = "result"   -> /\ i = Len(out.records) /\ i > plan.requests + 1
                                                 /\ pc = "done"
  <2>1. out.records \in Seq(Kinds) /\ i \in 1..Len(out.records) /\ Len(out.records) \in Nat
    BY <1>1 DEF Framed
  <2>2. out.started /\ out.next \in 0..plan.requests /\ plan.requests \in Nat
    BY <2>1 DEF Framed
  <2>3. CASE i = 1
    BY <2>2, <2>3 DEF Framed
  <2>4. CASE i \in 2..(out.next + 1)
    <3>1. out.records[i] = "request" BY <2>2, <2>4 DEF Framed
    <3> QED BY <3>1, <2>2, <2>4
  <2>5. CASE i \in (out.next + 2)..Len(out.records)
    <3>1. /\ out.next = plan.requests
          /\ \/ out.records[i] = "evidence"
             \/ out.records[i] = "result" /\ i = Len(out.records) /\ out.finished
          /\ out.finished => pc = "done"
      BY <2>2, <2>5 DEF Framed
    <3>2. i > plan.requests + 1
      BY <3>1, <2>2, <2>5
    <3> QED BY <3>1, <3>2
  <2>6. i = 1 \/ i \in 2..(out.next + 1) \/ i \in (out.next + 2)..Len(out.records)
    BY <2>1, <2>2
  <2> QED BY <2>3, <2>4, <2>5, <2>6
<1> QED BY <1>1 DEF ReportFramed, Told

\* The control, the measurement and what the run says.
Inv == Control /\ Tallied /\ Told

\* The invariant holds initially and every step keeps it.
LEMMA Invariant == Spec => []Inv
<1>1. Init => Inv
  BY ControlInit DEF Init, Inv, Tallied, Told, Live, Unset, NoCompletion
<1>2. Inv /\ [Next]_vars => Inv'
  <2> SUFFICES ASSUME Inv, [Next]_vars PROVE Inv'
    OBVIOUS
  <2>1. CASE Next
    BY <2>1, ControlKeeps, TalliedKeeps, ToldKeeps DEF Inv
  <2>2. CASE UNCHANGED vars
    <3>1. AllYielded' = AllYielded BY <2>2 DEF AllYielded, vars
    <3>2. Control'
      BY <2>2, <3>1 DEF vars, Inv, Control, Typed, CauseKept, Stopped, Ended, Framed
    <3>3. Tallied' /\ Told'
      BY <2>2, <3>1 DEF vars, Inv, Tallied, Told, Names
    <3> QED BY <3>2, <3>3 DEF Inv
  <2> QED BY <2>1, <2>2
<1> QED BY <1>1, <1>2, PTL DEF Spec

\* Whatever an interrupt, the deadline, a failed write or the stream does to a
\* run, its terminal record names what ended it, and its report is framed
\* (completion_state.go, run_timeout.go, structured_sink.go).
THEOREM CompletionNamed == Spec => []CompletionNamesCause
<1>1. Inv => CompletionNamesCause
  BY FramedMeans DEF Inv, Control, Told, CompletionNamesCause, Names
<1> QED BY <1>1, Invariant, PTL

-----------------------------------------------------------------------------
(* The counts of a measurement, against the log of its trials.             *)

\* Trials of a log: a cycle's, the complete ones, those a request came k-th in.
Of(trials, c)        == {t \in trials : t.place[1] = c}
Oks(trials)          == {t \in trials : t.out = "ok"}
Ranked(trials, r, k) == {t \in trials : t.ranks[r] = k}

\* The trials of cycles all of whose shifts are complete, and the part of them
\* whose cycles are closed.
Wholes(trials, w) == {t \in trials : \A s \in Requests(w) :
                        \E u \in trials : u.place = <<t.place[1], s>> /\ u.out = "ok"}
Outside(trials, open) == {t \in trials : t.place[1] \notin open}

\* A trial is the only one of its place.
Apart(trials) == \A t, u \in trials : t.place = u.place => t = u

\* A cycle of which n shifts have arrived, its base shifted once for each.
CycleCounts(y, trials, c, n, base, w) ==
  /\ n \in 0..w /\ y.received = n /\ y.shifts = 0..(n - 1)
  /\ \A t \in Of(trials, c) : \E s \in 0..(n - 1) : t.place = <<c, s>>
  /\ \A s \in 0..(n - 1) : \E t \in Of(trials, c) : t.place = <<c, s>>
  /\ Cardinality(Of(trials, c)) = n
  /\ y.incomplete \in BOOLEAN
  /\ y.incomplete <=> \E t \in Of(trials, c) : t.out # "ok"
  /\ y.completeTrials = Cardinality(Oks(Of(trials, c)))
  /\ \A r, k \in Requests(w) : y.tally.rank[r][k] = Cardinality(Ranked(Oks(Of(trials, c)), r, k))
  /\ ~y.incomplete => \A r, p \in Requests(w) :
       y.tally.assigned[r][p] = IF \E s \in 0..(n - 1) : base[(p + s) % w] = r THEN 1 ELSE 0

\* What the closed cycles, those outside open, have given a measurement.
ClosedCounts(m, trials, open, w) ==
  /\ m.retained = Cardinality(Outside(Wholes(trials, w), open))
  /\ m.retained + m.excluded = Cardinality(Outside(Oks(trials), open))
  /\ \A r, k \in Requests(w) :
       m.tally.rank[r][k] = Cardinality(Ranked(Outside(Wholes(trials, w), open), r, k))
  /\ \A r, p \in Requests(w) : m.tally.assigned[r][p] * w = m.retained

\* The stream: every open cycle has arrived in part, from one base.
Streamed ==
  /\ stream = [open |-> stream.open, last |-> stream.last, started |-> stream.started,
               index |-> stream.index, priming |-> stream.priming, bad |-> stream.bad]
  /\ stream.started \in Nat /\ stream.index \in Nat
  /\ DOMAIN stream.last = DOMAIN stream.open /\ DOMAIN stream.open \subseteq 0..(stream.started - 1)
  /\ pc \in {"plan", "fit", "ping", "header"} =>
       log = {} /\ DOMAIN stream.open = {} /\ stream.started = 0 /\ stream.index = 0
  /\ pc \in Live => \A c \in DOMAIN stream.open :
       /\ stream.open[c] \in 1..(plan.w - 1)
       /\ cfg.cmd = "measure" /\ plan.policy = "rotate" => stream.last[c].base \in Perms(plan.w)

\* A measurement whose trials do not rotate has counted them, each at its index.
FlatCounted(m, trials, index, w) ==
  /\ \A t \in trials : \E i \in 0..(index - 1) : t.place = <<i>>
  /\ m.retained = Cardinality(Oks(trials)) /\ m.excluded = 0
  /\ \A r, k \in Requests(w) : m.tally.rank[r][k] = Cardinality(Ranked(Oks(trials), r, k))

\* A measurement whose trials rotate has counted them by cycle, closed or open.
CyclesCounted(m, trials, s, w) ==
  /\ \A t \in trials : \E c \in 0..(s.started - 1), q \in Requests(w) : t.place = <<c, q>>
  /\ DOMAIN m.cycles \subseteq DOMAIN s.open
  /\ \A c \in DOMAIN m.cycles :
       CycleCounts(m.cycles[c], trials, c, s.open[c], s.last[c].base, w)
  /\ ClosedCounts(m, trials, DOMAIN m.cycles, w) /\ m.excluded \in Nat

\* The measurement has counted its log, which holds each place once.
Counted ==
  cfg.cmd = "measure" /\ out.started /\ pc \in Live /\ failure = "none" =>
    /\ IsFiniteSet(log) /\ Apart(log)
    /\ plan.policy # "rotate" => FlatCounted(acc, log, stream.index, plan.w)
    /\ plan.policy = "rotate" =>
         /\ CyclesCounted(acc, log, stream, plan.w)
         /\ pc \in {"header", "drive"} => DOMAIN acc.cycles = DOMAIN stream.open

\* A shift moves a position on, past the last to the first.
LEMMA ShiftIs ==
  ASSUME NEW w \in Nat \ {0}, NEW p \in Requests(w), NEW s \in Requests(w)
  PROVE  /\ (p + s) % w \in Requests(w)
         /\ (p + s) % w = IF p + s < w THEN p + s ELSE p + s - w
<1>1. p \in Nat /\ s \in Nat /\ p < w /\ s < w
  BY DEF Requests
<1>2. CASE p + s < w
  BY <1>1, <1>2 DEF Requests
<1>3. CASE p + s >= w
  BY <1>1, <1>3 DEF Requests
<1> QED BY <1>1, <1>2, <1>3

\* Two shifts move a position to two places, and some shift to any place.
LEMMA ShiftsApart ==
  ASSUME NEW w \in Nat \ {0}, NEW p \in Requests(w)
  PROVE  /\ \A s, n \in Requests(w) : s # n => (p + s) % w # (p + n) % w
         /\ \A x \in Requests(w) : \E s \in Requests(w) : (p + s) % w = x
<1>1. p \in Nat /\ p < w
  BY DEF Requests
<1>2. ASSUME NEW s \in Requests(w), NEW n \in Requests(w), s # n
      PROVE  (p + s) % w # (p + n) % w
  <2>1. /\ (p + s) % w = IF p + s < w THEN p + s ELSE p + s - w
        /\ (p + n) % w = IF p + n < w THEN p + n ELSE p + n - w
    BY ShiftIs
  <2>2. s \in Nat /\ n \in Nat /\ s < w /\ n < w
    BY DEF Requests
  <2> DEFINE a == (p + s) % w
             b == (p + n) % w
  <2> HIDE DEF a, b
  <2>3. a # b
    BY <2>1, <2>2, <1>1, <1>2 DEF a, b
  <2> QED BY <2>3 DEF a, b
<1>3. ASSUME NEW x \in Requests(w)
      PROVE  \E s \in Requests(w) : (p + s) % w = x
  <2> DEFINE s == IF x >= p THEN x - p ELSE x - p + w
  <2>1. x \in Nat /\ x < w
    BY DEF Requests
  <2>2. s \in Requests(w) /\ (IF p + s < w THEN p + s ELSE p + s - w) = x
    BY <2>1, <1>1 DEF Requests
  <2> HIDE DEF s
  <2>3. (p + s) % w = x
    BY <2>2, ShiftIs
  <2> QED BY <2>2, <2>3
<1> QED BY <1>2, <1>3

\* A permutation reaches every request.
LEMMA PermsOnto ==
  ASSUME NEW w \in Nat, NEW base \in Perms(w), NEW r \in Requests(w)
  PROVE  \E x \in Requests(w) : base[x] = r
<1> SUFFICES ASSUME \A x \in Requests(w) : base[x] # r PROVE FALSE
  OBVIOUS
<1>1. base \in [Requests(w) -> Requests(w) \ {r}]
  BY DEF Perms
<1>2. IsFiniteSet(Requests(w)) /\ Cardinality(Requests(w)) \in Nat
  <2>1. IsFiniteSet(0..(w - 1)) BY FS_Interval
  <2> QED BY <2>1, FS_CardinalityType DEF Requests
<1>3. /\ IsFiniteSet(Requests(w) \ {r})
      /\ Cardinality(Requests(w) \ {r}) = Cardinality(Requests(w)) - 1
  BY <1>2, FS_RemoveElement
<1>4. Cardinality(Requests(w) \ {r}) < Cardinality(Requests(w))
  BY <1>2, <1>3
<1>5. \E x, y \in Requests(w) : x # y /\ base[x] = base[y]
  BY <1>1, <1>2, <1>3, <1>4, FS_PigeonHole
<1> QED BY <1>5 DEF Perms

\* Counting a set once something new is added to it.
LEMMA OneMore ==
  ASSUME NEW S, IsFiniteSet(S), NEW e, e \notin S
  PROVE  IsFiniteSet(S \union {e}) /\ Cardinality(S \union {e}) = Cardinality(S) + 1
         /\ Cardinality(S) \in Nat
  BY FS_AddElement, FS_CardinalityType

\* Counting two sets that have nothing in common.
LEMMA TwoParts ==
  ASSUME NEW S, NEW T, IsFiniteSet(S), IsFiniteSet(T), S \intersect T = {}
  PROVE  Cardinality(S \union T) = Cardinality(S) + Cardinality(T)
         /\ Cardinality(S) \in Nat /\ Cardinality(T) \in Nat
<1>1. Cardinality(S \intersect T) = 0
  BY FS_EmptySet
<1>2. Cardinality(S \union T) = Cardinality(S) + Cardinality(T) - Cardinality(S \intersect T)
  BY FS_Union
<1>3. Cardinality(S) \in Nat /\ Cardinality(T) \in Nat
  BY FS_CardinalityType
<1> QED BY <1>1, <1>2, <1>3

\* A rotated base puts apart, at one position, what an earlier shift put there.
LEMMA EarlierApart ==
  ASSUME NEW w \in Nat \ {0}, NEW base \in Perms(w), NEW p \in Requests(w),
         NEW n \in Nat, n < w, NEW s \in 0..(n - 1)
  PROVE  base[(p + s) % w] # base[(p + n) % w]
<1>1. s \in Nat /\ s < n
  OBVIOUS
<1>2. s \in Requests(w) /\ n \in Requests(w) /\ s # n
  BY <1>1 DEF Requests
<1>3. (p + s) % w # (p + n) % w
  BY <1>2, ShiftsApart
<1>4. (p + s) % w \in Requests(w)
  BY <1>2, ShiftIs
<1>5. (p + n) % w \in Requests(w)
  BY <1>2, ShiftIs
<1> QED BY <1>3, <1>4, <1>5 DEF Perms

\* A cycle counts the shift that arrives.
LEMMA CycleGrows ==
  ASSUME NEW w \in Nat \ {0}, NEW base \in Perms(w), NEW trials, IsFiniteSet(trials),
         NEW c, NEW n \in Nat, n < w, NEW y, CycleCounts(y, trials, c, n, base, w),
         Sound(y.tally, w), y.completeTrials = y.tally.trials,
         NEW t, t.shift = n, t.arr = [p \in Requests(w) |-> base[(p + n) % w]],
         NEW e, e.place = <<c, n>>, e.out = t.out, e.ranks = t.ranks,
         NEW z, Received(z, y, t, w)
  PROVE  CycleCounts(z, trials \union {e}, c, n + 1, base, w)
<1> DEFINE O == Of(trials, c)
           k == IF t.out = "ok" THEN 1 ELSE 0
<1>1. /\ y.received = n /\ y.shifts = 0..(n - 1)
      /\ \A u \in O : \E s \in 0..(n - 1) : u.place = <<c, s>>
      /\ \A s \in 0..(n - 1) : \E u \in O : u.place = <<c, s>>
      /\ Cardinality(O) = n /\ y.incomplete \in BOOLEAN
      /\ y.incomplete <=> \E u \in O : u.out # "ok"
      /\ y.completeTrials = Cardinality(Oks(O))
  BY DEF CycleCounts
<1>2. e \notin O
  BY <1>1
<1>3. Of(trials \union {e}, c) = O \union {e}
  BY DEF Of
<1>4. IsFiniteSet(O) /\ IsFiniteSet(Oks(O))
  <2>1. O \subseteq trials /\ Oks(O) \subseteq trials BY DEF Of, Oks
  <2> QED BY <2>1, FS_Subset
<1>5. Cardinality(O \union {e}) = n + 1
  <2> HIDE DEF O
  <2> QED BY <1>1, <1>2, <1>4, OneMore
<1> HIDE DEF O
<1>6. Oks(O \union {e}) = IF t.out = "ok" THEN Oks(O) \union {e} ELSE Oks(O)
  BY DEF Oks
<1>7. e \notin Oks(O) /\ Cardinality(Oks(O)) \in Nat
  BY <1>2, <1>4, FS_CardinalityType DEF Oks
<1>8. Cardinality(Oks(O \union {e})) = Cardinality(Oks(O)) + k
  <2>1. CASE t.out = "ok"
    BY <2>1, <1>4, <1>6, <1>7, OneMore
  <2>2. CASE t.out # "ok"
    BY <2>2, <1>6, <1>7
  <2> QED BY <2>1, <2>2
<1>9. n \in Requests(w) /\ n \notin 0..(n - 1) /\ 0..n = (0..(n - 1)) \union {n}
  BY DEF Requests
<1>10. /\ z.received = n + 1 /\ z.shifts = 0..n
       /\ z.incomplete = (y.incomplete \/ t.out # "ok")
       /\ z.completeTrials = y.completeTrials + k
       /\ z.tally = IF t.out = "ok" THEN tallyTrial(y.tally, t, w) ELSE y.tally
  BY <1>1, <1>9 DEF Received
<1>11. /\ \A u \in O \union {e} : \E s \in 0..n : u.place = <<c, s>>
       /\ \A s \in 0..n : \E u \in O \union {e} : u.place = <<c, s>>
  BY <1>1, <1>9
<1>12. /\ z.incomplete \in BOOLEAN
       /\ z.incomplete <=> \E u \in O \union {e} : u.out # "ok"
  BY <1>1, <1>10
<1>13. ASSUME t.out = "ok", NEW i \in Requests(w), NEW j \in Requests(w)
       PROVE  /\ z.tally.rank[i][j] = y.tally.rank[i][j] + (IF t.ranks[i] = j THEN 1 ELSE 0)
              /\ z.tally.assigned[i][j] = y.tally.assigned[i][j] + (IF t.arr[j] = i THEN 1 ELSE 0)
  <2> DEFINE a == y.tally
             b == tallyTrial(a, t, w)
  <2>1. Sound(a, w)
    OBVIOUS
  <2>2. z.tally = b
    BY <1>10, <1>13
  <2> HIDE DEF a
  <2>3. OneTrialMore(b, a, t, w)
    BY <2>1, TallyCounts
  <2> HIDE DEF b
  <2> QED BY <2>2, <2>3 DEF a, OneTrialMore
<1>14. ASSUME NEW r \in Requests(w), NEW q \in Requests(w)
       PROVE  z.tally.rank[r][q] = Cardinality(Ranked(Oks(O \union {e}), r, q))
  <2> DEFINE R == Ranked(Oks(O), r, q)
  <2>1. y.tally.rank[r][q] = Cardinality(R)
    BY DEF CycleCounts, O
  <2>2. IsFiniteSet(R) /\ Cardinality(R) \in Nat /\ e \notin R
    <3>1. R \subseteq Oks(O) BY DEF Ranked
    <3>2. IsFiniteSet(R) BY <3>1, <1>4, FS_Subset
    <3> QED BY <3>1, <3>2, <1>7, FS_CardinalityType
  <2>3. Ranked(Oks(O) \union {e}, r, q) = IF t.ranks[r] = q THEN R \union {e} ELSE R
    BY DEF Ranked
  <2> HIDE DEF R
  <2>4. CASE t.out = "ok"
    <3>1. z.tally.rank[r][q] = y.tally.rank[r][q] + (IF t.ranks[r] = q THEN 1 ELSE 0)
      BY <2>4, <1>13
    <3>2. Cardinality(Ranked(Oks(O) \union {e}, r, q))
            = Cardinality(R) + (IF t.ranks[r] = q THEN 1 ELSE 0)
      <4>1. CASE t.ranks[r] = q BY <4>1, <2>2, <2>3, OneMore
      <4>2. CASE t.ranks[r] # q BY <4>2, <2>2, <2>3
      <4> QED BY <4>1, <4>2
    <3> QED BY <3>1, <3>2, <2>1, <2>4, <1>6
  <2>5. CASE t.out # "ok"
    BY <2>5, <2>1, <1>6, <1>10 DEF R
  <2> QED BY <2>4, <2>5
<1>15. ASSUME ~z.incomplete, NEW r \in Requests(w), NEW p \in Requests(w)
       PROVE  z.tally.assigned[r][p] = IF \E s \in 0..n : base[(p + s) % w] = r THEN 1 ELSE 0
  <2>1. ~y.incomplete /\ t.out = "ok"
    BY <1>15, <1>10, <1>1
  <2>2. y.tally.assigned[r][p] = IF \E s \in 0..(n - 1) : base[(p + s) % w] = r THEN 1 ELSE 0
    BY <2>1 DEF CycleCounts
  <2>3. z.tally.assigned[r][p]
          = y.tally.assigned[r][p] + (IF base[(p + n) % w] = r THEN 1 ELSE 0)
    <3>1. z.tally.assigned[r][p] = y.tally.assigned[r][p] + (IF t.arr[p] = r THEN 1 ELSE 0)
      BY <2>1, <1>13
    <3> QED BY <3>1
  <2>4. ASSUME NEW s \in 0..(n - 1) PROVE base[(p + s) % w] # base[(p + n) % w]
    BY EarlierApart
  <2> DEFINE at(s) == base[(p + s) % w]
  <2> HIDE DEF at
  <2>5. /\ y.tally.assigned[r][p] = IF \E s \in 0..(n - 1) : at(s) = r THEN 1 ELSE 0
        /\ z.tally.assigned[r][p] = y.tally.assigned[r][p] + (IF at(n) = r THEN 1 ELSE 0)
        /\ \A s \in 0..(n - 1) : at(s) # at(n)
    BY <2>2, <2>3, <2>4 DEF at
  <2>6. z.tally.assigned[r][p] = IF \E s \in 0..n : at(s) = r THEN 1 ELSE 0
    BY <2>5, <1>9
  <2> QED BY <2>6 DEF at
<1>16. n + 1 \in 0..w /\ (n + 1) - 1 = n
  OBVIOUS
<1> DEFINE P == O \union {e}
           m == n + 1
<1> HIDE DEF P, m
<1>17. /\ m \in 0..w /\ z.received = m /\ z.shifts = 0..(m - 1)
       /\ \A u \in P : \E s \in 0..(m - 1) : u.place = <<c, s>>
       /\ \A s \in 0..(m - 1) : \E u \in P : u.place = <<c, s>>
       /\ Cardinality(P) = m
  BY <1>5, <1>10, <1>11, <1>16 DEF P, m
<1>18. /\ z.completeTrials = Cardinality(Oks(P))
       /\ z.incomplete \in BOOLEAN
       /\ z.incomplete <=> \E u \in P : u.out # "ok"
       /\ \A r, q \in Requests(w) : z.tally.rank[r][q] = Cardinality(Ranked(Oks(P), r, q))
  BY <1>1, <1>8, <1>10, <1>12, <1>14 DEF P
<1>19. ~z.incomplete => \A r, p \in Requests(w) :
         z.tally.assigned[r][p] = IF \E s \in 0..(m - 1) : base[(p + s) % w] = r THEN 1 ELSE 0
  BY <1>15, <1>16 DEF m
<1> DEFINE T == trials \union {e}
<1> HIDE DEF T, k
<1>20. Of(T, c) = P
  BY <1>3 DEF P, T
<1>21. CycleCounts(z, T, c, m, base, w)
  BY SMTT(30), <1>17, <1>18, <1>19, <1>20 DEF CycleCounts
<1> QED BY <1>21 DEF T, m

\* The trials of a log stand at places of a rotation.
Rotated(trials, w) == \A t \in trials : \E d \in Nat, s \in Requests(w) : t.place = <<d, s>>

\* A cycle that may be kept.
WholeCycle(y, w) == /\ y.received = w /\ y.completeTrials = w
                    /\ Cardinality(y.shifts) = w /\ ~y.incomplete

\* A kept trial is complete.
LEMMA WholesOk ==
  ASSUME NEW w, NEW trials, Apart(trials), Rotated(trials, w)
  PROVE  Wholes(trials, w) \subseteq Oks(trials)
<1> SUFFICES ASSUME NEW t \in Wholes(trials, w) PROVE t.out = "ok" /\ t \in trials
  BY DEF Oks
<1>1. t \in trials
  BY DEF Wholes
<1>2. PICK d \in Nat, s \in Requests(w) : t.place = <<d, s>>
  BY <1>1 DEF Rotated
<1>3. t.place[1] = d
  BY <1>2
<1>4. PICK u \in trials : u.place = <<d, s>> /\ u.out = "ok"
  BY <1>2, <1>3 DEF Wholes
<1>5. u = t
  BY <1>1, <1>2, <1>4 DEF Apart
<1> QED BY <1>1, <1>4, <1>5

\* The code's test for keeping a cycle finds the cycles whose trials are kept.
LEMMA WholeMeans ==
  ASSUME NEW w \in Nat \ {0}, NEW trials, IsFiniteSet(trials), Apart(trials), Rotated(trials, w),
         NEW c, NEW n, NEW base, NEW y, CycleCounts(y, trials, c, n, base, w)
  PROVE  /\ WholeCycle(y, w) => /\ n = w /\ Of(Wholes(trials, w), c) = Of(trials, c)
                                /\ Oks(Of(trials, c)) = Of(trials, c)
         /\ ~WholeCycle(y, w) => Of(Wholes(trials, w), c) = {}
<1>1. /\ n \in 0..w /\ y.received = n /\ y.shifts = 0..(n - 1)
      /\ \A t \in Of(trials, c) : \E s \in 0..(n - 1) : t.place = <<c, s>>
      /\ \A s \in 0..(n - 1) : \E t \in Of(trials, c) : t.place = <<c, s>>
      /\ Cardinality(Of(trials, c)) = n
      /\ y.incomplete <=> \E t \in Of(trials, c) : t.out # "ok"
      /\ y.completeTrials = Cardinality(Oks(Of(trials, c)))
  BY DEF CycleCounts
<1>2. CASE WholeCycle(y, w)
  <2>1. n = w /\ \A t \in Of(trials, c) : t.out = "ok"
    BY <1>1, <1>2 DEF WholeCycle
  <2>2. Oks(Of(trials, c)) = Of(trials, c)
    BY <2>1 DEF Oks
  <2>3. ASSUME NEW t \in Of(trials, c), NEW s \in Requests(w)
        PROVE  \E u \in trials : u.place = <<t.place[1], s>> /\ u.out = "ok"
    <3>1. t.place[1] = c BY DEF Of
    <3>2. PICK u \in Of(trials, c) : u.place = <<c, s>>
      BY <1>1, <2>1 DEF Requests
    <3> QED BY <2>1, <3>1, <3>2 DEF Of
  <2>4. Of(Wholes(trials, w), c) = Of(trials, c)
    BY <2>3 DEF Of, Wholes
  <2> QED BY <1>2, <2>1, <2>2, <2>4
<1>3. CASE ~WholeCycle(y, w)
  <2> SUFFICES ASSUME NEW t \in Of(Wholes(trials, w), c) PROVE FALSE
    BY <1>3
  <2>1. t \in Of(trials, c) /\ t.place[1] = c
    BY DEF Of, Wholes
  <2>2. \A s \in Requests(w) : \E u \in Of(trials, c) : u.place = <<c, s>> /\ u.out = "ok"
    <3> TAKE s \in Requests(w)
    <3>1. PICK u \in trials : u.place = <<c, s>> /\ u.out = "ok"
      BY <2>1 DEF Of, Wholes
    <3> QED BY <3>1 DEF Of
  <2>3. w - 1 \in Requests(w)
    BY DEF Requests
  <2>4. PICK u \in Of(trials, c) : u.place = <<c, w - 1>>
    BY <2>2, <2>3
  <2>5. PICK s \in 0..(n - 1) : u.place = <<c, s>>
    BY <1>1, <2>4
  <2>6. s = w - 1
    BY <2>4, <2>5
  <2>7. n = w
    BY <2>5, <2>6, <1>1
  <2>8. ASSUME NEW v \in Of(trials, c) PROVE v.out = "ok"
    <3>1. PICK q \in Requests(w) : v.place = <<c, q>>
      BY <1>1, <2>7 DEF Requests
    <3>2. PICK x \in Of(trials, c) : x.place = <<c, q>> /\ x.out = "ok"
      BY <2>2
    <3> QED BY <3>1, <3>2 DEF Apart, Of
  <2>9. Oks(Of(trials, c)) = Of(trials, c)
    BY <2>8 DEF Oks
  <2>10. Cardinality(y.shifts) = w
    BY <1>1, <2>7, FS_Interval
  <2> QED BY <1>1, <1>3, <2>7, <2>8, <2>9, <2>10 DEF WholeCycle
<1> QED BY <1>2, <1>3

\* A trial of an open cycle changes nothing for the closed ones.
LEMMA StoreCounts ==
  ASSUME NEW w, NEW trials, NEW open, NEW m, ClosedCounts(m, trials, open, w),
         NEW c, c \in open \/ Of(trials, c) = {}, NEW e, e.place[1] = c,
         NEW k, k.tally = m.tally, k.retained = m.retained, k.excluded = m.excluded
  PROVE  ClosedCounts(k, trials \union {e}, open \union {c}, w)
<1>1. Outside(Oks(trials \union {e}), open \union {c}) = Outside(Oks(trials), open)
  BY DEF Outside, Oks, Of
<1>2. ASSUME NEW t \in trials, t.place[1] # c
      PROVE  t \in Wholes(trials \union {e}, w) <=> t \in Wholes(trials, w)
  <2>1. \A s : e.place # <<t.place[1], s>>
    BY <1>2
  <2> QED BY <2>1 DEF Wholes
<1>3. Outside(Wholes(trials \union {e}, w), open \union {c}) = Outside(Wholes(trials, w), open)
  <2>1. \A t \in Wholes(trials, w) : t \in trials BY DEF Wholes
  <2>2. \A t \in Wholes(trials \union {e}, w) : t \in trials \/ t = e BY DEF Wholes
  <2>3. \A t \in Outside(Wholes(trials, w), open) : t.place[1] # c BY <2>1 DEF Outside, Of
  <2> QED BY <1>2, <2>1, <2>2, <2>3 DEF Outside
<1> QED BY <1>1, <1>3 DEF ClosedCounts

\* Closing a cycle keeps it if it is whole, and counts its trials as excluded if not.
LEMMA CloseCounts ==
  ASSUME NEW w \in Nat \ {0}, NEW trials, IsFiniteSet(trials), Apart(trials), Rotated(trials, w),
         NEW m, Measurement(m, w), ClosedCounts(m, trials, DOMAIN m.cycles, w), m.excluded \in Nat,
         NEW c \in DOMAIN m.cycles, NEW n, NEW base \in Perms(w),
         CycleCounts(m.cycles[c], trials, c, n, base, w)
  PROVE  LET k == finaliseCycle(m, c, w) IN
         ClosedCounts(k, trials, DOMAIN k.cycles, w) /\ k.excluded \in Nat
<1> DEFINE k == finaliseCycle(m, c, w)
           y == m.cycles[c]
           D == DOMAIN m.cycles
           K == Outside(Wholes(trials, w), D)
           O == Outside(Oks(trials), D)
           C == Of(trials, c)
           W == Of(Wholes(trials, w), c)
<1>1. /\ k.cycles = [x \in D \ {c} |-> m.cycles[x]]
      /\ WholeCycle(y, w) => /\ k.tally = addTally(m.tally, y.tally, w)
                             /\ k.retained = m.retained + w /\ k.excluded = m.excluded
      /\ ~WholeCycle(y, w) => /\ k.tally = m.tally /\ k.retained = m.retained
                              /\ k.excluded = m.excluded + y.completeTrials
  BY FinaliseDoes DEF WholeCycle
<1> HIDE DEF k, y
<1>2. /\ Cardinality(C) = n /\ n \in Nat /\ y.completeTrials = Cardinality(Oks(C))
      /\ \A r, q \in Requests(w) : y.tally.rank[r][q] = Cardinality(Ranked(Oks(C), r, q))
      /\ ~y.incomplete => \A r, p \in Requests(w) :
           y.tally.assigned[r][p] = IF \E s \in 0..(n - 1) : base[(p + s) % w] = r THEN 1 ELSE 0
  BY DEF CycleCounts, y
<1>3. /\ WholeCycle(y, w) => n = w /\ W = C /\ Oks(C) = C
      /\ ~WholeCycle(y, w) => W = {}
  BY WholeMeans DEF y
<1>4. DOMAIN k.cycles = D \ {c}
  BY <1>1
<1>5. /\ Outside(Wholes(trials, w), D \ {c}) = K \union W /\ K \intersect W = {}
      /\ Outside(Oks(trials), D \ {c}) = O \union Oks(C) /\ O \intersect Oks(C) = {}
  BY DEF Outside, Of, Oks
<1>6. IsFiniteSet(K) /\ IsFiniteSet(W) /\ IsFiniteSet(O) /\ IsFiniteSet(Oks(C)) /\ IsFiniteSet(C)
  <2>1. /\ K \subseteq trials /\ W \subseteq trials /\ O \subseteq trials
        /\ Oks(C) \subseteq trials /\ C \subseteq trials
    BY DEF Outside, Wholes, Of, Oks
  <2> HIDE DEF K, W, O, C
  <2> QED BY <2>1, FS_Subset
<1>7. /\ m.retained = Cardinality(K) /\ m.retained + m.excluded = Cardinality(O)
      /\ \A r, q \in Requests(w) : m.tally.rank[r][q] = Cardinality(Ranked(K, r, q))
      /\ \A r, p \in Requests(w) : m.tally.assigned[r][p] * w = m.retained
  BY DEF ClosedCounts
<1>8. Sound(m.tally, w) /\ Sound(y.tally, w) /\ y.completeTrials = y.tally.trials
  BY DEF Measurement, y
<1> HIDE DEF K, W, O, C, D
<1>9. /\ Cardinality(K \union W) = Cardinality(K) + Cardinality(W)
      /\ Cardinality(O \union Oks(C)) = Cardinality(O) + Cardinality(Oks(C))
      /\ Cardinality(K) \in Nat /\ Cardinality(O) \in Nat /\ Cardinality(Oks(C)) \in Nat
  BY <1>5, <1>6, TwoParts
<1>10. CASE WholeCycle(y, w)
  <2>1. n = w /\ W = C /\ Oks(C) = C /\ y.tally.trials = w
    BY <1>2, <1>3, <1>8, <1>10
  <2>2. /\ \A i, j \in Requests(w) :
             /\ k.tally.rank[i][j] = m.tally.rank[i][j] + y.tally.rank[i][j]
             /\ k.tally.assigned[i][j] = m.tally.assigned[i][j] + y.tally.assigned[i][j]
    <3> DEFINE a == m.tally
               b == y.tally
    <3>1. Sound(a, w) /\ Sound(b, w) /\ b.trials = w BY <1>8, <2>1
    <3> HIDE DEF a, b
    <3>2. WholeMore(addTally(a, b, w), a, b, w)
      BY <3>1, AddSound
    <3>3. k.tally = addTally(a, b, w)
      BY <1>1, <1>10 DEF a, b
    <3> QED BY <3>2, <3>3 DEF a, b, WholeMore
  <2>3. ASSUME NEW r \in Requests(w), NEW q \in Requests(w)
        PROVE  k.tally.rank[r][q] = Cardinality(Ranked(K \union W, r, q))
    <3>1. /\ Ranked(K \union W, r, q) = Ranked(K, r, q) \union Ranked(W, r, q)
          /\ Ranked(K, r, q) \intersect Ranked(W, r, q) = {}
          /\ Ranked(K, r, q) \subseteq K /\ Ranked(W, r, q) \subseteq W
      BY <1>5 DEF Ranked
    <3>2. IsFiniteSet(Ranked(K, r, q)) /\ IsFiniteSet(Ranked(W, r, q))
      BY <3>1, <1>6, FS_Subset
    <3>3. Cardinality(Ranked(K \union W, r, q))
            = Cardinality(Ranked(K, r, q)) + Cardinality(Ranked(W, r, q))
      BY <3>1, <3>2, TwoParts
    <3> QED BY <3>3, <2>1, <2>2, <1>2, <1>7
  <2>4. ASSUME NEW r \in Requests(w), NEW p \in Requests(w)
        PROVE  k.tally.assigned[r][p] * w = m.retained + w
    <3>1. PICK x \in Requests(w) : base[x] = r
      BY PermsOnto
    <3>2. \E s \in Requests(w) : (p + s) % w = x
      BY ShiftsApart
    <3>3. \E s \in 0..(n - 1) : base[(p + s) % w] = r
      BY <3>1, <3>2, <2>1 DEF Requests
    <3>4. y.tally.assigned[r][p] = 1
      BY <3>3, <1>2, <1>10 DEF WholeCycle
    <3>5. m.tally.assigned[r][p] \in Nat
      BY <1>8 DEF Sound, Tallies, Matrix
    <3>6. (m.tally.assigned[r][p] + 1) * w = m.tally.assigned[r][p] * w + w
      BY <3>5
    <3> QED BY <3>4, <3>6, <2>2, <1>7
  <2>5. /\ k.retained = Cardinality(K \union W)
        /\ k.retained + k.excluded = Cardinality(O \union Oks(C)) /\ k.excluded \in Nat
    BY <2>1, <1>1, <1>2, <1>7, <1>9, <1>10
  <2>6. /\ Outside(Wholes(trials, w), DOMAIN k.cycles) = K \union W
        /\ Outside(Oks(trials), DOMAIN k.cycles) = O \union Oks(C)
    BY <1>4, <1>5
  <2>7. k.retained = m.retained + w
    BY <2>1, <1>1, <1>2, <1>7, <1>10
  <2>8. ClosedCounts(k, trials, DOMAIN k.cycles, w)
    BY <2>3, <2>4, <2>5, <2>6, <2>7 DEF ClosedCounts
  <2> QED BY <2>5, <2>8 DEF k
<1>11. CASE ~WholeCycle(y, w)
  <2>1. K \union W = K
    BY <1>3, <1>11
  <2>2. /\ k.retained = Cardinality(K) /\ k.excluded \in Nat
        /\ k.retained + k.excluded = Cardinality(O \union Oks(C))
    BY <1>1, <1>2, <1>7, <1>9, <1>11
  <2>3. k.tally = m.tally /\ k.retained = m.retained
    BY <1>1, <1>11
  <2>4. /\ Outside(Wholes(trials, w), DOMAIN k.cycles) = K
        /\ Outside(Oks(trials), DOMAIN k.cycles) = O \union Oks(C)
    BY <2>1, <1>4, <1>5
  <2>5. /\ \A r, q \in Requests(w) : k.tally.rank[r][q] = Cardinality(Ranked(K, r, q))
        /\ \A r, p \in Requests(w) : k.tally.assigned[r][p] * w = k.retained
    BY <2>3, <1>7
  <2>6. ClosedCounts(k, trials, DOMAIN k.cycles, w)
    BY <2>2, <2>4, <2>5 DEF ClosedCounts
  <2> QED BY <2>2, <2>6 DEF k
<1> QED BY <1>10, <1>11

\* The larger of two numbers.
LEMMA MaxTwo ==
  ASSUME NEW a \in Nat, NEW b \in Nat
  PROVE  Max({a, b}) \in Nat /\ Max({a, b}) >= a /\ Max({a, b}) >= b
<1>1. \E x \in {a, b} : \A y \in {a, b} : x >= y
  OBVIOUS
<1>2. Max({a, b}) \in {a, b} /\ \A y \in {a, b} : Max({a, b}) >= y
  BY <1>1 DEF Max
<1> QED BY <1>2

\* Where a trial that may come next stands.
LEMMA NextTrialIs ==
  ASSUME Streamed, plan.w \in Nat \ {0}, pc \in Live, NEW y \in Trials
  PROVE  /\ ~y.trial.warm
         /\ y.trial.arr = Arrangement(plan.policy, y.base, y.trial.shift, plan.w)
         /\ plan.policy # "rotate" => y.trial.cycle = -1
         /\ plan.policy = "rotate" =>
              \/ /\ y.trial.cycle \in DOMAIN stream.open
                 /\ y.trial.shift = stream.open[y.trial.cycle]
                 /\ y.base = stream.last[y.trial.cycle].base
              \/ y.trial.cycle = stream.started /\ y.trial.shift = 0 /\ y.base \in Bases
<1>1. PICK p \in {q \in NextPlaces : ConnAllowed(q)}, o \in Outcomes :
        y = [trial |-> [warm |-> FALSE, cycle |-> p.cycle, shift |-> p.shift, conn |-> p.conn,
                        arr |-> Arrangement(plan.policy, p.base, p.shift, plan.w),
                        out |-> o.out, ranks |-> o.ranks],
             base |-> p.base]
  BY DEF Trials
<1>2. /\ y.trial.warm = FALSE /\ y.trial.cycle = p.cycle /\ y.trial.shift = p.shift
      /\ y.trial.arr = Arrangement(plan.policy, p.base, p.shift, plan.w) /\ y.base = p.base
  BY <1>1
<1>3. p \in NextPlaces
  OBVIOUS
<1>4. CASE plan.policy # "rotate"
  <2>1. p.cycle = -1
    BY <1>3, <1>4 DEF NextPlaces
  <2> QED BY <1>2, <1>4, <2>1
<1>5. CASE plan.policy = "rotate"
  <2>1. \/ \E c \in DOMAIN stream.open, k \in {0, plan.conns} :
             p = [cycle |-> c, shift |-> stream.open[c], base |-> stream.last[c].base, conn |-> k]
        \/ \E b \in Bases, k \in {0, plan.conns} :
             p = [cycle |-> stream.started, shift |-> 0, base |-> b, conn |-> k]
    BY <1>3, <1>5 DEF NextPlaces
  <2> QED BY <1>2, <1>5, <2>1
<1> QED BY <1>4, <1>5

\* The stream after a trial of a rotation.
LEMMA RotatingStep ==
  ASSUME Streamed, plan.w \in Nat \ {0}, pc \in Live, plan.policy = "rotate", NEW y \in Trials,
         NEW j, stream' = [Advance(y.trial, y.base) EXCEPT !.bad = j]
  PROVE  LET c == y.trial.cycle
             n == y.trial.shift
             D == DOMAIN stream.open IN
         /\ c \in Nat /\ n \in Nat /\ n < plan.w
         /\ c \in D \/ (c = stream.started /\ n = 0 /\ y.base \in Bases)
         /\ c \in D => n = stream.open[c] /\ y.base = stream.last[c].base
         /\ stream' = [open |-> stream'.open, last |-> stream'.last, started |-> stream'.started,
                       index |-> stream'.index, priming |-> stream'.priming, bad |-> stream'.bad]
         /\ stream'.started \in Nat /\ stream'.started >= c + 1
         /\ stream'.started >= stream.started
         /\ stream'.index = stream.index + 1
         /\ DOMAIN stream'.open = IF n + 1 = plan.w THEN D \ {c} ELSE D \union {c}
         /\ DOMAIN stream'.last = DOMAIN stream'.open
         /\ c \in DOMAIN stream'.open => stream'.open[c] = n + 1 /\ stream'.last[c].base = y.base
         /\ \A d \in D \ {c} : stream'.open[d] = stream.open[d] /\ stream'.last[d] = stream.last[d]
<1> DEFINE t == y.trial
           c == t.cycle
           n == t.shift
           D == DOMAIN stream.open
           keep == IF n + 1 = plan.w THEN D \ {c} ELSE D \union {c}
<1>1. /\ \/ c \in D /\ n = stream.open[c] /\ y.base = stream.last[c].base
         \/ c = stream.started /\ n = 0 /\ y.base \in Bases
  BY NextTrialIs
<1>2. /\ stream = [open |-> stream.open, last |-> stream.last, started |-> stream.started,
               index |-> stream.index, priming |-> stream.priming, bad |-> stream.bad]
      /\ stream.started \in Nat /\ stream.index \in Nat
      /\ DOMAIN stream.last = D /\ D \subseteq 0..(stream.started - 1)
      /\ \A d \in D : stream.open[d] \in 1..(plan.w - 1)
  BY DEF Streamed
<1> HIDE DEF c, n, D
<1>3. /\ c \in Nat /\ n \in Nat /\ n < plan.w
      /\ c \in D => n = stream.open[c] /\ y.base = stream.last[c].base
  <2>1. stream.started \notin D BY <1>2
  <2>2. CASE c \in D
    <3>1. n = stream.open[c] /\ y.base = stream.last[c].base BY <1>1, <2>1, <2>2
    <3> QED BY <3>1, <1>2, <2>2
  <2>3. CASE c \notin D
    BY <1>1, <1>2, <2>3
  <2> QED BY <2>2, <2>3
<1> DEFINE last == [x \in keep |-> IF x = c THEN [conn |-> t.conn, out |-> t.out, base |-> y.base]
                                    ELSE stream.last[x]]
           open == [x \in keep |-> IF x = c THEN n + 1 ELSE stream.open[x]]
           top == Max({stream.started, c + 1})
<1>4. Advance(t, y.base) = [stream EXCEPT !.started = top, !.index = @ + 1, !.open = open,
                                          !.last = last]
  <2>1. ~(t.cycle < 0)
    BY <1>3 DEF c
  <2> DEFINE kept == IF t.shift + 1 = plan.w THEN DOMAIN stream.open \ {t.cycle}
                     ELSE DOMAIN stream.open \union {t.cycle}
             opened == [x \in kept |-> IF x = t.cycle THEN t.shift + 1 ELSE stream.open[x]]
             lasted == [x \in kept |-> IF x = t.cycle
                                       THEN [conn |-> t.conn, out |-> t.out, base |-> y.base]
                                       ELSE stream.last[x]]
  <2>2. Advance(t, y.base) =
          [stream EXCEPT !.started = Max({@, t.cycle + 1}), !.index = @ + 1,
                         !.open = opened, !.last = lasted]
    BY <2>1, Zenon DEF Advance
  <2>3. opened = open /\ lasted = last
    BY Zenon DEF c, n, D
  <2>4. Max({stream.started, t.cycle + 1}) = top
    BY Zenon DEF c
  <2> HIDE DEF open, last, top, opened, lasted
  <2>5. Advance(t, y.base) =
          [stream EXCEPT !.started = top, !.index = @ + 1, !.open = open, !.last = last]
    BY <2>2, <2>3, <2>4
  <2> QED BY <2>5
<1>5. top \in Nat /\ top >= stream.started /\ top >= c + 1
  <2> DEFINE e == c + 1
  <2>1. e \in Nat BY <1>3
  <2> HIDE DEF e
  <2>2. /\ Max({stream.started, e}) \in Nat
        /\ Max({stream.started, e}) >= stream.started /\ Max({stream.started, e}) >= e
    BY <1>2, <2>1, MaxTwo, Zenon
  <2> QED BY <2>2, Zenon DEF e
<1>6. /\ DOMAIN open = keep /\ DOMAIN last = keep
      /\ c \in keep => open[c] = n + 1 /\ last[c].base = y.base
      /\ \A d \in D \ {c} : d \in keep /\ open[d] = stream.open[d] /\ last[d] = stream.last[d]
  OBVIOUS
<1> HIDE DEF open, last, top, keep
<1>7. stream' = [open |-> open, last |-> last, started |-> top, index |-> stream.index + 1,
                 priming |-> stream.priming, bad |-> j]
  <2>1. Advance(t, y.base) = [open |-> open, last |-> last, started |-> top,
                 index |-> stream.index + 1, priming |-> stream.priming, bad |-> stream.bad]
    BY <1>2, <1>4
  <2> QED BY <2>1
<1>8. /\ stream'.open = open /\ stream'.last = last /\ stream'.started = top
      /\ stream'.index = stream.index + 1
      /\ stream' = [open |-> stream'.open, last |-> stream'.last, started |-> stream'.started,
                    index |-> stream'.index, priming |-> stream'.priming, bad |-> stream'.bad]
  BY <1>7
<1> QED BY <1>1, <1>3, <1>5, <1>6, <1>8 DEF keep, c, n, D

\* Every step keeps the stream as it says: a trial of a rotation moves its cycle on.
LEMMA StreamedTrial == ASSUME Control, Streamed, Trial PROVE Streamed'
<1>1. /\ pc = "drive" /\ pc' = "drive" /\ UNCHANGED <<cfg, plan>> /\ plan.w \in Nat \ {0}
      /\ pc \in Live
  BY DEF Trial, Control, Typed, Live
<1>2. PICK y \in Trials \union Priming :
        stream' = IF y.trial.warm THEN [stream EXCEPT !.priming = @ + 1]
                  ELSE [Advance(y.trial, y.base) EXCEPT !.bad =
                          @ + (IF y.trial.out = "bad" THEN 1 ELSE 0)]
  BY DEF Trial
<1>3. /\ stream = [open |-> stream.open, last |-> stream.last, started |-> stream.started,
               index |-> stream.index, priming |-> stream.priming, bad |-> stream.bad]
      /\ stream.started \in Nat /\ stream.index \in Nat
      /\ DOMAIN stream.last = DOMAIN stream.open /\ DOMAIN stream.open \subseteq 0..(stream.started - 1)
      /\ \A c \in DOMAIN stream.open :
           /\ stream.open[c] \in 1..(plan.w - 1)
           /\ cfg.cmd = "measure" /\ plan.policy = "rotate" => stream.last[c].base \in Perms(plan.w)
  BY <1>1 DEF Streamed
<1>4. ASSUME stream'.open = stream.open, stream'.last = stream.last, stream'.started = stream.started,
             stream'.index \in Nat,
             stream' = [open |-> stream'.open, last |-> stream'.last, started |-> stream'.started,
                        index |-> stream'.index, priming |-> stream'.priming, bad |-> stream'.bad]
      PROVE  Streamed'
  BY <1>1, <1>3, <1>4 DEF Streamed
<1>5. CASE y.trial.warm
  <2>1. stream' = [open |-> stream.open, last |-> stream.last, started |-> stream.started,
                   index |-> stream.index, priming |-> stream.priming + 1, bad |-> stream.bad]
    BY <1>2, <1>3, <1>5
  <2> QED BY <2>1, <1>3, <1>4
<1>6. CASE ~y.trial.warm
  <2>1. y \in Trials
    BY <1>6 DEF Priming
  <2> DEFINE j == Advance(y.trial, y.base).bad + (IF y.trial.out = "bad" THEN 1 ELSE 0)
  <2>2. stream' = [Advance(y.trial, y.base) EXCEPT !.bad = j]
    BY <1>2, <1>6
  <2> HIDE DEF j
  <2>3. CASE plan.policy # "rotate"
    <3>1. y.trial.cycle = -1
      BY <1>1, <2>1, <2>3, NextTrialIs
    <3>2. Advance(y.trial, y.base) = [stream EXCEPT !.index = @ + 1]
      BY <3>1 DEF Advance
    <3>3. stream' = [open |-> stream.open, last |-> stream.last, started |-> stream.started,
                     index |-> stream.index + 1, priming |-> stream.priming, bad |-> j]
      BY <1>3, <2>2, <3>2
    <3> QED BY <3>3, <1>3, <1>4
  <2>4. CASE plan.policy = "rotate"
    <3> DEFINE c == y.trial.cycle
               n == y.trial.shift
               D == DOMAIN stream.open
    <3>1. /\ c \in Nat /\ n \in Nat /\ n < plan.w
          /\ c \in D \/ (c = stream.started /\ n = 0 /\ y.base \in Bases)
          /\ c \in D => n = stream.open[c] /\ y.base = stream.last[c].base
          /\ stream' = [open |-> stream'.open, last |-> stream'.last, started |-> stream'.started,
                        index |-> stream'.index, priming |-> stream'.priming, bad |-> stream'.bad]
          /\ stream'.started \in Nat /\ stream'.started >= c + 1
          /\ stream'.started >= stream.started
          /\ stream'.index = stream.index + 1
          /\ DOMAIN stream'.open = IF n + 1 = plan.w THEN D \ {c} ELSE D \union {c}
          /\ DOMAIN stream'.last = DOMAIN stream'.open
          /\ c \in DOMAIN stream'.open => stream'.open[c] = n + 1 /\ stream'.last[c].base = y.base
          /\ \A d \in D \ {c} : stream'.open[d] = stream.open[d] /\ stream'.last[d] = stream.last[d]
      BY <1>1, <2>1, <2>2, <2>4, RotatingStep
    <3> HIDE DEF c, n
    <3>2. cfg.cmd = "measure" => y.base \in Perms(plan.w)
      BY <3>1, <1>3, <2>4 DEF Bases
    <3>3. DOMAIN stream'.open \subseteq D \union {c}
      BY <3>1
    <3>4. DOMAIN stream'.open \subseteq 0..(stream'.started - 1)
      BY <3>1, <3>3, <1>3
    <3>5. c \in DOMAIN stream'.open => n + 1 # plan.w /\ n + 1 \in 1..(plan.w - 1)
      BY <3>1, <1>1
    <3>6. ASSUME NEW d \in DOMAIN stream'.open
          PROVE  /\ stream'.open[d] \in 1..(plan.w - 1)
                 /\ cfg.cmd = "measure" => stream'.last[d].base \in Perms(plan.w)
      <4>1. CASE d = c
        BY <4>1, <3>1, <3>2, <3>5
      <4>2. CASE d # c
        <5>1. d \in D \ {c} BY <4>2, <3>3
        <5> QED BY <5>1, <3>1, <1>3, <2>4
      <4> QED BY <4>1, <4>2
    <3>7. stream'.index \in Nat
      BY <3>1, <1>3
    <3> HIDE DEF D
    <3> QED BY <1>1, <2>4, <3>1, <3>4, <3>6, <3>7 DEF Streamed
  <2> QED BY <2>3, <2>4
<1> QED BY <1>5, <1>6

\* Nothing but a trial touches the stream.
LEMMA StreamedKeeps == ASSUME Control, Streamed, Next PROVE Streamed'
<1>1. CASE Trial
  BY <1>1, StreamedTrial
<1>2. CASE Plan \/ DryRun \/ StartLive \/ FitFails \/ Fit
  <2>1. /\ UNCHANGED <<stream, log>> /\ pc \in {"plan", "fit", "ping"}
    BY <1>2 DEF Plan, DryRun, StartLive, FitFails, Fit, liveVars
  <2> QED BY <2>1 DEF Streamed
<1>3. CASE Header \/ StreamEnds \/ LiveFinish \/ Finish \/ Settle \/ Interrupt \/ Deadline \/ Returned
  <2>1. /\ UNCHANGED <<cfg, plan, stream, log>>
        /\ pc' \in {"plan", "fit", "ping", "header"} => pc \in {"plan", "fit", "ping", "header"}
        /\ pc' \in Live => pc \in Live
    <3>1. CASE Header BY <3>1 DEF Header, Return, Misframed, Live
    <3>2. CASE Settle
      BY <3>2, CommandAssumption
         DEF Settle, liveVars, Control, Typed, Live, raceSettles, measureSettles, analyseSettles,
             Return, Terminal
    <3>3. CASE StreamEnds \/ LiveFinish \/ Finish \/ Interrupt \/ Deadline \/ Returned
      BY <3>3 DEF StreamEnds, LiveFinish, Finish, Interrupt, Deadline, Returned, vars, liveVars, Live
    <3> QED BY <1>3, <3>1, <3>2, <3>3
  <2> QED BY <2>1 DEF Streamed
<1> QED BY <1>1, <1>2, <1>3 DEF Next

\* A trial of one cycle changes nothing for another.
LEMMA OtherCycle ==
  ASSUME NEW w, NEW trials, NEW d, NEW n, NEW base, NEW y, CycleCounts(y, trials, d, n, base, w),
         NEW e, e.place[1] # d
  PROVE  CycleCounts(y, trials \union {e}, d, n, base, w)
<1>1. Of(trials \union {e}, d) = Of(trials, d)
  BY DEF Of
<1> QED BY <1>1 DEF CycleCounts

\* A cycle nothing has arrived of.
LEMMA FreshCycle ==
  ASSUME NEW w \in Nat \ {0}, NEW trials, NEW c, Of(trials, c) = {}, NEW base
  PROVE  CycleCounts(newCycle(w), trials, c, 0, base, w)
<1>1. /\ newCycle(w).received = 0 /\ newCycle(w).completeTrials = 0
      /\ newCycle(w).incomplete = FALSE /\ newCycle(w).shifts = {}
      /\ \A i, j \in Requests(w) : /\ newCycle(w).tally.rank[i][j] = 0
                                   /\ newCycle(w).tally.assigned[i][j] = 0
  BY DEF newCycle, ZeroTally, newRankMatrix
<1>2. Oks({}) = {} /\ \A r, k : Ranked({}, r, k) = {}
  BY DEF Oks, Ranked
<1>3. Cardinality({}) = 0
  BY FS_EmptySet
<1>4. 0..(0 - 1) = {} /\ 0 \in 0..w
  OBVIOUS
<1> QED BY <1>1, <1>2, <1>3, <1>4 DEF CycleCounts

\* A measurement that has observed the n-th shift of cycle c.
Grown(k, m, trials, c, n, base, w) ==
  /\ IsFiniteSet(trials) /\ Apart(trials) /\ Rotated(trials, w)
  /\ ClosedCounts(k, trials, DOMAIN k.cycles, w) /\ k.excluded \in Nat
  /\ DOMAIN k.cycles = IF n + 1 = w THEN DOMAIN m.cycles \ {c} ELSE DOMAIN m.cycles \union {c}
  /\ c \in DOMAIN k.cycles => CycleCounts(k.cycles[c], trials, c, n + 1, base, w)
  /\ \A d \in DOMAIN m.cycles \ {c} : k.cycles[d] = m.cycles[d]

\* A measurement counts the shift it observes.
LEMMA RotationCounts ==
  ASSUME NEW w \in Nat \ {0}, NEW trials, IsFiniteSet(trials), Apart(trials), Rotated(trials, w),
         NEW m, Measurement(m, w), ClosedCounts(m, trials, DOMAIN m.cycles, w), m.excluded \in Nat,
         NEW c \in Nat, NEW n \in Nat, n < w, NEW base \in Perms(w),
         \/ c \in DOMAIN m.cycles /\ CycleCounts(m.cycles[c], trials, c, n, base, w)
         \/ c \notin DOMAIN m.cycles /\ Of(trials, c) = {} /\ n = 0,
         NEW t, t.cycle = c, t.shift = n, t.arr = [p \in Requests(w) |-> base[(p + n) % w]],
         t.out = "ok" => t.ranks \in Perms(w),
         NEW e, e.place = <<c, n>>, e.out = t.out, e.ranks = t.ranks
  PROVE  Grown(observeCycle(m, t, w), m, trials \union {e}, c, n, base, w)
<1> DEFINE y == IF c \in DOMAIN m.cycles THEN m.cycles[c] ELSE newCycle(w)
           z == receiveShift(y, t, w)
           s == Stored(m, t, w)
           k == observeCycle(m, t, w)
           U == trials \union {e}
<1>1. /\ Measurement(s, w) /\ DOMAIN s.cycles = DOMAIN m.cycles \union {c} /\ s.cycles[c] = z
      /\ y.received \in Nat /\ Sound(y.tally, w) /\ y.completeTrials = y.tally.trials
      /\ \A d \in DOMAIN m.cycles \ {c} : s.cycles[d] = m.cycles[d]
      /\ s.tally = m.tally /\ s.retained = m.retained /\ s.excluded = m.excluded
  <2> DEFINE x == IF t.cycle \in DOMAIN m.cycles THEN m.cycles[t.cycle] ELSE newCycle(w)
             p == Stored(m, t, w)
  <2>1. /\ Measurement(p, w)
        /\ DOMAIN p.cycles = DOMAIN m.cycles \union {t.cycle}
        /\ p.cycles[t.cycle] = receiveShift(x, t, w)
        /\ x.received \in Nat /\ Sound(x.tally, w) /\ x.completeTrials = x.tally.trials
        /\ \A d \in DOMAIN m.cycles \ {t.cycle} : p.cycles[d] = m.cycles[d]
        /\ p.tally = m.tally /\ p.retained = m.retained /\ p.excluded = m.excluded
    <3> HIDE DEF x, p
    <3>1. StoredIn(p, x, m, t, w) BY StoredDoes DEF x, p
    <3> QED BY <3>1 DEF StoredIn, x
  <2>2. x = y /\ p = s
    OBVIOUS
  <2> HIDE DEF x, y, p, s
  <2> QED BY <2>1, <2>2
<1>2. k = IF z.received = w THEN finaliseCycle(s, c, w) ELSE s
  BY ObserveCycleDoes
<1>3. CycleCounts(y, trials, c, n, base, w)
  <2>1. CASE c \in DOMAIN m.cycles BY <2>1
  <2>2. CASE c \notin DOMAIN m.cycles BY <2>2, FreshCycle
  <2> QED BY <2>1, <2>2
<1> HIDE DEF y, z, s, k
<1>4. Received(z, y, t, w)
  BY <1>1, ReceiveDoes DEF z
<1>5. CycleCounts(z, U, c, n + 1, base, w)
  BY <1>1, <1>3, <1>4, CycleGrows
<1>6. Of(trials, c) = {} \/ c \in DOMAIN m.cycles
  OBVIOUS
<1>7. IsFiniteSet(U) /\ Apart(U) /\ Rotated(U, w)
  <2>1. ASSUME NEW u \in trials, u.place = e.place PROVE FALSE
    <3>1. u.place = <<c, n>> /\ u \in Of(trials, c)
      BY <2>1 DEF Of
    <3>2. PICK q \in 0..(n - 1) : u.place = <<c, q>>
      BY <1>3, <3>1 DEF CycleCounts
    <3> QED BY <3>1, <3>2
  <2>2. n \in Requests(w) BY DEF Requests
  <2>3. IsFiniteSet(U) BY FS_AddElement
  <2>4. Apart(U) BY <2>1 DEF Apart
  <2>5. Rotated(U, w)
    <3> SUFFICES ASSUME NEW u \in U PROVE \E d \in Nat, q \in Requests(w) : u.place = <<d, q>>
      BY DEF Rotated
    <3>1. CASE u \in trials BY <3>1 DEF Rotated
    <3>2. CASE u = e BY <3>2, <2>2
    <3> QED BY <3>1, <3>2
  <2> QED BY <2>3, <2>4, <2>5
<1>8. ClosedCounts(s, U, DOMAIN s.cycles, w)
  <2>1. e.place[1] = c
    OBVIOUS
  <2>2. ClosedCounts(s, trials \union {e}, DOMAIN m.cycles \union {c}, w)
    <3>1. s.tally = m.tally /\ s.retained = m.retained /\ s.excluded = m.excluded
      BY <1>1
    <3> DEFINE D == DOMAIN m.cycles
    <3>2. ClosedCounts(m, trials, D, w) /\ (c \in D \/ Of(trials, c) = {})
      BY <1>6
    <3> HIDE DEF D
    <3>3. ClosedCounts(s, trials \union {e}, D \union {c}, w)
      BY <2>1, <3>1, <3>2, StoreCounts
    <3> QED BY <3>3 DEF D
  <2> QED BY <2>2, <1>1
<1>9. z.received = n + 1
  BY <1>5 DEF CycleCounts
<1>10. CASE n + 1 = w
  <2>1. k = finaliseCycle(s, c, w)
    BY <1>2, <1>9, <1>10
  <2>2. ClosedCounts(k, U, DOMAIN k.cycles, w) /\ k.excluded \in Nat
    <3>1. /\ CycleCounts(s.cycles[c], U, c, n + 1, base, w) /\ c \in DOMAIN s.cycles
          /\ s.excluded \in Nat
      BY <1>1, <1>5
    <3> HIDE DEF U
    <3>2. LET f == finaliseCycle(s, c, w) IN
          ClosedCounts(f, U, DOMAIN f.cycles, w) /\ f.excluded \in Nat
      BY <1>1, <1>7, <1>8, <3>1, CloseCounts
    <3> QED BY <2>1, <3>2
  <2>3. k.cycles = [d \in DOMAIN s.cycles \ {c} |-> s.cycles[d]]
    <3>1. c \in DOMAIN s.cycles BY <1>1
    <3>2. finaliseCycle(s, c, w).cycles = [d \in DOMAIN s.cycles \ {c} |-> s.cycles[d]]
      BY <1>1, <3>1, FinaliseDoes
    <3> QED BY <2>1, <3>2
  <2> QED BY <2>2, <2>3, <1>1, <1>7, <1>10 DEF Grown, k
<1>11. CASE n + 1 # w
  <2>1. k = s
    BY <1>2, <1>9, <1>11
  <2> QED BY <2>1, <1>1, <1>5, <1>7, <1>8, <1>11 DEF Grown, k
<1> QED BY <1>10, <1>11

\* A measurement counts the complete trials that come in no rotation.
LEMMA FlatCounts ==
  ASSUME NEW w \in Nat, NEW trials, IsFiniteSet(trials), NEW m, Measurement(m, w),
         m.retained = Cardinality(Oks(trials)),
         \A r, k \in Requests(w) : m.tally.rank[r][k] = Cardinality(Ranked(Oks(trials), r, k)),
         NEW t, NEW e, e \notin trials, e.out = t.out, e.ranks = t.ranks,
         NEW n, \/ t.out # "ok" /\ n.retained = m.retained /\ n.tally = m.tally
                \/ /\ t.out = "ok" /\ n.retained = m.retained + 1
                   /\ n.tally = tallyTrial(m.tally, t, w)
  PROVE  /\ n.retained = Cardinality(Oks(trials \union {e}))
         /\ \A r, k \in Requests(w) :
              n.tally.rank[r][k] = Cardinality(Ranked(Oks(trials \union {e}), r, k))
<1> DEFINE O == Oks(trials)
<1>1. O \subseteq trials /\ IsFiniteSet(O) /\ e \notin O
  BY FS_Subset DEF Oks
<1>2. Oks(trials \union {e}) = IF t.out = "ok" THEN O \union {e} ELSE O
  BY DEF Oks
<1>3. CASE t.out # "ok"
  BY <1>2, <1>3
<1>4. CASE t.out = "ok"
  <2>1. OneTrialMore(tallyTrial(m.tally, t, w), m.tally, t, w)
    BY TallyCounts DEF Measurement
  <2>2. Cardinality(O \union {e}) = Cardinality(O) + 1
    <3> HIDE DEF O
    <3> QED BY <1>1, OneMore
  <2>3. ASSUME NEW r \in Requests(w), NEW k \in Requests(w)
        PROVE  n.tally.rank[r][k] = Cardinality(Ranked(O \union {e}, r, k))
    <3> DEFINE R == Ranked(O, r, k)
    <3>1. R \subseteq O /\ IsFiniteSet(R) /\ e \notin R
      <4>1. R \subseteq O BY DEF Ranked
      <4> HIDE DEF R, O
      <4> QED BY <4>1, <1>1, FS_Subset
    <3>2. Ranked(O \union {e}, r, k) = IF t.ranks[r] = k THEN R \union {e} ELSE R
      BY DEF Ranked
    <3>3. n.tally.rank[r][k] = m.tally.rank[r][k] + (IF t.ranks[r] = k THEN 1 ELSE 0)
      BY <1>4, <2>1 DEF OneTrialMore
    <3>4. m.tally.rank[r][k] = Cardinality(R)
      BY Zenon
    <3> HIDE DEF R
    <3>5. CASE t.ranks[r] = k
      <4>1. Cardinality(R \union {e}) = Cardinality(R) + 1 BY <3>1, OneMore
      <4> QED BY <4>1, <3>2, <3>3, <3>4, <3>5
    <3>6. CASE t.ranks[r] # k
      <4>1. Cardinality(R) \in Nat BY <3>1, FS_CardinalityType
      <4> QED BY <4>1, <3>2, <3>3, <3>4, <3>6
    <3> QED BY <3>5, <3>6
  <2> QED BY <1>2, <1>4, <2>2, <2>3
<1> QED BY <1>3, <1>4

\* A trial in no rotation is counted.
LEMMA FlatTrial ==
  ASSUME NEW w \in Nat, NEW m, Measurement(m, w), NEW trials, IsFiniteSet(trials), Apart(trials),
         NEW index \in Nat, FlatCounted(m, trials, index, w),
         NEW t, t.warm = FALSE, t.out \in {"ok", "err", "bad"}, NEW policy, policy # "rotate",
         ~observe(m, t, w, policy).err,
         NEW e, e.place = <<index>>, e.out = t.out, e.ranks = t.ranks
  PROVE  /\ IsFiniteSet(trials \union {e}) /\ Apart(trials \union {e})
         /\ FlatCounted(observe(m, t, w, policy), trials \union {e}, index + 1, w)
<1> DEFINE n == observe(m, t, w, policy)
           U == trials \union {e}
<1>1. ASSUME NEW u \in trials PROVE u.place # e.place
  <2>1. PICK i \in 0..(index - 1) : u.place = <<i>>
    BY DEF FlatCounted
  <2>2. u.place[1] = i /\ e.place[1] = index
    BY <2>1
  <2> QED BY <2>1, <2>2
<1>2. e \notin trials
  BY <1>1
<1>3. IsFiniteSet(U) /\ Apart(U)
  <2>1. IsFiniteSet(U) BY FS_AddElement
  <2>2. Apart(U) BY <1>1 DEF Apart
  <2> QED BY <2>1, <2>2
<1>4. \/ t.out # "ok" /\ n.retained = m.retained /\ n.tally = m.tally /\ n.excluded = m.excluded
      \/ /\ t.out = "ok" /\ n.retained = m.retained + 1 /\ n.tally = tallyTrial(m.tally, t, w)
         /\ n.excluded = m.excluded
  <2> HIDE DEF n
  <2>1. \/ t.out = "err" /\ Alike(n, m)
        \/ /\ t.out = "ok" /\ n.tally = tallyTrial(m.tally, t, w)
           /\ n.retained = m.retained + 1 /\ n.excluded = m.excluded
    <3>1. t.warm \in BOOLEAN OBVIOUS
    <3>2. \/ t.out = "err" /\ Alike(observe(m, t, w, policy), m)
          \/ /\ t.out = "ok" /\ observe(m, t, w, policy).tally = tallyTrial(m.tally, t, w)
             /\ observe(m, t, w, policy).retained = m.retained + 1
             /\ observe(m, t, w, policy).excluded = m.excluded
      BY <3>1, ObserveDoes
    <3> QED BY <3>2 DEF n
  <2> QED BY <2>1 DEF Alike
<1> HIDE DEF n
<1>5. /\ n.retained = Cardinality(Oks(U))
      /\ \A r, k \in Requests(w) : n.tally.rank[r][k] = Cardinality(Ranked(Oks(U), r, k))
  <2>1. /\ m.retained = Cardinality(Oks(trials))
        /\ \A r, k \in Requests(w) : m.tally.rank[r][k] = Cardinality(Ranked(Oks(trials), r, k))
    BY DEF FlatCounted
  <2> QED BY <1>2, <1>4, <2>1, FlatCounts
<1>6. \A u \in U : \E i \in 0..((index + 1) - 1) : u.place = <<i>>
  <2> TAKE u \in U
  <2>1. CASE u \in trials
    <3>1. PICK i \in 0..(index - 1) : u.place = <<i>> BY <2>1 DEF FlatCounted
    <3>2. i \in 0..((index + 1) - 1) OBVIOUS
    <3> QED BY <3>1, <3>2
  <2>2. CASE u = e BY <2>2
  <2> QED BY <2>1, <2>2
<1>7. n.excluded = 0
  BY <1>4 DEF FlatCounted
<1> QED BY <1>3, <1>5, <1>6, <1>7 DEF FlatCounted, n

\* A measurement and its stream agree on what was counted and on what is open.
Agreed(k, trials, z, w) ==
  /\ IsFiniteSet(trials) /\ Apart(trials) /\ CyclesCounted(k, trials, z, w)
  /\ DOMAIN k.cycles = DOMAIN z.open

\* The stream s has become z by the n-th shift of cycle c.
Turned(s, z, c, n, base, w) ==
  /\ c \in Nat /\ n \in Nat /\ n < w /\ base \in Perms(w)
  /\ s.started \in Nat /\ s.started \notin DOMAIN s.open
  /\ c \in DOMAIN s.open \/ (c = s.started /\ n = 0)
  /\ c \in DOMAIN s.open => n = s.open[c] /\ base = s.last[c].base
  /\ z.started \in Nat /\ z.started >= c + 1 /\ z.started >= s.started
  /\ DOMAIN z.open = IF n + 1 = w THEN DOMAIN s.open \ {c} ELSE DOMAIN s.open \union {c}
  /\ c \in DOMAIN z.open => z.open[c] = n + 1 /\ z.last[c].base = base
  /\ \A d \in DOMAIN s.open \ {c} : z.open[d] = s.open[d] /\ z.last[d] = s.last[d]

\* The trial t is the n-th shift of cycle c, and e the log's entry for it.
Logged(t, e, c, n, base, w) ==
  /\ t.cycle = c /\ t.shift = n /\ t.arr = [p \in Requests(w) |-> base[(p + n) % w]]
  /\ t.out = "ok" => t.ranks \in Perms(w)
  /\ e.place = <<c, n>> /\ e.out = t.out /\ e.ranks = t.ranks

\* A trial of a rotation is counted in its cycle.
LEMMA CycleTrial ==
  ASSUME NEW w \in Nat \ {0}, NEW m, Measurement(m, w), NEW trials, NEW s, Agreed(m, trials, s, w),
         NEW z, NEW c, NEW n, NEW base, Turned(s, z, c, n, base, w),
         NEW t, NEW e, Logged(t, e, c, n, base, w)
  PROVE  Agreed(observeCycle(m, t, w), trials \union {e}, z, w)
<1> DEFINE k == observeCycle(m, t, w)
           U == trials \union {e}
           D == DOMAIN m.cycles
<1>1. /\ IsFiniteSet(trials) /\ Apart(trials) /\ CyclesCounted(m, trials, s, w)
      /\ DOMAIN m.cycles = DOMAIN s.open
      /\ c \in Nat /\ n \in Nat /\ n < w /\ base \in Perms(w)
      /\ s.started \in Nat /\ s.started \notin DOMAIN s.open
      /\ c \in DOMAIN s.open \/ (c = s.started /\ n = 0)
      /\ c \in DOMAIN s.open => n = s.open[c] /\ base = s.last[c].base
      /\ z.started \in Nat /\ z.started >= c + 1 /\ z.started >= s.started
      /\ DOMAIN z.open = IF n + 1 = w THEN DOMAIN s.open \ {c} ELSE DOMAIN s.open \union {c}
      /\ c \in DOMAIN z.open => z.open[c] = n + 1 /\ z.last[c].base = base
      /\ \A d \in DOMAIN s.open \ {c} : z.open[d] = s.open[d] /\ z.last[d] = s.last[d]
  BY DEF Agreed, Turned
<1>2. /\ t.cycle = c /\ t.shift = n /\ t.arr = [p \in Requests(w) |-> base[(p + n) % w]]
      /\ t.out = "ok" => t.ranks \in Perms(w)
      /\ e.place = <<c, n>> /\ e.out = t.out /\ e.ranks = t.ranks
  BY DEF Logged
<1>3. Rotated(trials, w) /\ \A u \in trials : u.place[1] # s.started
  <2> SUFFICES ASSUME NEW u \in trials
               PROVE  /\ \E d \in Nat, q \in Requests(w) : u.place = <<d, q>>
                      /\ u.place[1] # s.started
    BY DEF Rotated
  <2>1. PICK d \in 0..(s.started - 1), q \in Requests(w) : u.place = <<d, q>>
    BY <1>1 DEF CyclesCounted
  <2>2. d \in Nat /\ d # s.started /\ u.place[1] = d
    BY <2>1
  <2> QED BY <2>1, <2>2
<1>4. \/ c \in D /\ CycleCounts(m.cycles[c], trials, c, n, base, w)
      \/ c \notin D /\ Of(trials, c) = {} /\ n = 0
  <2>1. CASE c \in D BY <2>1, <1>1 DEF CyclesCounted
  <2>2. CASE c \notin D BY <2>2, <1>1, <1>3 DEF Of
  <2> QED BY <2>1, <2>2
<1>5. Grown(k, m, U, c, n, base, w)
  <2>1. ClosedCounts(m, trials, D, w) /\ m.excluded \in Nat
    BY <1>1 DEF CyclesCounted
  <2> QED BY <1>1, <1>2, <1>3, <1>4, <2>1, RotationCounts
<1> HIDE DEF k, U, D
<1>6. /\ IsFiniteSet(U) /\ Apart(U)
      /\ ClosedCounts(k, U, DOMAIN k.cycles, w) /\ k.excluded \in Nat
      /\ DOMAIN k.cycles = IF n + 1 = w THEN D \ {c} ELSE D \union {c}
      /\ c \in DOMAIN k.cycles => CycleCounts(k.cycles[c], U, c, n + 1, base, w)
      /\ \A d \in D \ {c} : k.cycles[d] = m.cycles[d]
  BY <1>5 DEF Grown, D
<1>7. DOMAIN k.cycles = DOMAIN z.open
  BY <1>1, <1>6 DEF D
<1>8. ASSUME NEW d \in DOMAIN k.cycles
      PROVE  CycleCounts(k.cycles[d], U, d, z.open[d], z.last[d].base, w)
  <2>1. CASE d = c BY <2>1, <1>1, <1>6, <1>7
  <2>2. CASE d # c
    <3>1. d \in D \ {c} BY <2>2, <1>6
    <3>2. CycleCounts(m.cycles[d], trials, d, s.open[d], s.last[d].base, w)
      BY <3>1, <1>1 DEF CyclesCounted, D
    <3>3. e.place[1] # d BY <2>2, <1>2
    <3>4. CycleCounts(m.cycles[d], U, d, s.open[d], s.last[d].base, w)
      BY <3>2, <3>3, OtherCycle DEF U
    <3> QED BY <3>1, <3>4, <1>1, <1>6 DEF D
  <2> QED BY <2>1, <2>2
<1>9. ASSUME NEW u \in U
      PROVE  \E d \in 0..(z.started - 1), q \in Requests(w) : u.place = <<d, q>>
  <2>1. CASE u \in trials
    <3>1. PICK d \in 0..(s.started - 1), q \in Requests(w) : u.place = <<d, q>>
      BY <2>1, <1>1 DEF CyclesCounted
    <3>2. d \in 0..(z.started - 1) BY <1>1
    <3> QED BY <3>1, <3>2
  <2>2. CASE u = e
    <3>1. c \in 0..(z.started - 1) /\ n \in Requests(w) BY <1>1 DEF Requests
    <3> QED BY <2>2, <3>1, <1>2
  <2> QED BY <2>1, <2>2 DEF U
<1> QED BY <1>6, <1>7, <1>8, <1>9 DEF Agreed, CyclesCounted, k, U

\* What a measurement has counted does not depend on what it does not read.
LEMMA CountsAlike ==
  ASSUME NEW w, NEW m, NEW k, Alike(k, m), NEW trials
  PROVE  /\ \A index : FlatCounted(m, trials, index, w) => FlatCounted(k, trials, index, w)
         /\ \A s : CyclesCounted(m, trials, s, w) => CyclesCounted(k, trials, s, w)
  BY DEF Alike, FlatCounted, CyclesCounted, ClosedCounts

\* A trial is counted as it is logged.
LEMMA CountedTrial == ASSUME Control, Tallied, Streamed, Counted, Trial PROVE Counted'
<1> SUFFICES ASSUME cfg.cmd = "measure", failure' = "none"
             PROVE  /\ IsFiniteSet(log') /\ Apart(log')
                    /\ plan.policy # "rotate" => FlatCounted(acc', log', stream'.index, plan.w)
                    /\ plan.policy = "rotate" => /\ CyclesCounted(acc', log', stream', plan.w)
                                                 /\ DOMAIN acc'.cycles = DOMAIN stream'.open
  BY DEF Trial, Counted
<1>1. /\ pc = "drive" /\ pc \in Live /\ out.started /\ plan.w \in Nat \ {0}
  BY DEF Trial, Live, Control, Typed, Stopped
<1>2. PICK y \in Trials \union Priming :
        /\ acc' = observe(acc, y.trial, plan.w, plan.policy) /\ ~acc'.err
        /\ stream' = IF y.trial.warm THEN [stream EXCEPT !.priming = @ + 1]
                     ELSE [Advance(y.trial, y.base) EXCEPT !.bad =
                             @ + (IF y.trial.out = "bad" THEN 1 ELSE 0)]
        /\ IF y.trial.warm THEN UNCHANGED <<summary, log>>
           ELSE /\ summary' = IF y.trial.out = "err" THEN summary
                              ELSE tallyTrial(summary, y.trial, plan.w)
                /\ log' = log \union {[place |-> Place(y.trial), out |-> y.trial.out,
                                      ranks |-> y.trial.ranks, arr |-> y.trial.arr]}
        /\ plan.w \in Nat /\ Measurement(acc, plan.w) /\ failure = "none"
  BY MeasureTrialDoes
<1>3. /\ IsFiniteSet(log) /\ Apart(log)
      /\ plan.policy # "rotate" => FlatCounted(acc, log, stream.index, plan.w)
      /\ plan.policy = "rotate" => /\ CyclesCounted(acc, log, stream, plan.w)
                                   /\ DOMAIN acc.cycles = DOMAIN stream.open
  BY <1>1, <1>2 DEF Counted
<1>4. /\ stream = [open |-> stream.open, last |-> stream.last, started |-> stream.started,
               index |-> stream.index, priming |-> stream.priming, bad |-> stream.bad]
      /\ stream.started \in Nat /\ stream.index \in Nat /\ stream.started \notin DOMAIN stream.open
      /\ plan.policy = "rotate" => \A c \in DOMAIN stream.open : stream.last[c].base \in Perms(plan.w)
  BY <1>1 DEF Streamed
<1> DEFINE t == y.trial
           w == plan.w
           e == [place |-> Place(t), out |-> t.out, ranks |-> t.ranks, arr |-> t.arr]
           j == Advance(t, y.base).bad + (IF t.out = "bad" THEN 1 ELSE 0)
<1>5. /\ t.warm \in BOOLEAN /\ t.out \in {"ok", "err", "bad"} /\ t.ranks \in Perms(w)
  BY <1>2, TrialIs
<1>6. CASE t.warm
  <2>1. stream' = [open |-> stream.open, last |-> stream.last, started |-> stream.started,
                   index |-> stream.index, priming |-> stream.priming + 1, bad |-> stream.bad]
    BY <1>2, <1>4, <1>6
  <2>2. log' = log BY <1>2, <1>6
  <2>3. Alike(acc', acc)
    <3>1. Alike(observe(acc, t, w, plan.policy), acc)
      <4> HIDE DEF t, w
      <4>1. ~observe(acc, t, w, plan.policy).err /\ w \in Nat /\ Measurement(acc, w)
        BY <1>2 DEF t, w
      <4>2. \/ Alike(observe(acc, t, w, plan.policy), acc)
            \/ ~t.warm
        BY <4>1, <1>5, ObserveDoes
      <4> QED BY <4>2, <1>6 DEF t
    <3> QED BY <3>1, <1>2
  <2>4. CyclesCounted(acc, log, stream, w) => CyclesCounted(acc, log, stream', w)
    BY <2>1 DEF CyclesCounted
  <2> HIDE DEF w
  <2>5. /\ FlatCounted(acc, log, stream.index, w) => FlatCounted(acc', log, stream.index, w)
        /\ CyclesCounted(acc, log, stream', w) => CyclesCounted(acc', log, stream', w)
    BY <2>3, CountsAlike
  <2>6. acc'.cycles = acc.cycles /\ stream'.index = stream.index /\ stream'.open = stream.open
    BY <2>1, <2>3 DEF Alike
  <2> QED BY <1>3, <2>2, <2>4, <2>5, <2>6 DEF w
<1>7. CASE ~t.warm
  <2>1. y \in Trials
    BY <1>7 DEF Priming
  <2>2. stream' = [Advance(t, y.base) EXCEPT !.bad = j] /\ log' = log \union {e}
    BY <1>2, <1>7
  <2>3. /\ t.arr = Arrangement(plan.policy, y.base, t.shift, w)
        /\ plan.policy # "rotate" => t.cycle = -1
    BY <1>1, <2>1, NextTrialIs
  <2>4. /\ e.place = Place(t) /\ e.out = t.out /\ e.ranks = t.ranks
    OBVIOUS
  <2>5. ~observe(acc, t, w, plan.policy).err /\ acc' = observe(acc, t, w, plan.policy)
    BY <1>2
  <2> HIDE DEF t, w, j, e
  <2>6. CASE plan.policy # "rotate"
    <3>1. Advance(t, y.base) = [stream EXCEPT !.index = @ + 1] /\ e.place = <<stream.index>>
      BY <2>3, <2>4, <2>6 DEF Advance, Place
    <3>2. stream' = [open |-> stream.open, last |-> stream.last, started |-> stream.started,
                     index |-> stream.index + 1, priming |-> stream.priming, bad |-> j]
      BY <1>4, <2>2, <3>1
    <3>3. /\ w \in Nat /\ Measurement(acc, w) /\ FlatCounted(acc, log, stream.index, w)
          /\ t.warm = FALSE
      BY <1>1, <1>2, <1>3, <1>5, <1>7, <2>6 DEF w
    <3>4. /\ IsFiniteSet(log \union {e}) /\ Apart(log \union {e})
          /\ FlatCounted(observe(acc, t, w, plan.policy), log \union {e}, stream.index + 1, w)
      BY <1>3, <1>4, <1>5, <2>4, <2>5, <2>6, <3>1, <3>3, FlatTrial
    <3> QED BY <2>2, <2>5, <2>6, <3>2, <3>4 DEF w
  <2>7. CASE plan.policy = "rotate"
    <3> DEFINE c == t.cycle
               n == t.shift
    <3>1. /\ c \in Nat /\ n \in Nat /\ n < w
          /\ c \in DOMAIN stream.open \/ (c = stream.started /\ n = 0 /\ y.base \in Bases)
          /\ c \in DOMAIN stream.open => n = stream.open[c] /\ y.base = stream.last[c].base
          /\ stream'.started \in Nat /\ stream'.started >= c + 1
          /\ stream'.started >= stream.started
          /\ DOMAIN stream'.open = IF n + 1 = w THEN DOMAIN stream.open \ {c}
                                   ELSE DOMAIN stream.open \union {c}
          /\ c \in DOMAIN stream'.open => stream'.open[c] = n + 1 /\ stream'.last[c].base = y.base
          /\ \A d \in DOMAIN stream.open \ {c} :
               stream'.open[d] = stream.open[d] /\ stream'.last[d] = stream.last[d]
      BY <1>1, <2>1, <2>2, <2>7, RotatingStep DEF t, w
    <3>2. e.place = <<c, n>>
      BY <2>4, <3>1 DEF Place
    <3> DEFINE base == y.base
    <3>3. base \in Perms(w)
      BY <1>4, <2>7, <3>1 DEF Bases, w
    <3>4. t.arr = [p \in Requests(w) |-> base[(p + n) % w]]
      BY <2>3, <2>7 DEF Arrangement
    <3>5. PICK m : Measurement(m, w) /\ Alike(m, acc) /\ acc' = observeCycle(m, t, w)
      <4>1. w \in Nat /\ Measurement(acc, w)
        BY <1>2 DEF w
      <4>2. \E m : /\ Measurement(m, w) /\ Alike(m, acc)
                   /\ observe(acc, t, w, plan.policy) = observeCycle(m, t, w)
        BY <1>5, <1>7, <2>5, <2>7, <4>1, ObserveDoes
      <4> QED BY <4>2, <2>5
    <3>6. CyclesCounted(m, log, stream, w) /\ DOMAIN m.cycles = DOMAIN stream.open
      <4>1. CyclesCounted(acc, log, stream, w) /\ DOMAIN acc.cycles = DOMAIN stream.open
        BY <1>3, <2>7 DEF w
      <4> QED BY <3>5, <4>1, CountsAlike DEF Alike
    <3> HIDE DEF c, n, base
    <3>7. t.cycle = c /\ t.shift = n /\ w \in Nat \ {0} /\ y.base = base
      BY <1>1 DEF c, n, w, base
    <3> DEFINE s == stream
               z == stream'
    <3>8. Turned(s, z, c, n, base, w)
      BY <1>4, <3>1, <3>3, <3>7 DEF Turned
    <3>9. Logged(t, e, c, n, base, w)
      BY <1>5, <2>4, <3>2, <3>4, <3>7 DEF Logged
    <3>10. Agreed(m, log, s, w)
      BY <1>3, <3>6 DEF Agreed
    <3> HIDE DEF s, z
    <3>11. Agreed(observeCycle(m, t, w), log \union {e}, z, w)
      BY <3>5, <3>7, <3>8, <3>9, <3>10, CycleTrial
    <3> QED BY <2>2, <2>7, <3>5, <3>11 DEF Agreed, w, z
  <2> QED BY <2>6, <2>7
<1> QED BY <1>5, <1>6, <1>7

\* A new measurement has counted an empty log.
LEMMA NothingCounted ==
  ASSUME NEW w \in Nat \ {0}, NEW s, DOMAIN s.open = {}
  PROVE  /\ IsFiniteSet({}) /\ Apart({}) /\ FlatCounted(newMeasurement(w), {}, 0, w)
         /\ CyclesCounted(newMeasurement(w), {}, s, w) /\ DOMAIN newMeasurement(w).cycles = {}
<1> DEFINE m == newMeasurement(w)
<1>1. /\ m.retained = 0 /\ m.excluded = 0 /\ DOMAIN m.cycles = {}
      /\ \A i, j \in Requests(w) : m.tally.rank[i][j] = 0 /\ m.tally.assigned[i][j] = 0
  BY DEF newMeasurement, ZeroTally, newRankMatrix
<1> HIDE DEF m
<1>2. /\ Oks({}) = {} /\ Outside(Wholes({}, w), {}) = {} /\ Outside(Oks({}), {}) = {}
      /\ \A r, k : Ranked({}, r, k) = {}
  BY DEF Oks, Wholes, Outside, Ranked
<1>3. Cardinality({}) = 0 /\ IsFiniteSet({})
  BY FS_EmptySet
<1>4. ClosedCounts(m, {}, {}, w)
  <2>1. /\ m.retained = Cardinality(Outside(Wholes({}, w), {}))
        /\ m.retained + m.excluded = Cardinality(Outside(Oks({}), {}))
    BY <1>1, <1>2, <1>3
  <2>2. ASSUME NEW r \in Requests(w), NEW k \in Requests(w)
        PROVE  /\ m.tally.rank[r][k] = Cardinality(Ranked(Outside(Wholes({}, w), {}), r, k))
               /\ m.tally.assigned[r][k] * w = m.retained
    <3>1. m.tally.rank[r][k] = 0 /\ m.tally.assigned[r][k] = 0 /\ m.retained = 0
      BY <1>1
    <3>2. Cardinality(Ranked(Outside(Wholes({}, w), {}), r, k)) = 0
      BY <1>2, <1>3, Zenon
    <3>3. 0 * w = 0
      OBVIOUS
    <3> QED BY <3>1, <3>2, <3>3
  <2> QED BY <2>1, <2>2 DEF ClosedCounts
<1>5. FlatCounted(m, {}, 0, w)
  BY <1>1, <1>2, <1>3 DEF FlatCounted
<1>6. CyclesCounted(m, {}, s, w)
  BY <1>1, <1>4 DEF CyclesCounted
<1> QED BY <1>1, <1>3, <1>5, <1>6 DEF Apart, m

\* The report's header starts the count.
LEMMA CountedHeader == ASSUME Control, Streamed, Counted, Header PROVE Counted'
<1> SUFFICES ASSUME cfg.cmd = "measure", out'.started, pc' \in Live, failure = "none"
             PROVE  /\ IsFiniteSet(log) /\ Apart(log)
                    /\ plan.policy # "rotate" => FlatCounted(acc', log, stream.index, plan.w)
                    /\ plan.policy = "rotate" => /\ CyclesCounted(acc', log, stream, plan.w)
                                                 /\ DOMAIN acc'.cycles = DOMAIN stream.open
  BY DEF Header, Counted
<1>1. /\ pc = "header" /\ pc \in Live /\ plan.w \in Nat \ {0}
  BY DEF Header, Live, Control, Typed
<1>2. log = {} /\ DOMAIN stream.open = {} /\ stream.index = 0
  BY <1>1 DEF Streamed
<1>3. CASE out.started
  <2>1. acc' = acc
    BY <1>3 DEF Header
  <2> QED BY <1>1, <1>3, <2>1 DEF Counted
<1>4. CASE ~out.started
  <2>1. acc' = newMeasurement(plan.w)
    BY <1>4 DEF Header, Return, Live
  <2>2. /\ IsFiniteSet({}) /\ Apart({}) /\ FlatCounted(acc', {}, 0, plan.w)
        /\ CyclesCounted(acc', {}, stream, plan.w) /\ DOMAIN acc'.cycles = {}
    BY <1>1, <1>2, <2>1, NothingCounted
  <2> QED BY <1>2, <2>2
<1> QED BY <1>3, <1>4

\* A cycle cut short is closed without being kept, unless nothing of it was missing.
LEMMA CountedFinish == ASSUME Control, Tallied, Streamed, Counted, Finish PROVE Counted'
<1> SUFFICES ASSUME cfg.cmd = "measure", failure = "none"
             PROVE  /\ IsFiniteSet(log) /\ Apart(log)
                    /\ plan.policy # "rotate" => FlatCounted(acc', log, stream.index, plan.w)
                    /\ plan.policy = "rotate" => CyclesCounted(acc', log, stream, plan.w)
  BY DEF Finish, Counted
<1> DEFINE w == plan.w
<1>1. /\ pc = "settle" /\ pc \in Live /\ w \in Nat \ {0} /\ out.started
  BY DEF Finish, Live, Control, Typed, Stopped
<1>2. PICK c \in DOMAIN acc.cycles : acc' = finaliseCycle(acc, c, w)
  BY DEF Finish, finish
<1>3. Measurement(acc, w) /\ plan.policy = "rotate"
  BY <1>1, <1>2 DEF Tallied
<1>4. IsFiniteSet(log) /\ Apart(log) /\ CyclesCounted(acc, log, stream, w)
  BY <1>1, <1>3 DEF Counted
<1>5. c \in DOMAIN stream.open /\ stream.last[c].base \in Perms(w)
  BY <1>1, <1>3, <1>4 DEF CyclesCounted, Streamed
<1>6. Rotated(log, w)
  <2> SUFFICES ASSUME NEW u \in log PROVE \E d \in Nat, q \in Requests(w) : u.place = <<d, q>>
    BY DEF Rotated
  <2>1. PICK d \in 0..(stream.started - 1), q \in Requests(w) : u.place = <<d, q>>
    BY <1>4 DEF CyclesCounted
  <2>2. d \in Nat OBVIOUS
  <2> QED BY <2>1, <2>2
<1> DEFINE k == finaliseCycle(acc, c, w)
<1>7. ClosedCounts(k, log, DOMAIN k.cycles, w) /\ k.excluded \in Nat
  <2>1. /\ ClosedCounts(acc, log, DOMAIN acc.cycles, w) /\ acc.excluded \in Nat
        /\ CycleCounts(acc.cycles[c], log, c, stream.open[c], stream.last[c].base, w)
    BY <1>4 DEF CyclesCounted
  <2> HIDE DEF w
  <2> QED BY <1>1, <1>3, <1>4, <1>5, <1>6, <2>1, CloseCounts
<1>8. k.cycles = [x \in DOMAIN acc.cycles \ {c} |-> acc.cycles[x]]
  BY <1>3, FinaliseDoes
<1> HIDE DEF k, w
<1>9. \A x \in DOMAIN k.cycles : x \in DOMAIN acc.cycles /\ k.cycles[x] = acc.cycles[x]
  BY <1>8
<1>10. CyclesCounted(k, log, stream, w)
  BY <1>4, <1>7, <1>9 DEF CyclesCounted
<1> QED BY <1>2, <1>3, <1>4, <1>10 DEF k, w

\* Every step keeps the counts.
LEMMA CountedKeeps == ASSUME Control, Tallied, Streamed, Counted, Next PROVE Counted'
<1>1. CASE Plan \/ DryRun \/ StartLive \/ FitFails \/ Fit
  <2>1. ~out'.started
    <3>1. pc \in {"plan", "fit", "ping"} /\ out' = out
      BY <1>1 DEF Plan, DryRun, StartLive, FitFails, Fit
    <3> QED BY <3>1 DEF Control, Framed, Live
  <2> QED BY <2>1 DEF Counted
<1>2. CASE Settle
  <2>1. pc' = "done"
    BY <1>2, CommandAssumption
       DEF Settle, Control, Typed, raceSettles, measureSettles, analyseSettles, Return, Terminal
  <2> QED BY <2>1 DEF Counted, Live
<1>3. CASE StreamEnds \/ LiveFinish \/ Interrupt \/ Deadline \/ Returned
  <2>1. /\ UNCHANGED <<cfg, plan, stream, log, acc, failure, out>>
        /\ pc' \in Live => pc \in Live
        /\ pc' \in {"header", "drive"} => pc \in {"header", "drive"}
    BY <1>3 DEF StreamEnds, LiveFinish, Interrupt, Deadline, Returned, vars, liveVars, Live
  <2> QED BY <2>1 DEF Counted
<1> QED BY <1>1, <1>2, <1>3, CountedTrial, CountedHeader, CountedFinish DEF Next

\* The counts hold of a measurement from its first trial to its summary.
LEMMA CountsInvariant == Spec => [](Streamed /\ Counted)
<1>1. Init => Streamed /\ Counted
  BY DEF Init, Streamed, Counted, Live
<1>2. Inv /\ Streamed /\ Counted /\ [Next]_vars => (Streamed /\ Counted)'
  <2> SUFFICES ASSUME Inv, Streamed, Counted, [Next]_vars PROVE (Streamed /\ Counted)'
    OBVIOUS
  <2>1. CASE Next
    BY <2>1, StreamedKeeps, CountedKeeps DEF Inv
  <2>2. CASE UNCHANGED vars
    BY <2>2 DEF vars, Streamed, Counted
  <2> QED BY <2>1, <2>2
<1> QED BY <1>1, <1>2, Invariant, PTL DEF Spec

\* Whatever the order in which the trials of several cycles arrive, fail or are
\* cut short, the matrices a measurement reports count exactly the trials of its
\* whole cycles (measurement.go: observeCycle, finaliseCycle, finish).
THEOREM WholeCyclesKept == Spec => []WholeCyclesOnly
<1>1. Inv /\ Streamed /\ Counted => WholeCyclesOnly
  <2> SUFFICES ASSUME Inv, Counted, pc = "settle", cfg.cmd = "measure", failure = "none",
                      finish(acc, plan.w) = {}
               PROVE  /\ acc.retained = Cardinality(Kept) /\ acc.tally.trials = Cardinality(Kept)
                      /\ acc.retained + acc.excluded = Cardinality({t \in log : t.out = "ok"})
                      /\ \A r, k \in Requests(plan.w) :
                           acc.tally.rank[r][k] = Cardinality({t \in Kept : t.ranks[r] = k})
                      /\ plan.policy = "rotate" => \A r, p \in Requests(plan.w) :
                           acc.tally.assigned[r][p] * plan.w = acc.retained
    BY DEF WholeCyclesOnly
  <2>1. out.started /\ pc \in Live
    BY DEF Inv, Control, Stopped, Live
  <2>2. Measurement(acc, plan.w) /\ acc.tally.trials = acc.retained
    BY <2>1 DEF Inv, Tallied, Measurement
  <2>3. DOMAIN acc.cycles = {}
    BY DEF finish
  <2>4. IsFiniteSet(log)
    BY <2>1 DEF Counted
  <2>5. CASE plan.policy # "rotate"
    <3>1. FlatCounted(acc, log, stream.index, plan.w) /\ Kept = Oks(log)
      BY <2>1, <2>5 DEF Counted, Kept, Oks
    <3>2. Cardinality(Oks(log)) \in Nat
      <4>1. Oks(log) \subseteq log BY DEF Oks
      <4> QED BY <4>1, <2>4, FS_Subset, FS_CardinalityType
    <3> QED BY <2>2, <2>5, <3>1, <3>2 DEF FlatCounted, Oks, Ranked
  <2>6. CASE plan.policy = "rotate"
    <3>1. ClosedCounts(acc, log, {}, plan.w) /\ Kept = Wholes(log, plan.w)
      BY <2>1, <2>3, <2>6 DEF Counted, CyclesCounted, Kept, Wholes
    <3>2. Outside(Wholes(log, plan.w), {}) = Kept /\ Outside(Oks(log), {}) = {t \in log : t.out = "ok"}
      BY <3>1 DEF Outside, Oks
    <3> QED BY <2>2, <3>1, <3>2 DEF ClosedCounts, Ranked
  <2> QED BY <2>5, <2>6
<1> QED BY <1>1, Invariant, CountsInvariant, PTL
=============================================================================
