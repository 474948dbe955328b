--------------------------- MODULE PaceScheduler ----------------------------
(***************************************************************************)
(* The batch-start scheduler of one origin (src/tth2/pacing.go).           *)
(*                                                                         *)
(* Calls queue an admission, directly or through the private run of a      *)
(* trial stream, and a loop goroutine grants them one at a time, never     *)
(* before the origin's clock and the run's clock both allow it.  The loop  *)
(* is started by the first admission, sleeps on a timer and a one-slot     *)
(* wake channel, and exits when nothing needs it.                          *)
(*                                                                         *)
(* Time is relative: a clock is the number of ticks since its last grant,  *)
(* capped at Horizon, which no interval exceeds.  Sequence numbers are the *)
(* positions in the arrival order.                                         *)
(***************************************************************************)
EXTENDS Integers, Sequences, FiniteSets, SequencesExt

CONSTANTS
  Admissions,        \* admission records, recycled when nothing refers to them
  PrivateRuns,       \* runs created by leasePace with an active private config
  Widths,            \* batch widths in use
  MinBatchInterval,  \* [Clocks -> Nat], in ticks
  RequestsPerSecond, \* [Clocks -> Nat], 0 for no limit
  Second,            \* ticks in a second
  None

Origin == "origin"
Direct == "direct"
Runs == PrivateRuns \cup {Direct}
Clocks == {Origin} \cup PrivateRuns

ASSUME PaceAssumption ==
  /\ Widths \subseteq Nat \ {0}
  /\ MinBatchInterval \in [Clocks -> Nat]
  /\ RequestsPerSecond \in [Clocks -> Nat]
  /\ Second \in Nat \ {0}
  /\ {Origin, Direct} \cap PrivateRuns = {}
  /\ None \notin Admissions

\* requestInterval: width requests at the given rate take this long, rounded up.
RequestInterval(width, rate) ==
  IF rate = 0 THEN 0 ELSE (width * Second + rate - 1) \div rate

\* readyAt, as the time that must have passed since the last grant.
Interval(k, width) ==
  Max({MinBatchInterval[k], RequestInterval(width, RequestsPerSecond[k])})

Horizon == Max({0} \cup {Interval(k, w) : k \in Clocks, w \in Widths})

VARIABLES
  arrivals,  \* queued admissions of all runs in sequence-number order
  adm,       \* the admission records
  runs,      \* s.runs
  closed,    \* private runs whose lease is closed
  selected,  \* s.selected
  age,       \* ticks since the last recorded by each clock
  loop,      \* none, ready (to step) or asleep; s.running is loop # "none"
  timer,     \* ticks until the loop's timer fires
  wake,      \* whether the wake channel holds its token
  elapsed    \* history: ticks since the last grant under each clock

vars == <<arrivals, adm, runs, closed, selected, age,
          loop, timer, wake, elapsed>>

Queued == ToSet(arrivals)

\* A record is waiting until its channel is closed (granted) or its wait has
\* returned the error of its context (gone).
Admission ==
  [status : {"free", "waiting", "granted", "gone"},
   run    : Runs,
   width  : Nat,
   done   : BOOLEAN]   \* its context is done

Free == [status |-> "free", run |-> Direct, width |-> 0, done |-> FALSE]

TypeOK ==
  /\ arrivals \in Seq(Admissions) /\ IsInjective(arrivals)
  /\ adm \in [Admissions -> Admission]
  /\ runs \subseteq Runs /\ Direct \in runs
  /\ closed \subseteq PrivateRuns
  /\ selected \in Queued \cup {None}
  /\ age \in [Clocks -> 0..Horizon]
  /\ loop \in {"none", "ready", "asleep"}
  /\ timer \in 0..Horizon + 1
  /\ wake \in BOOLEAN
  /\ elapsed \in [Clocks -> 0..Horizon]

\* A clock that has not started allows the first batch at once.
Init ==
  /\ arrivals = << >>
  /\ adm = [a \in Admissions |-> Free]
  /\ runs = {Direct}
  /\ closed = {}
  /\ selected = None
  /\ age = [k \in Clocks |-> Horizon]
  /\ loop = "none"
  /\ timer = 0
  /\ wake = FALSE
  /\ elapsed = [k \in Clocks |-> Horizon]

-----------------------------------------------------------------------------
\* leasePace with a private configuration: newRun registers the run.
NewRun(r) ==
  /\ r \notin runs /\ r \notin closed
  /\ runs' = runs \cup {r}
  /\ UNCHANGED <<arrivals, adm, closed, selected, age, loop, timer, wake, elapsed>>

\* Fault: the loop is started and not notified.
WaitSilent(a, r, w) ==
  /\ adm[a].status = "free"
  /\ r \in runs \ closed
  /\ arrivals' = Append(arrivals, a)
  /\ adm' = [adm EXCEPT ![a] = [status |-> "waiting", run |-> r, width |-> w,
                               done |-> FALSE]]
  /\ loop' = IF loop = "none" THEN "ready" ELSE loop
  /\ UNCHANGED <<runs, closed, selected, age, timer, wake, elapsed>>

\* wait: queue an admission, start the loop unless it runs, then notify it.
\* The notification belongs to the same step: one that comes late only makes
\* the loop step once more than it has to.
Wait(a, r, w) ==
  /\ adm[a].status = "free"
  /\ r \in runs \ closed
  /\ arrivals' = Append(arrivals, a)
  /\ adm' = [adm EXCEPT ![a] = [status |-> "waiting", run |-> r, width |-> w,
                               done |-> FALSE]]
  /\ loop' = IF loop = "none" THEN "ready" ELSE loop
  /\ wake' = TRUE
  /\ UNCHANGED <<runs, closed, selected, age, timer, elapsed>>

\* The context of a waiting call ends.
ContextEnds(a) ==
  /\ adm[a].status = "waiting"
  /\ ~adm[a].done
  /\ adm' = [adm EXCEPT ![a].done = TRUE]
  /\ UNCHANGED <<arrivals, runs, closed, selected, age, loop, timer, wake, elapsed>>

\* wait returns nil once its channel is closed, also when the context ended
\* in the meantime.
WaitGranted(a) ==
  /\ adm[a].status = "granted"
  /\ adm' = [adm EXCEPT ![a] = Free]
  /\ UNCHANGED <<arrivals, runs, closed, selected, age, loop, timer, wake, elapsed>>

\* wait returns the context's error: under the mutex the channel is still
\* open, so the admission is cancelled, and the loop is notified.
WaitCancelled(a) ==
  /\ adm[a].status = "waiting"
  /\ adm[a].done
  /\ adm' = [adm EXCEPT ![a] =
       IF a \in Queued THEN [@ EXCEPT !.status = "gone"] ELSE Free]
  /\ wake' = TRUE
  /\ UNCHANGED <<arrivals, runs, closed, selected, age, loop, timer, elapsed>>

\* paceLease.close, which a trial stream calls after its workers returned: the
\* run goes at once unless cancelled admissions are still queued on it.
CloseLease(r) ==
  /\ r \in (runs \cap PrivateRuns) \ closed
  /\ \A a \in Admissions : adm[a].run = r => adm[a].status \in {"free", "gone"}
  /\ closed' = closed \cup {r}
  /\ runs' = runs \ {q \in {r} : \A a \in Queued : adm[a].run # q}
  /\ wake' = TRUE
  /\ UNCHANGED <<arrivals, adm, selected, age, loop, timer, elapsed>>

-----------------------------------------------------------------------------
\* An admission that pruneCancelled drops once it is at the head.
Dead(a) == adm[a].status = "gone" \/ adm[a].done

Before(a, b, s) ==
  \E i, j \in 1..Len(s) : i < j /\ s[i] = a /\ s[j] = b

\* pruneCancelled: each run drops its leading cancelled admissions, and a
\* closed run that is left empty is deleted.
Pruned ==
  SelectSeq(arrivals, LAMBDA a :
    ~ /\ Dead(a)
      /\ \A b \in Queued : adm[b].run = adm[a].run /\ Before(b, a, arrivals) => Dead(b))

LiveRuns(s) ==
  {r \in runs : r \in closed => \E i \in 1..Len(s) : adm[s[i]].run = r}

\* How long a clock still forbids a batch of this width.
Remaining(k, w) == Max({0, Interval(k, w) - age[k]})

\* Fault: the run's own clock is not consulted.
RunIgnored(a) == 0

\* The direct run has no clock of its own.
RunRemaining(a) ==
  IF adm[a].run = Direct THEN 0 ELSE Remaining(adm[a].run, adm[a].width)

\* The heads of the run queues within the arrival order s, as positions.
Heads(s) ==
  {i \in 1..Len(s) : \A j \in 1..i - 1 : adm[s[j]].run # adm[s[i]].run}

\* pruneCancelled and selectAdmission: the selection is kept while it is queued,
\* otherwise it is the oldest head whose run is ready.
Selection(s) ==
  LET ready == {i \in Heads(s) : RunRemaining(s[i]) = 0}
  IN  IF selected \in ToSet(s) THEN selected
      ELSE IF ready = {} THEN None ELSE s[Min(ready)]

\* Pruned admissions whose wait has returned are garbage.
Collect(s) ==
  [a \in Admissions |->
     IF adm[a].status = "gone" /\ a \notin ToSet(s) THEN Free ELSE adm[a]]

\* step: nothing is selected.  Sleep until the first run is ready, or, with
\* nothing queued, sleep for 24 hours if a lease may still send, else exit.
StepNothing ==
  \E s \in {Pruned} :
  /\ loop = "ready"
  /\ Selection(s) = None
  /\ arrivals' = s
  /\ runs' = LiveRuns(s)
  /\ adm' = Collect(s)
  /\ selected' = None
  /\ loop' = IF s = << >> /\ runs' = {Direct} THEN "none" ELSE "asleep"
  /\ timer' = IF s = << >> THEN Horizon + 1
              ELSE Min({RunRemaining(s[i]) : i \in Heads(s)})
  /\ UNCHANGED <<closed, age, wake, elapsed>>

\* step: the selected admission has to wait for the origin or for its run.
StepDelay ==
  \E s \in {Pruned} : \E a \in {Selection(s)} :
  /\ loop = "ready"
  /\ a # None
  /\ Max({Remaining(Origin, adm[a].width), RunRemaining(a)}) > 0
  /\ arrivals' = s
  /\ runs' = LiveRuns(s)
  /\ adm' = Collect(s)
  /\ selected' = a
  /\ loop' = "asleep"
  /\ timer' = Max({Remaining(Origin, adm[a].width), RunRemaining(a)})
  /\ UNCHANGED <<closed, age, wake, elapsed>>

\* step: grant the selected admission.  Both clocks restart from the actual
\* time, so a late grant earns nothing back.
StepGrant ==
  \E s \in {Pruned} : \E a \in {Selection(s)} :
  \E rest \in {SelectSeq(s, LAMBDA b : b # a)} :
  LET clocks == {Origin, adm[a].run} \cap Clocks IN
  /\ loop = "ready"
  /\ a # None
  /\ Remaining(Origin, adm[a].width) = 0
  /\ RunRemaining(a) = 0
  /\ arrivals' = rest
  /\ runs' = LiveRuns(rest)
  /\ adm' = [Collect(s) EXCEPT ![a].status = "granted"]
  /\ selected' = None
  /\ age' = [k \in Clocks |->
       IF k \in clocks THEN 0 ELSE age[k]]
  /\ elapsed' = [k \in Clocks |-> IF k \in clocks THEN 0 ELSE elapsed[k]]
  /\ loop' = IF runs' = {Direct} /\ rest = << >> THEN "none" ELSE "ready"
  /\ UNCHANGED <<closed, timer, wake>>

Step == StepNothing \/ StepDelay \/ StepGrant

\* loop: the timer fires or the wake token arrives.  The 24-hour timer is
\* longer than any wait of interest, so it never fires here.
LoopTimer ==
  /\ loop = "asleep"
  /\ timer = 0
  /\ loop' = "ready"
  /\ UNCHANGED <<arrivals, adm, runs, closed, selected, age, timer, wake, elapsed>>

LoopWake ==
  /\ loop = "asleep"
  /\ wake
  /\ loop' = "ready"
  /\ wake' = FALSE
  /\ UNCHANGED <<arrivals, adm, runs, closed, selected, age, timer, elapsed>>

\* One tick of the monotonic clock.
Tick ==
  /\ age' = [k \in Clocks |-> Min({age[k] + 1, Horizon})]
  /\ elapsed' = [k \in Clocks |-> Min({elapsed[k] + 1, Horizon})]
  /\ timer' = IF timer \in 1..Horizon THEN timer - 1 ELSE timer
  /\ UNCHANGED <<arrivals, adm, runs, closed, selected, loop, wake>>

Next ==
  \/ \E a \in Admissions :
       \/ \E r \in Runs, w \in Widths : Wait(a, r, w)
       \/ ContextEnds(a) \/ WaitGranted(a) \/ WaitCancelled(a)
  \/ \E r \in PrivateRuns : NewRun(r) \/ CloseLease(r)
  \/ Step \/ LoopTimer \/ LoopWake \/ Tick

\* Goroutines keep running, time passes, and a context or its grant is noticed.
Fairness ==
  /\ WF_vars(Step) /\ WF_vars(LoopTimer) /\ WF_vars(LoopWake) /\ WF_vars(Tick)
  /\ \A a \in Admissions : WF_vars(WaitGranted(a) \/ WaitCancelled(a))

Spec == Init /\ [][Next]_vars /\ Fairness

-----------------------------------------------------------------------------
Grants(a) == adm[a].status = "waiting" /\ adm'[a].status = "granted"

\* Batch starts are never closer than the interval of the origin and of the
\* private run, measured between actual grants: a late wake, an idle period or
\* a change of run never lets a later batch catch up.  Within a run they are
\* granted in the order of their waits, unless the earlier one's context ended.
SpacedStarts ==
  [][\A a \in Admissions : Grants(a) =>
       /\ \A k \in {Origin, adm[a].run} \cap Clocks :
            elapsed[k] >= Interval(k, adm[a].width)
       /\ \A b \in Admissions :
            adm[a].run = adm[b].run /\ Before(b, a, arrivals) => Dead(b)]_vars

Quiet == runs = {Direct} /\ arrivals = << >>

\* Every wait returns: no wake-up is lost between the queue, the one-slot wake
\* channel, the timers and the exit of the loop.  And the loop "exists while work
\* is queued or a trial run holds a lease" (pacing.go): once neither is true the
\* goroutine exits, so nothing is left behind.
WaitsEnd ==
  /\ \A a \in Admissions : adm[a].status = "waiting" ~> adm[a].status # "waiting"
  /\ Quiet ~> (loop = "none" \/ ~Quiet)
=============================================================================
