----------------------------- MODULE StartGate ------------------------------
(***************************************************************************)
(* How a timing run releases groups of requests (src/internal/timing:      *)
(* campaign_gate.go, pacing.go, budget.go).                                *)
(*                                                                         *)
(* A group prepares one sender per request, waits until all are ready,     *)
(* queues at the start pacer that all workers share, opens its start gate  *)
(* under the state locks of all its connections, collects the prefixes and *)
(* opens the finish gate.  Readiness is bounded by a budget that pacing    *)
(* pauses, execution by a timer per sender, unless the plan sets no        *)
(* timeout; the first failure cancels the group and is blamed on its       *)
(* origin.                                                                 *)
(*                                                                         *)
(* A sender keeps the contract of transportSender.  The pacer counts ticks *)
(* since the last start; a timer that runs may fire at any moment.         *)
(***************************************************************************)
EXTENDS Integers, Sequences, FiniteSets, SequencesExt

CONSTANTS
  Groups,    \* campaignGroup calls, one per worker
  Members,   \* [Groups -> sequence of senders]
  Plans,     \* the groups that pass the pacer, priming ones do not, and whether
             \* there is a request timeout: zero means unlimited
  LastByte,  \* groups with last-byte synchronisation
  Interval,  \* ticks between two starts
  MaxFlips,  \* changes of a sender's readiness
  MaxFaults  \* broken connections, failed preparations and user stops

Senders == UNION {Range(Members[g]) : g \in Groups}
Owner(s) == CHOOSE g \in Groups : s \in Range(Members[g])
Team(g) == Range(Members[g])

ASSUME GateAssumption ==
  /\ \A g \in Groups : Members[g] \in Seq(Team(g)) /\ Members[g] # << >>
  /\ \A g, h \in Groups : g # h => Team(g) \cap Team(h) = {}
  /\ \A plan \in Plans : plan.charged \subseteq Groups /\ plan.limited \in BOOLEAN
  /\ LastByte \subseteq Groups
  /\ Interval \in Nat

VARIABLES
  queue,   \* p.waiters
  since,   \* ticks since p.last, capped at Interval, which also stands for never
  grp,     \* the coordinators, with their budgets
  snd,     \* the senders
  flips, faults

vars == <<queue, since, grp, snd, flips, faults>>

Group == [pc |-> "prepare", charged |-> TRUE, limited |-> TRUE, cause |-> "none", origin |-> "none", idx |-> 1,
          start |-> FALSE, finish |-> FALSE, prefixes |-> 0, head |-> FALSE, changed |-> FALSE,
          paused |-> FALSE, bcause |-> "none", watching |-> TRUE,
          err |-> "none"]

Sender == [pc |-> "idle", ready |-> TRUE, broken |-> FALSE, released |-> FALSE, active |-> FALSE,
           complete |-> FALSE, failure |-> "none"]

Init ==
  /\ queue = <<>>
  /\ since = Interval
  /\ \E plan \in Plans : grp = [g \in Groups |->
       [Group EXCEPT !.charged = g \in plan.charged, !.limited = plan.limited]]
  /\ snd = [s \in Senders |-> Sender]
  /\ flips = 0 /\ faults = 0

-----------------------------------------------------------------------------
(* Cancellation and budgets *)

\* failLocked, and cancel with no origin: the first cause stays, and the budget
\* and the watcher no longer matter.
Failed(rec, who, c) ==
  IF rec.cause # "none" THEN rec
  ELSE [rec EXCEPT !.cause = c, !.origin = who, !.watching = FALSE, !.paused = FALSE]

\* The budget's context ends with its own cause or the group's.
BudgetCause(rec) == IF rec.bcause # "none" THEN rec.bcause ELSE rec.cause

Unreleased(g) == {i \in DOMAIN Members[g] : ~snd[Members[g][i]].released}

\* resumeLocked and pause.  A budget that is already exhausted ends first, by
\* BudgetFires.
Resumed(rec) == [rec EXCEPT !.paused = FALSE]
Paused(rec) == [rec EXCEPT !.paused = TRUE]

\* close: the budget's timer no longer counts.
Closed(rec) == [rec EXCEPT !.bcause = IF BudgetCause(rec) = "none" THEN "closed" ELSE @]

\* The budget's timer, if there is one, fires unless it was paused.
BudgetFires(g) ==
  /\ grp[g].limited /\ ~grp[g].paused /\ BudgetCause(grp[g]) = "none"
  /\ grp[g].pc # "done"
  /\ grp' = [grp EXCEPT ![g].bcause = "deadline"]
  /\ UNCHANGED <<queue, since, snd, flips, faults>>

\* The readiness watcher blames the first sender that was not released.
ReadinessEnds(g) ==
  /\ grp[g].watching /\ BudgetCause(grp[g]) # "none" /\ grp[g].pc # "done"
  /\ grp' = [grp EXCEPT ![g] =
       IF Unreleased(g) = {} THEN [grp[g] EXCEPT !.watching = FALSE]
       ELSE Failed([grp[g] EXCEPT !.watching = FALSE],
                   Members[g][Min(Unreleased(g))], BudgetCause(grp[g]))]
  /\ UNCHANGED <<queue, since, snd, flips, faults>>

\* A sender's execution timer fires, if there is one.
ExecutionFires(s) ==
  /\ grp[Owner(s)].limited /\ snd[s].active /\ grp[Owner(s)].cause = "none"
  /\ grp' = [grp EXCEPT ![Owner(s)] = Failed(@, s, "deadline")]
  /\ UNCHANGED <<queue, since, snd, flips, faults>>

\* The run that the group belongs to is cancelled.
ParentStops(g) ==
  /\ grp[g].cause = "none" /\ grp[g].pc # "done" /\ faults < MaxFaults
  /\ faults' = faults + 1
  /\ grp' = [grp EXCEPT ![g] = Failed(@, "none", "stop")]
  /\ UNCHANGED <<queue, since, snd, flips>>

-----------------------------------------------------------------------------
(* The coordinator *)

\* All senders are prepared on their connections.
Prepare(g) ==
  /\ grp[g].pc = "prepare" /\ BudgetCause(grp[g]) = "none"
  /\ \A s \in Team(g) : ~snd[s].broken
  /\ grp' = [grp EXCEPT ![g].pc = "ready"]
  /\ snd' = [s \in Senders |-> IF s \in Team(g) THEN [snd[s] EXCEPT !.pc = "gate"] ELSE snd[s]]
  /\ UNCHANGED <<queue, since, flips, faults>>

\* One preparation fails: it carries the error, or the cause that ended the
\* budget, the others are cancelled, and all connections are disposed of.
PrepareFails(g, s) ==
  LET free == snd[s].broken \/ BudgetCause(grp[g]) # "none"
      why == IF BudgetCause(grp[g]) # "none" THEN BudgetCause(grp[g]) ELSE "broken" IN
  /\ grp[g].pc = "prepare" /\ (free \/ faults < MaxFaults)
  /\ faults' = IF free THEN faults ELSE faults + 1
  /\ grp' = [grp EXCEPT ![g] = [Failed(@, s, why) EXCEPT !.pc = "done", !.err = why, !.origin = s]]
  /\ snd' = [t \in Senders |-> IF t \notin Team(g) THEN snd[t]
       ELSE [snd[t] EXCEPT !.pc = "done", !.broken = TRUE, !.failure = IF t = s THEN why ELSE "cancelled"]]
  /\ UNCHANGED <<queue, since, flips>>

\* waitReady: each sender in turn was ready once; a broken one ends the group.
WaitReady(g, final) ==
  LET rec == grp[g]
      s == Members[g][rec.idx] IN
  /\ rec.pc = IF final THEN "readyFinal" ELSE "ready"
  /\ \/ /\ rec.cause = "none" /\ ~snd[s].broken /\ snd[s].ready
        /\ grp' = [grp EXCEPT ![g] =
             IF rec.idx < Len(Members[g]) THEN [rec EXCEPT !.idx = @ + 1]
             ELSE [rec EXCEPT !.idx = 1, !.pc = IF final THEN "delay"
                     ELSE IF rec.charged THEN "join" ELSE "open"]]
     \/ /\ rec.cause # "none" \/ snd[s].broken
        /\ grp' = [grp EXCEPT ![g] = [Failed(rec, s, "broken") EXCEPT !.pc = "collect"]]
  /\ UNCHANGED <<queue, since, snd, flips, faults>>

\* watchReady: what a snapshot of the connections says.
AllReady(g) == \A s \in Team(g) : snd[s].ready /\ ~snd[s].broken

\* Fault: the gate opens on the readiness that was read before.
ValidatedBefore(g) == grp[g].cause = "none"

\* validate: readiness and the context again, under the state locks of all
\* connections and in the step that opens the gate.
Validated(g) == AllReady(g) /\ grp[g].cause = "none"

\* The start gate opens; without synchronisation the finish gate opens with it.
Opened(g, rec) ==
  [rec EXCEPT !.start = TRUE, !.finish = g \notin LastByte,
              !.pc = IF g \in LastByte THEN "prefixes" ELSE "collect"]

\* A group that is not charged does not pass the pacer.
OpenUncharged(g) ==
  /\ grp[g].pc = "open"
  /\ grp' = [grp EXCEPT ![g] = IF Validated(g) THEN Opened(g, @) ELSE [@ EXCEPT !.pc = "ready"]]
  /\ UNCHANGED <<queue, since, snd, flips, faults>>

\* The pacer's lock, which its holder keeps while it validates.
PacerFree == \A g \in Groups : grp[g].pc # "validate"

\* commit queues the group at the tail.
JoinQueue(g) ==
  /\ grp[g].pc = "join" /\ PacerFree
  /\ queue' = Append(queue, g)
  /\ grp' = [grp EXCEPT ![g].pc = "try"]
  /\ UNCHANGED <<since, snd, flips, faults>>

\* commit returns: the budget is resumed and the waiter removed.
Leaves(g, rec) ==
  /\ queue' = SelectSeq(queue, LAMBDA h : h # g)
  /\ grp' = [grp EXCEPT ![g] = Resumed(rec)]

\* The head of the queue whose start is due.
Eligible(g) == queue[1] = g /\ since = Interval

\* One turn of commit's loop under the pacer's lock.
TryCommit(g) ==
  LET rec == grp[g] IN
  /\ rec.pc = "try" /\ PacerFree
  /\ IF BudgetCause(rec) # "none"
     THEN Leaves(g, [Failed(rec, "none", BudgetCause(rec)) EXCEPT !.pc = "collect"])
     ELSE IF ~AllReady(g)
     THEN Leaves(g, [rec EXCEPT !.pc = "ready"])
     ELSE /\ grp' = [grp EXCEPT ![g] =
               IF Eligible(g) THEN [Resumed(rec) EXCEPT !.pc = "validate"]
               ELSE [Paused(rec) EXCEPT !.pc = "sleep", !.head = queue[1] = g]]
          /\ UNCHANGED queue
  /\ UNCHANGED <<since, snd, flips, faults>>

\* revalidate, still under the pacer's lock: the start is charged and the gate
\* opens, or the group goes back to wait for readiness.
Commit(g) ==
  /\ grp[g].pc = "validate"
  /\ Leaves(g, IF Validated(g) THEN Opened(g, grp[g]) ELSE [grp[g] EXCEPT !.pc = "ready"])
  /\ since' = IF Validated(g) THEN 0 ELSE since
  /\ UNCHANGED <<snd, flips, faults>>

\* Fault: a sleeping waiter does not notice that its turn came.
WokenByTimerOnly(g) ==
  \/ BudgetCause(grp[g]) # "none"
  \/ grp[g].head /\ since = Interval

\* waitPacingChange: the context, the turn, the timer or a change of readiness.
Woken(g) ==
  \/ BudgetCause(grp[g]) # "none"
  \/ grp[g].head /\ since = Interval
  \/ ~grp[g].head /\ queue[1] = g
  \/ grp[g].changed

WakeUp(g) ==
  /\ grp[g].pc = "sleep" /\ Woken(g)
  /\ grp' = [grp EXCEPT ![g].pc = "try", ![g].head = FALSE, ![g].changed = FALSE]
  /\ UNCHANGED <<queue, since, snd, flips, faults>>

\* The coordinator has every prefix, or gives up with the context.
CollectPrefixes(g) ==
  /\ grp[g].pc = "prefixes"
  /\ \/ grp[g].prefixes = Len(Members[g]) /\ grp' = [grp EXCEPT ![g].pc = "readyFinal"]
     \/ grp[g].cause # "none" /\ grp' = [grp EXCEPT ![g].pc = "collect"]
  /\ UNCHANGED <<queue, since, snd, flips, faults>>

\* After the release delay the finish gate opens if all are ready at once.
OpenFinish(g) ==
  /\ grp[g].pc = "delay"
  /\ grp' = [grp EXCEPT ![g] =
       IF @.cause # "none" THEN [@ EXCEPT !.pc = "collect"]
       ELSE IF Validated(g) THEN [@ EXCEPT !.finish = TRUE, !.pc = "collect"]
       ELSE [@ EXCEPT !.pc = "readyFinal"]]
  /\ UNCHANGED <<queue, since, snd, flips, faults>>

\* Fault: a sender that failed keeps its own failure even when it is the origin.
OutcomeKept(rec, s) ==
  IF rec.cause = "none" \/ snd[s].failure # "none" \/ snd[s].complete THEN snd[s].failure ELSE "cancelled"

\* The outcomes once every sender returned: the origin carries the cause and
\* whoever neither failed nor completed is cancelled.
Outcome(rec, s) ==
  IF rec.cause = "none" THEN snd[s].failure
  ELSE IF s = rec.origin THEN rec.cause
  ELSE IF snd[s].failure = "none" /\ snd[s].complete THEN "none"
  ELSE "cancelled"

Collect(g) ==
  /\ grp[g].pc = "collect"
  /\ \A s \in Team(g) : snd[s].pc = "done"
  /\ grp' = [grp EXCEPT ![g].pc = "done", ![g].err = grp[g].cause]
  /\ snd' = [s \in Senders |-> IF s \in Team(g)
       THEN [snd[s] EXCEPT !.failure = Outcome(grp[g], s)] ELSE snd[s]]
  /\ UNCHANGED <<queue, since, flips, faults>>

-----------------------------------------------------------------------------
(* The senders *)

\* A sender's connection fails: it returns and fails the group.
SenderFails(s) ==
  LET g == Owner(s) IN
  /\ snd[s].pc \in {"gate", "prefix", "final", "respond"}
  /\ snd[s].broken /\ grp[g].cause = "none"
  /\ snd' = [snd EXCEPT ![s].pc = "done", ![s].active = FALSE, ![s].failure = "failed"]
  /\ grp' = [grp EXCEPT ![g] = Failed(@, s, "broken")]
  /\ UNCHANGED <<queue, since, flips, faults>>

\* The senders that have not completed return when the group is cancelled.
SendersCancelled(g) ==
  /\ grp[g].cause # "none" /\ grp[g].pc = "collect"
  /\ \E s \in Team(g) : snd[s].pc # "done"
  /\ snd' = [s \in Senders |-> IF s \in Team(g) /\ snd[s].pc # "done"
       THEN [snd[s] EXCEPT !.pc = "done", !.active = FALSE, !.failure = "failed", !.broken = TRUE]
       ELSE snd[s]]
  /\ UNCHANGED <<queue, since, grp, flips, faults>>

\* Past the start gate, onInitial under the connection's lock and the group's: the
\* sender leaves the readiness budget and enters its own.
Release(s) ==
  LET g == Owner(s) IN
  /\ snd[s].pc = "gate" /\ grp[g].start /\ grp[g].cause = "none" /\ snd[s].ready /\ ~snd[s].broken
  /\ IF BudgetCause(grp[g]) # "none"
     THEN /\ snd' = [snd EXCEPT ![s].pc = "done", ![s].failure = "failed", ![s].broken = TRUE]
          /\ grp' = [grp EXCEPT ![g] = Failed(@, s, BudgetCause(grp[g]))]
     ELSE /\ snd' = [snd EXCEPT ![s].pc = "prefix", ![s].released = TRUE, ![s].active = TRUE]
          /\ grp' = [grp EXCEPT ![g] =
               IF Cardinality(Unreleased(g)) = 1 THEN [Closed(@) EXCEPT !.watching = FALSE] ELSE @]
  /\ UNCHANGED <<queue, since, flips, faults>>

\* onPrefix: the channel has room for every sender.
Prefix(s) ==
  LET g == Owner(s) IN
  /\ snd[s].pc = "prefix" /\ ~snd[s].broken /\ grp[g].cause = "none"
  /\ snd' = [snd EXCEPT ![s].pc = IF g \in LastByte THEN "final" ELSE "respond"]
  /\ grp' = [grp EXCEPT ![g].prefixes = @ + 1]
  /\ UNCHANGED <<queue, since, flips, faults>>

Final(s) ==
  /\ snd[s].pc = "final" /\ grp[Owner(s)].finish /\ snd[s].ready /\ ~snd[s].broken
  /\ snd' = [snd EXCEPT ![s].pc = "respond"]
  /\ UNCHANGED <<queue, since, grp, flips, faults>>

\* onComplete: a response that took longer than the limit fails its sender, and
\* one that completes in a cancelled group reports the cancellation.
Respond(s, overdue) ==
  LET g == Owner(s) IN
  /\ snd[s].pc = "respond" /\ ~snd[s].broken /\ (overdue => grp[g].limited)
  /\ grp' = [grp EXCEPT ![g] = IF overdue THEN Failed(@, s, "deadline") ELSE @]
  /\ snd' = [snd EXCEPT ![s].pc = "done", ![s].active = FALSE, ![s].complete = TRUE,
               ![s].failure = IF overdue \/ grp[g].cause # "none" THEN "failed" ELSE "none"]
  /\ UNCHANGED <<queue, since, flips, faults>>

\* The peer's credit or its limits change a sender's readiness.
Flip(s) ==
  /\ snd[s].pc \in {"gate", "final"} /\ grp[Owner(s)].cause = "none" /\ flips < MaxFlips
  /\ flips' = flips + 1
  /\ snd' = [snd EXCEPT ![s].ready = FALSE]
  /\ grp' = [grp EXCEPT ![Owner(s)].changed = grp[Owner(s)].pc = "sleep"]
  /\ UNCHANGED <<queue, since, faults>>

\* The peer restores it.
Restore(s) ==
  /\ ~snd[s].ready /\ snd[s].pc # "done"
  /\ snd' = [snd EXCEPT ![s].ready = TRUE]
  /\ grp' = [grp EXCEPT ![Owner(s)].changed = grp[Owner(s)].pc = "sleep"]
  /\ UNCHANGED <<queue, since, flips, faults>>

Break(s) ==
  /\ ~snd[s].broken /\ snd[s].pc \notin {"idle", "done"} /\ grp[Owner(s)].cause = "none" /\ faults < MaxFaults
  /\ faults' = faults + 1
  /\ snd' = [snd EXCEPT ![s].broken = TRUE]
  /\ grp' = [grp EXCEPT ![Owner(s)].changed = grp[Owner(s)].pc = "sleep"]
  /\ UNCHANGED <<queue, since, flips>>

Tick ==
  /\ since < Interval /\ since' = since + 1
  /\ UNCHANGED <<queue, grp, snd, flips, faults>>

-----------------------------------------------------------------------------
GroupStep(g) ==
  \/ Prepare(g) \/ \E s \in Team(g) : PrepareFails(g, s)
  \/ \E final \in BOOLEAN : WaitReady(g, final)
  \/ OpenUncharged(g) \/ JoinQueue(g) \/ TryCommit(g) \/ Commit(g) \/ WakeUp(g)
  \/ CollectPrefixes(g) \/ OpenFinish(g) \/ SendersCancelled(g) \/ Collect(g)

SenderStep(s) ==
  SenderFails(s) \/ Release(s) \/ Prefix(s) \/ Final(s) \/ \E overdue \in BOOLEAN : Respond(s, overdue)

Timers(g) == BudgetFires(g) \/ ReadinessEnds(g) \/ \E s \in Team(g) : ExecutionFires(s)

Next ==
  \/ \E g \in Groups : GroupStep(g) \/ Timers(g) \/ ParentStops(g)
  \/ \E s \in Senders : SenderStep(s) \/ Flip(s) \/ Restore(s) \/ Break(s)
  \/ Tick

\* Some goroutine or timer that can run does.  Nothing is assumed of the peer, nor
\* of a user who might cancel a run without a timeout.
Runs ==
  \/ Tick
  \/ \E g \in Groups : GroupStep(g) \/ Timers(g)
  \/ \E s \in Senders : SenderFails(s) \/ Release(s) \/ Final(s)

Fairness == WF_vars(Runs)

Spec == Init /\ [][Next]_vars /\ Fairness

-----------------------------------------------------------------------------
(* Properties *)

Waits(s, place) == snd[s].pc = place /\ snd[s].ready /\ ~snd[s].broken

\* A gate opens at an instant at which the whole group waits at it, every member
\* ready on a connection that is not lost, and nothing has cancelled the group: a
\* peer that takes its credit back, a lost connection or a timer between the wait
\* for readiness, the watch and validate holds the gate closed for all.
OpenTogether ==
  \A g \in Groups :
    /\ ~grp[g].start /\ grp'[g].start =>
         grp[g].cause = "none" /\ \A s \in Team(g) : Waits(s, "gate")
    /\ g \in LastByte /\ ~grp[g].finish /\ grp'[g].finish =>
         grp[g].cause = "none" /\ \A s \in Team(g) : Waits(s, "final")

\* No synchronised sender sends its final part before every member of its group has
\* sent its prefix (campaignGroup collects as many prefixes as there are senders).
FinalAfterPrefixes ==
  \A g \in LastByte : \A s, t \in Team(g) :
    snd[s].pc = "respond" => snd[t].released /\ snd[t].pc # "prefix"

GatesHold == [][OpenTogether]_vars /\ []FinalAfterPrefixes

\* A finished group explains itself: without a cause every request completed;
\* with one, each request either completed or failed, and exactly the origin
\* carries the cause, unless the group was ended from outside.
Explained ==
  \A g \in Groups : grp[g].pc = "done" =>
    /\ grp[g].err = "none" =>
         \A s \in Team(g) : snd[s].complete /\ snd[s].failure = "none" /\ snd[s].released
    /\ grp[g].err # "none" =>
         \A s \in Team(g) : snd[s].failure # "none" \/ snd[s].complete
    /\ grp[g].origin # "none" => \A s \in Team(g) :
         s = grp[g].origin <=> snd[s].failure = grp[g].err

\* A group may wait for ever only if no timeout limits it, nobody cancels it and its
\* peer holds a member up: gave no credit, takes no prefix or owes the answer.
MayWait(g) ==
  /\ ~grp[g].limited /\ grp[g].cause = "none"
  /\ \E s \in Team(g) : snd[s].pc # "done" /\ (~snd[s].ready \/ snd[s].pc \in {"prefix", "respond"})

\* Every group that has a timeout, or is cancelled, ends, whatever the peer does; a
\* group without a timeout that does not end waits for its peer and nothing else.
\* No waiter is left behind in the queue and no coordinator waits for a sender that
\* has gone.
GroupsEnd == \A g \in Groups : <>(grp[g].pc = "done") \/ []<>MayWait(g)
=============================================================================
