----------------------------- MODULE TrialStream ----------------------------
(***************************************************************************)
(* One run of trials (src/tth2/trialstream.go): a worker per planned       *)
(* connection draws blocks of trials from a shared counter, acquires and   *)
(* primes a connection, sends, and hands each outcome to the consumer of   *)
(* All through a channel with one slot per worker.  The run ends when its  *)
(* bound is reached, the consumer stops, or a worker aborts it.            *)
(*                                                                         *)
(* The pool appears through what a worker sees of it: acquire succeeds     *)
(* with a new or a reused connection, or fails.  A batch is one attempt    *)
(* with an outcome.                                                        *)
(***************************************************************************)
EXTENDS Integers, Sequences, FiniteSets

CONSTANTS
  Workers,     \* one per planned connection; Conns() is their number
  Runs,        \* [trials, warmup, faults]: WithMaxTrials (an unbounded run is one
               \* stopped before), priming batches per connection, and the bound
               \* on attempts and acquisitions that fail
  Unit,        \* trials in a block: len(reqs) under ArrangeRotate, else 1
  MaxReused,   \* bound: how often acquire returns a reused connection
  Unlimited,   \* faults of a run whose target may kill every connection
  NoConn       \* no connection held

ASSUME TrialAssumption ==
  /\ IsFiniteSet(Workers) /\ Workers # {}
  /\ Runs \subseteq [trials : Nat \ {0}, warmup : Nat, faults : Nat \cup {Unlimited}]
  /\ Unit \in Nat \ {0}
  /\ MaxReused \in Nat
  /\ Unlimited \notin Nat
  /\ NoConn \notin Nat

VARIABLES
  run,        \* what the caller asked for
  nextBlock,  \* the block counter the workers draw from
  nextConn,   \* the connection-id counter
  reuses,     \* reused connections the pool may still return
  faults,     \* failures left
  pc,         \* where each worker is
  wk,         \* the local variables of each worker
  out,        \* the channel of completed trials
  closed,     \* whether it is closed
  stop,       \* none, or who called stopRun first: consumer, abort or end
  ctxDone,    \* whether the caller's context is done
  fatal,      \* s.fatal
  consumer,   \* ranging over the channel, draining it, or returned from All
  yielded     \* the trials yielded and tallied, in order

vars == <<run, nextBlock, nextConn, reuses, faults, pc, wk, out, closed, stop,
          ctxDone, fatal, consumer, yielded>>

noCoord == -1

\* How an attempt ends: complete; with a stream reset that spares the
\* connection; refused by the peer's stream limit; refused by a padding fault;
\* with the connection lost after or before the header record was flushed; by a
\* body limit or batch timeout, after or before it; by the caller's context.
Outcomes == {"ok", "reset", "limit", "padding", "lost", "lostEarly",
             "local", "localEarly", "cancelled"}

\* connOwner.send keeps the connection; a padding fault never reaches it.
Keeps(o) == o \in {"ok", "reset", "limit", "padding"}

Places == {"draw", "trial", "acquire", "acquired", "warm", "send", "emitWarm",
           "emit", "terminal", "abort", "leave", "done"}

Worker ==
  [block    : Nat,
   shift    : Nat,
   conn     : Nat \cup {NoConn},  \* the id of the held connection
   id       : Nat,                \* connID, which outlives the connection
   reused   : BOOLEAN,            \* it came from the pool and is not proven
   primed   : Nat,                \* priming batches done on it
   replaced : 0..2,               \* replacements for the pending trial
   outcome  : Outcomes]           \* the failure being handled, else ok

NewWorker ==
  [block |-> 0, shift |-> 0, conn |-> NoConn, id |-> 0, reused |-> FALSE,
   primed |-> 0, replaced |-> 0, outcome |-> "ok"]

\* A trial in the channel; what the target answered is left out.
Trial == [index : Nat \cup {noCoord}, conn : Nat]

TypeOK ==
  /\ run \in Runs /\ \A w \in Workers : wk[w].primed <= run.warmup
  /\ nextBlock \in Nat /\ nextConn \in Nat /\ reuses \in 0..MaxReused
  /\ faults \in Nat \cup {Unlimited}
  /\ pc \in [Workers -> Places]
  /\ wk \in [Workers -> Worker]
  /\ out \in Seq(Trial) /\ Len(out) <= Cardinality(Workers)
  /\ closed \in BOOLEAN /\ ctxDone \in BOOLEAN
  /\ stop \in {"none", "consumer", "abort", "end"}
  /\ fatal \in {"none", "ctx", "limit", "padding", "terminal"}
  /\ consumer \in {"ranging", "draining", "returned"}
  /\ yielded \in Seq(Trial)

\* start: the workers have been launched.
Init ==
  /\ run \in Runs
  /\ nextBlock = 0 /\ nextConn = 0 /\ reuses = MaxReused
  /\ faults = run.faults
  /\ pc = [w \in Workers |-> "draw"]
  /\ wk = [w \in Workers |-> NewWorker]
  /\ out = << >> /\ closed = FALSE
  /\ stop = "none" /\ ctxDone = FALSE /\ fatal = "none"
  /\ consumer = "ranging"
  /\ yielded = << >>

-----------------------------------------------------------------------------
shared == <<nextBlock, nextConn, reuses, faults>>
channel == <<out, closed>>
ending == <<stop, ctxDone, fatal>>
client == <<run, consumer, yielded>>

Goto(w, from, to) == pc[w] = from /\ pc' = [pc EXCEPT ![w] = to]

\* Something went wrong: o is charged to the bound unless it is no failure.
Spend(o) ==
  IF o = "ok" \/ faults = Unlimited THEN UNCHANGED faults
  ELSE faults > 0 /\ faults' = faults - 1

Stopping == stop # "none"
Held(w) == wk[w].conn # NoConn
Index(w) == wk[w].block * Unit + wk[w].shift

\* stopRun: only the first call has an effect.
StopRun(who) == stop' = IF Stopping THEN stop ELSE who

BlockAvailable(b) == b <= (run.trials - 1) \div Unit
TrialAvailable(i) == i < run.trials

\* Fault: the counter is read and not advanced.
DrawSame(w) ==
  /\ Goto(w, "draw", IF BlockAvailable(nextBlock) THEN "trial" ELSE "leave")
  /\ wk' = [wk EXCEPT ![w].block = nextBlock, ![w].shift = 0]
  /\ UNCHANGED <<shared, channel, ending, client>>

\* work: draw the first or the next block, or leave when none is left.
Draw(w) ==
  /\ Goto(w, "draw", IF BlockAvailable(nextBlock) THEN "trial" ELSE "leave")
  /\ wk' = [wk EXCEPT ![w].block = nextBlock, ![w].shift = 0]
  /\ nextBlock' = nextBlock + 1
  /\ UNCHANGED <<nextConn, reuses, faults, channel, ending, client>>

\* work: the tests at the head of each trial.
Begin(w) ==
  /\ Goto(w, "trial",
          IF ~TrialAvailable(Index(w)) \/ Stopping THEN "leave"
          ELSE IF ctxDone THEN "abort" ELSE "acquire")
  /\ wk' = [wk EXCEPT ![w].replaced = 0]
  /\ UNCHANGED <<shared, channel, ending, client>>

\* trialWorker.acquire: a connection is held already, or taken from the pool.
AcquireHeld(w) ==
  /\ Held(w)
  /\ Goto(w, "acquire", IF Stopping THEN "leave" ELSE "send")
  /\ UNCHANGED <<shared, wk, channel, ending, client>>

AcquireOk(w, reused) ==
  /\ ~Held(w)
  /\ Goto(w, "acquire", "acquired")
  /\ reuses' = IF reused THEN reuses - 1 ELSE reuses
  /\ reused => reuses > 0
  /\ wk' = [wk EXCEPT ![w].conn = nextConn, ![w].id = nextConn,
                      ![w].reused = reused, ![w].primed = 0,
                      ![w].outcome = "ok"]
  /\ nextConn' = nextConn + 1
  /\ UNCHANGED <<nextBlock, faults, channel, ending, client>>

\* trialWorker.acquire: dial fails, or acquireCtx is cancelled by stopRun or by
\* the caller's context.
AcquireFail(w, o) ==
  /\ ~Held(w)
  /\ IF o = "cancelled" THEN (Stopping \/ ctxDone) /\ UNCHANGED faults
     ELSE Spend(o)
  /\ Goto(w, "acquire", "terminal")
  /\ wk' = [wk EXCEPT ![w].outcome = "ok"]
  /\ UNCHANGED <<nextBlock, nextConn, reuses, channel, ending, client>>

\* sendTrial after acquire: leave if the run is stopping, else prime.
Acquired(w) ==
  /\ Goto(w, "acquired",
          IF Stopping THEN "leave" ELSE IF run.warmup > 0 THEN "warm" ELSE "send")
  /\ UNCHANGED <<shared, wk, channel, ending, client>>

-----------------------------------------------------------------------------
\* The attempt in flight may end with outcome o.
AttemptEnds(o) ==
  IF o = "cancelled" THEN ctxDone /\ UNCHANGED faults ELSE Spend(o)

\* What connOwner.send leaves of the connection, and the failure left to handle.
Disposed(w, o, left) ==
  [wk[w] EXCEPT !.outcome = left,
                !.reused = @ /\ o = "padding",
                !.conn = IF Keeps(o) THEN @ ELSE NoConn]

\* connOwner.send: a pooled connection died before it proved itself live.
Stale(w, o) ==
  /\ wk[w].reused
  /\ o \in {"lost", "lostEarly"}
  /\ ~ctxDone

\* Nothing was flushed and the connection is gone: the trial is still pending.
Undispatched(o) == o \in {"lostEarly", "localEarly"} /\ ~ctxDone

\* Fault: replacements are not counted.
ReplaceAlways(w, from) == Goto(w, from, "acquire")

\* replace: one replacement per pending trial, the second time is terminal.
Replace(w, from) ==
  Goto(w, from, IF wk[w].replaced = 0 THEN "acquire" ELSE "terminal")

\* warm: a priming batch ends, and its outcome is to be emitted.
WarmEnd(w, o) ==
  /\ Goto(w, "warm", "emitWarm")
  /\ AttemptEnds(o)
  /\ wk' = [wk EXCEPT ![w] = [Disposed(w, o, o) EXCEPT !.primed = @ + 1]]
  /\ UNCHANGED <<nextBlock, nextConn, reuses, channel, ending, client>>

\* work: the measured batch ended in a failure every later trial would repeat,
\* or under a cancelled context.
SendFatal(w, o) ==
  /\ Goto(w, "send", "abort")
  /\ AttemptEnds(o)
  /\ o \in {"limit", "padding"} \/ (o # "ok" /\ ctxDone)
  /\ wk' = [wk EXCEPT ![w] = Disposed(w, o, o)]
  /\ UNCHANGED <<nextBlock, nextConn, reuses, channel, ending, client>>

\* sendTrial: the measured batch was answered, or failed in a way that is an
\* observation about the target.
SendEnd(w, o) ==
  /\ Goto(w, "send", "emit")
  /\ AttemptEnds(o)
  /\ \/ o = "ok"
     \/ /\ o \notin {"limit", "padding"}
        /\ ~ctxDone /\ ~Stale(w, o) /\ ~Undispatched(o)
  /\ wk' = [wk EXCEPT ![w] = Disposed(w, o, "ok")]
  /\ UNCHANGED <<nextBlock, nextConn, reuses, channel, ending, client>>

\* sendTrial: a stale pooled connection is replaced free of charge.
SendStale(w, o) ==
  /\ Goto(w, "send", "acquire")
  /\ AttemptEnds(o)
  /\ Stale(w, o)
  /\ wk' = [wk EXCEPT ![w] = Disposed(w, o, o)]
  /\ UNCHANGED <<nextBlock, nextConn, reuses, channel, ending, client>>

\* sendTrial: the connection was retired before the measured dispatch.
SendReplace(w, o) ==
  /\ Replace(w, "send")
  /\ AttemptEnds(o)
  /\ Undispatched(o) /\ ~Stale(w, o)
  /\ wk' = [wk EXCEPT ![w] = [Disposed(w, o, o) EXCEPT !.replaced = @ + 1]]
  /\ UNCHANGED <<nextBlock, nextConn, reuses, channel, ending, client>>

-----------------------------------------------------------------------------
\* emit: the send case of the select.
Send(t) ==
  /\ ~closed
  /\ Len(out) < Cardinality(Workers)
  /\ out' = Append(out, t)
  /\ UNCHANGED closed

\* emit: the stop case of the select, which may be taken even with room.
EmitStopped(w) ==
  /\ Stopping
  /\ Goto(w, pc[w], "leave")
  /\ pc[w] \in {"emit", "emitWarm"}
  /\ UNCHANGED <<shared, wk, channel, ending, client>>

\* warm, after its outcome was emitted: the next priming batch, or the trial.
WarmNext(w) ==
  IF wk[w].primed < run.warmup THEN "warm" ELSE "send"

\* warm: the outcome was emitted.  A fault that no replacement repairs is
\* terminal, a dead connection is replaced, any other failure used up its turn.
EmitWarm(w) ==
  LET o == wk[w].outcome IN
  /\ Send([index |-> noCoord, conn |-> wk[w].id])
  /\ \/ /\ o = "ok" \/ (Held(w) /\ o # "padding" /\ ~ctxDone)
        /\ Goto(w, "emitWarm", WarmNext(w))
        /\ wk' = [wk EXCEPT ![w].outcome = "ok"]
     \/ /\ o # "ok" /\ (o = "padding" \/ ctxDone)
        /\ Goto(w, "emitWarm", "terminal")
        /\ UNCHANGED wk
     \/ /\ ~Held(w) /\ ~ctxDone
        /\ Replace(w, "emitWarm")
        /\ wk' = [wk EXCEPT ![w].replaced = @ + 1]
  /\ UNCHANGED <<shared, ending, client>>

\* work: the trial was emitted; the next shift, or the next block.
Emit(w) ==
  /\ Send([index |-> Index(w), conn |-> wk[w].id])
  /\ Goto(w, "emit", IF wk[w].shift + 1 < Unit THEN "trial" ELSE "draw")
  /\ wk' = [wk EXCEPT ![w].shift = @ + 1]
  /\ UNCHANGED <<shared, ending, client>>

\* Fault: a terminal failure ends the worker without a word.
TerminalSilent(w) ==
  /\ Goto(w, "terminal", "leave")
  /\ UNCHANGED <<shared, wk, channel, ending, client>>

\* work: a terminal result of sendTrial aborts the run unless it is stopping,
\* with the context's error if it is done.
Terminal(w) ==
  /\ Goto(w, "terminal", IF Stopping THEN "leave" ELSE "abort")
  /\ wk' = [wk EXCEPT ![w].outcome =
               IF @ = "padding" /\ ~ctxDone THEN @ ELSE "ok"]
  /\ UNCHANGED <<shared, channel, ending, client>>

\* The error a worker aborts the run with.
AbortCause(w) ==
  IF wk[w].outcome = "limit" THEN "limit"
  ELSE IF wk[w].outcome = "padding" THEN "padding"
  ELSE IF ctxDone THEN "ctx" ELSE "terminal"

\* abort: the first failure is recorded, and the run is wound down.
Abort(w) ==
  /\ Goto(w, "abort", "leave")
  /\ fatal' = IF fatal = "none" THEN AbortCause(w) ELSE fatal
  /\ StopRun("abort")
  /\ UNCHANGED <<shared, wk, channel, ctxDone, client>>

\* Fault: the worker returns with its connection.
LeaveHolding(w) ==
  /\ Goto(w, "leave", "done")
  /\ UNCHANGED <<shared, wk, channel, ending, client>>

\* The deferred release: a held connection goes back to the pool, and the local
\* variables are gone.
Leave(w) ==
  /\ Goto(w, "leave", "done")
  /\ wk' = [wk EXCEPT ![w] = NewWorker]
  /\ UNCHANGED <<shared, channel, ending, client>>

\* start's closer goroutine: once every worker returned, close the channel.
CloseOut ==
  /\ \A w \in Workers : pc[w] = "done"
  /\ ~closed
  /\ closed' = TRUE
  /\ UNCHANGED <<shared, pc, wk, out, ending, client>>

-----------------------------------------------------------------------------
\* All: receive a trial, tally it and yield it; the consumer goes on, or breaks
\* (or panics), which stops the run.
Receive(breaks) ==
  /\ consumer = "ranging"
  /\ out # << >>
  /\ out' = Tail(out)
  /\ yielded' = Append(yielded, Head(out))
  /\ consumer' = IF breaks THEN "draining" ELSE "ranging"
  /\ IF breaks THEN StopRun("consumer") ELSE UNCHANGED stop
  /\ UNCHANGED <<run, shared, pc, wk, closed, ctxDone, fatal>>

\* All: the channel is closed and empty, so the range ends.
RangeEnds ==
  /\ consumer = "ranging"
  /\ closed /\ out = << >>
  /\ consumer' = "returned"
  /\ StopRun("end")
  /\ UNCHANGED <<run, shared, pc, wk, channel, ctxDone, fatal, yielded>>

\* All's deferred function drops what the workers still deliver.
Drain ==
  /\ consumer = "draining"
  /\ \/ out # << >> /\ out' = Tail(out) /\ UNCHANGED consumer
     \/ out = << >> /\ closed /\ consumer' = "returned" /\ UNCHANGED out
  /\ UNCHANGED <<run, shared, pc, wk, closed, ending, yielded>>

\* The caller's context is cancelled or passes its deadline.
Cancel ==
  /\ ~ctxDone
  /\ consumer # "returned"
  /\ ctxDone' = TRUE
  /\ UNCHANGED <<shared, pc, wk, channel, stop, fatal, client>>

Returned == consumer = "returned" /\ UNCHANGED vars

WorkerStep(w) ==
  \/ Draw(w) \/ Begin(w)
  \/ AcquireHeld(w) \/ (\E r \in BOOLEAN : AcquireOk(w, r)) \/ Acquired(w)
  \/ \E o \in {"lost", "cancelled"} : AcquireFail(w, o)
  \/ \E o \in Outcomes :
       \/ WarmEnd(w, o) \/ SendFatal(w, o) \/ SendEnd(w, o)
       \/ SendStale(w, o) \/ SendReplace(w, o)
  \/ EmitWarm(w) \/ Emit(w) \/ EmitStopped(w)
  \/ Terminal(w) \/ Abort(w) \/ Leave(w)

Next ==
  \/ \E w \in Workers : WorkerStep(w)
  \/ CloseOut
  \/ \E b \in BOOLEAN : Receive(b)
  \/ RangeEnds \/ Drain \/ Cancel \/ Returned

\* Some goroutine of the run that can go on does, an acquisition and an attempt
\* eventually end, and the consumer's loop body returns.
Fairness ==
  WF_vars(\/ \E w \in Workers : WorkerStep(w)
          \/ CloseOut
          \/ \E b \in BOOLEAN : Receive(b)
          \/ RangeEnds \/ Drain)

Spec == Init /\ [][Next]_vars
FairSpec == Spec /\ Fairness

-----------------------------------------------------------------------------
Measured(t) == t.index # noCoord

\* What the consumer gets is a campaign: a measured trial is yielded at most once
\* and lies within the bound, however often stale connections, replacements and
\* early stops repeat its batch, and it follows the outcomes of all priming
\* batches on its own connection, reused ones included, with none after it.
PrimedThenOnce ==
  /\ \A i \in 1..Len(yielded) : yielded[i].index < run.trials
  /\ \A i, j \in 1..Len(yielded) :
       Measured(yielded[i]) /\ yielded[i].index = yielded[j].index => i = j
  /\ \A i \in 1..Len(yielded) : Measured(yielded[i]) =>
       /\ run.warmup = Cardinality({j \in 1..i - 1 :
                     ~Measured(yielded[j]) /\ yielded[j].conn = yielded[i].conn})
       /\ \A j \in i + 1..Len(yielded) :
            yielded[j].conn = yielded[i].conn => Measured(yielded[j])

\* All returns only after every connection was released and every worker left.
ReleasedOnReturn ==
  consumer = "returned" =>
    /\ \A w \in Workers : pc[w] = "done" /\ ~Held(w)
    /\ out = << >>

\* A run that ends by itself is complete: unless the consumer stopped it or Err
\* tells why, all trials of the bound were yielded.
CompleteOrExplained ==
  consumer = "returned" /\ stop = "end" =>
    /\ fatal = "none"
    /\ {yielded[i].index : i \in 1..Len(yielded)} \ {noCoord} = 0..run.trials - 1

\* All returns, though any number of attempts may fail: no worker, closer or consumer
\* waits for one that is gone, and a target that kills every connection is asked for
\* two per trial at most, for once the replacement of a pending trial is lost too the
\* run ends.  Only a pooled connection that proves stale is exchanged on top.
AllReturns ==
  /\ <>(consumer = "returned")
  /\ [](\A n \in {run.trials, nextBlock * Unit} : nextConn - (MaxReused - reuses) <= 2 * n)
=============================================================================
