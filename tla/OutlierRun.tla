----------------------------- MODULE OutlierRun -----------------------------
(***************************************************************************)
(* One in-memory outlier run (src/internal/ranking): the callers of        *)
(* Advance and Close, the serving goroutine with its atomic waves or its   *)
(* rolling window, and one goroutine per comparison.                       *)
(*                                                                         *)
(* A worker returns a ranking, fails, or is cancelled with the advance.    *)
(* Identify is one advance of a private run followed by Close.             *)
(***************************************************************************)
EXTENDS OutlierSolver

CONSTANTS
  Configs,      \* solver settings, one of which is chosen
  Callers,      \* goroutines that call Advance
  Budgets,      \* comparisons they ask for
  Channel,      \* profile.MaxConcurrency
  MaxTotal,     \* math.MaxInt / width
  Every,        \* the progress cadence, in comparisons
  MaxAdvances,  \* calls of Advance
  MaxFaults     \* failed comparisons and cancelled callers

ASSUME RunAssumption ==
  /\ Callers # {} /\ Budgets \subseteq Nat \ {0}
  /\ Channel \in Int /\ MaxTotal \in Nat \ {0} /\ Every \in Nat
  /\ \A c \in Configs : /\ c.dir \in {"Late", "Early", "Either"}
                        /\ c.supply \in Nat /\ c.reserve \in Nat
                        /\ {c.rolling, c.cleanOnly, c.confirm} \subseteq BOOLEAN

VARIABLES
  cfg,      \* the solver and the request
  ev,       \* the evidence
  srv,      \* the serving goroutine
  count,    \* comparisons, launched, trancheEnd and the cost counters
  workers,  \* comparison goroutines
  results,  \* the results channel
  held,     \* outcomes received and not yet folded: wave or buffered
  run,      \* the run's flags: lifetime done, closed, advancing
  call,     \* the callers
  closer,   \* the caller of Close
  told,     \* the cadence anchor and the last snapshot delivered
  seen      \* what the channel did: completed calls, folded indices, clean wins, faults

vars == <<cfg, ev, srv, count, workers, results, held, run, call, closer, told, seen>>

Window == ResolveConcurrency(Channel, 0, MaxTotal)
NoReply == [outcome |-> "none", item |-> NoItem, cost |-> 0, err |-> "none"]
Identifying == cfg.rolling
Offers == IF Identifying THEN {MaxTotal} ELSE Budgets

Cancelled == srv.cancelled \/ call[srv.cur].gone
Sizes(outs) == Cardinality(UNION {{o} \X o.items : o \in outs})

Init ==
  /\ cfg \in Configs
  /\ ev = InitialEvidence(cfg)
  /\ srv = [phase |-> "init", cur |-> CHOOSE c \in Callers : TRUE, nominee |-> NoItem,
            pending |-> FALSE, cancelled |-> FALSE, found |-> NoItem, err |-> "none", updated |-> {}]
  /\ count = [done |-> 0, launched |-> 0, end |-> 0, places |-> 0, discarded |-> 0, lost |-> 0]
  /\ workers = {} /\ results = {} /\ held = {}
  /\ run = [lifetime |-> FALSE, closed |-> FALSE, advancing |-> FALSE]
  /\ call = [c \in Callers |-> [pc |-> "idle", budget |-> 0, gone |-> FALSE, reply |-> NoReply]]
  /\ closer = "no"
  /\ told = [last |-> 0, shown |-> 0]
  /\ seen = [completed |-> 0, places |-> 0, folded |-> <<>>, faults |-> 0, advances |-> 0,
             wins |-> [c \in Candidates |-> 0]]

----------------------------------------------------------------------------
(* Advance and Close. *)

Fails(err) == [NoReply EXCEPT !.outcome = "error", !.err = err]

\* start: the goroutine answers on init before the run exists.
ServeInit ==
  /\ srv.phase = "init"
  /\ srv' = [srv EXCEPT !.phase = IF Rejected(cfg) THEN "refused" ELSE "idle"]
  /\ UNCHANGED <<cfg, ev, count, workers, results, held, run, call, closer, told, seen>>

\* The flags are tested under the mutex; an accepted call then offers its command.
Advance(c, b) ==
  /\ srv.phase \notin {"init", "refused"}
  /\ call[c].pc = "idle" /\ (Identifying => c = srv.cur)
  /\ seen.advances < (IF Identifying THEN 1 ELSE MaxAdvances)
  /\ seen' = [seen EXCEPT !.advances = @ + 1]
  /\ LET refusal == IF run.closed THEN "closed" ELSE IF run.advancing THEN "busy" ELSE "none"
     IN IF refusal # "none"
        THEN /\ call' = [call EXCEPT ![c].reply = Fails(refusal)]
             /\ UNCHANGED run
        ELSE /\ run' = [run EXCEPT !.advancing = TRUE]
             /\ call' = [call EXCEPT ![c] = [pc |-> "send", budget |-> b,
                                             gone |-> FALSE, reply |-> NoReply]]
  /\ UNCHANGED <<cfg, ev, srv, count, workers, results, held, closer, told>>

CancelCaller(c) ==
  /\ call[c].pc \in {"send", "wait"} /\ ~call[c].gone
  /\ seen.faults < MaxFaults
  /\ call' = [call EXCEPT ![c].gone = TRUE]
  /\ seen' = [seen EXCEPT !.faults = @ + 1]
  /\ UNCHANGED <<cfg, ev, srv, count, workers, results, held, run, closer, told>>

\* The other arms of the send: the caller's context, or the run is done.
GiveUp(c) ==
  /\ call[c].pc = "send"
  /\ call[c].gone \/ srv.phase = "exited"
  /\ \E err \in (IF call[c].gone THEN {"ctx"} ELSE {}) \cup
                (IF srv.phase = "exited" THEN {"closed"} ELSE {}) :
       call' = [call EXCEPT ![c].pc = "idle", ![c].reply = Fails(err)]
  /\ run' = [run EXCEPT !.advancing = FALSE]
  /\ UNCHANGED <<cfg, ev, srv, count, workers, results, held, closer, told, seen>>

\* Anything but a pause closes the run; Identify calls a pause inconclusive.
Return(c) ==
  /\ call[c].pc = "wait" /\ call[c].reply.outcome # "none"
  /\ run' = [run EXCEPT !.closed = @ \/ call[c].reply.outcome # "paused", !.advancing = FALSE]
  /\ call' = [call EXCEPT ![c].pc = "idle",
                          ![c].reply.outcome = IF Identifying /\ @ = "paused" THEN "inconclusive" ELSE @]
  /\ UNCHANGED <<cfg, ev, srv, count, workers, results, held, closer, told, seen>>

\* Marks the run without cancelling its lifetime.
ClosingQuietly == [run EXCEPT !.closed = TRUE]

Closing == [run EXCEPT !.lifetime = @ \/ ~run.closed, !.closed = TRUE]

\* A second Close only waits; Identify defers it until its advance returned.
Close ==
  /\ srv.phase \notin {"init", "refused"}
  /\ closer = "no"
  /\ Identifying => seen.advances = 1 /\ \A c \in Callers : call[c].pc = "idle"
  /\ closer' = "waiting"
  /\ run' = Closing
  /\ UNCHANGED <<cfg, ev, srv, count, workers, results, held, call, told, seen>>

CloseReturns ==
  /\ closer = "waiting" /\ srv.phase = "exited"
  /\ closer' = "closed"
  /\ UNCHANGED <<cfg, ev, srv, count, workers, results, held, run, call, told, seen>>

----------------------------------------------------------------------------
(* The comparison goroutines. *)

Deliver(w, ranks, err) ==
  /\ workers' = workers \ {w}
  /\ results' = results \cup
       {[index |-> w.index, items |-> w.items, confirming |-> w.confirming,
         ranks |-> ranks, err |-> err]}
  /\ UNCHANGED <<cfg, ev, srv, count, held, run, call, closer, told>>

CompareReturns(w) ==
  /\ ValidArrangement(w.items, cfg.supply)
  /\ \E ranks \in Rankings(w.items) : Deliver(w, ranks, "none")
  /\ seen' = [seen EXCEPT !.completed = @ + 1, !.places = @ + Cardinality(w.items)]

CompareFails(w) ==
  /\ seen.faults < MaxFaults
  /\ Deliver(w, <<>>, "fail")
  /\ seen' = [seen EXCEPT !.faults = @ + 1]

CompareCancelled(w) ==
  /\ Cancelled
  /\ Deliver(w, <<>>, "canceled")
  /\ UNCHANGED seen

\* context.AfterFunc hands the end of the run's lifetime to the advance.
LifetimeCancels ==
  /\ run.lifetime /\ srv.phase \notin {"init", "idle", "exited"} /\ ~srv.cancelled
  /\ srv' = [srv EXCEPT !.cancelled = TRUE]
  /\ UNCHANGED <<cfg, ev, count, workers, results, held, run, call, closer, told, seen>>

----------------------------------------------------------------------------
(* Serving: planning. *)

Looping == IF cfg.rolling THEN "fill" ELSE "plan"

ServeStop ==
  /\ srv.phase = "idle" /\ run.lifetime
  /\ srv' = [srv EXCEPT !.phase = "exited"]
  /\ UNCHANGED <<cfg, ev, count, workers, results, held, run, call, closer, told, seen>>

\* A tranche that could overflow the counters ends the run instead.
TakeCommand(c) ==
  /\ srv.phase = "idle" /\ call[c].pc = "send"
  /\ IF call[c].budget > MaxTotal - count.done
     THEN /\ call' = [call EXCEPT ![c].pc = "wait", ![c].reply = Fails("overflow")]
          /\ srv' = [srv EXCEPT !.phase = "exited", !.cur = c]
          /\ UNCHANGED count
     ELSE /\ call' = [call EXCEPT ![c].pc = "wait"]
          /\ srv' = [srv EXCEPT !.phase = Looping, !.cur = c, !.cancelled = FALSE,
                                !.found = NoItem, !.err = "none", !.pending = FALSE]
          /\ count' = [count EXCEPT !.end = count.done + call[c].budget,
                                    !.launched = count.done, !.discarded = 0, !.lost = 0]
  /\ UNCHANGED <<cfg, ev, workers, results, held, run, closer, told, seen>>

Start(items, confirming) ==
  /\ workers' = workers \cup {[index |-> count.launched, items |-> items, confirming |-> confirming]}
  /\ count' = [count EXCEPT !.launched = @ + 1]
  /\ UNCHANGED <<cfg, results, held, run, call, closer, told, seen>>

\* The head of a wave fixes the nominee it may confirm.
PlanWave ==
  /\ srv.phase = "plan"
  /\ IF count.launched < count.end /\ ev.active # {} /\ ~Cancelled
     THEN \E nominee \in (IF Nominees(cfg, ev) = {} THEN {NoItem} ELSE Nominees(cfg, ev)) :
            /\ srv' = [srv EXCEPT !.phase = "wave", !.nominee = nominee]
            /\ ev' = [ev EXCEPT !.discovered = @ /\ nominee = NoItem]
     ELSE srv' = [srv EXCEPT !.phase = "reply"] /\ UNCHANGED ev
  /\ UNCHANGED <<cfg, count, workers, results, held, run, call, closer, told, seen>>

WaveLaunch ==
  /\ srv.phase = "wave"
  /\ count.launched - count.done < Min({Window, count.end - count.done})
  /\ IF srv.nominee # NoItem /\ count.launched = count.done
     THEN Start(Confirmation(cfg, srv.nominee), srv.nominee) /\ UNCHANGED ev
     ELSE /\ \E items \in Discoveries(cfg, ev) : Start(items, NoItem)
          /\ ev' = [ev EXCEPT !.discovered = TRUE]
  /\ UNCHANGED srv

WaveLaunched ==
  /\ srv.phase = "wave"
  /\ count.launched - count.done = Min({Window, count.end - count.done})
  /\ srv' = [srv EXCEPT !.phase = "gather"]
  /\ UNCHANGED <<cfg, ev, count, workers, results, held, run, call, closer, told, seen>>

\* fillWindow's condition: undecided comparisons stay within the window.
CanFill ==
  /\ count.launched < count.end /\ count.launched - count.done < Window
  /\ ev.active # {} /\ ~Cancelled

\* A rolling dispatch confirms a nominee unless a confirmation is out.
RollLaunch ==
  /\ srv.phase = "fill" /\ CanFill
  /\ IF Nominees(cfg, ev) # {} /\ ~srv.pending
     THEN /\ \E nominee \in Nominees(cfg, ev) : Start(Confirmation(cfg, nominee), nominee)
          /\ srv' = [srv EXCEPT !.pending = TRUE]
          /\ UNCHANGED ev
     ELSE /\ \E items \in Discoveries(cfg, ev) :
               /\ Start(items, NoItem)
               /\ ev' = [ev EXCEPT !.uncovered = (@ \cap ev.active) \ items]
          /\ UNCHANGED srv

AfterFill == IF count.done < count.launched /\ ev.active # {} /\ ~Cancelled THEN "collect" ELSE "drain"

RollFilled ==
  /\ srv.phase = "fill" /\ ~CanFill
  /\ srv' = [srv EXCEPT !.phase = AfterFill, !.cancelled = @ \/ AfterFill = "drain"]
  /\ UNCHANGED <<cfg, ev, count, workers, results, held, run, call, closer, told, seen>>

----------------------------------------------------------------------------
(* Serving: folding. *)

\* The lowest dispatch index wins, with induced cancellations a fallback.
Failure(outs) ==
  LET failed == {o \in outs : o.err # "none"}
      real == {o \in failed : o.err = "fail"}
      pool == IF real # {} THEN real ELSE failed
  IN IF pool = {} THEN "none"
     ELSE (CHOOSE o \in pool : \A p \in pool : o.index <= p.index).err

LoopError(outs) ==
  IF call[srv.cur].gone THEN "ctx" ELSE IF run.lifetime THEN "lifetime" ELSE Failure(outs)

\* ReportIfDue in comparison mode.
Due(done) ==
  IF done - told.last >= Every THEN [last |-> done, shown |-> done] ELSE told

\* Counts outcomes into cost and evidence, and keeps an independent account.
Fold(outs, next) ==
  LET order == [i \in 1..Cardinality(outs) |-> CHOOSE o \in outs :
                 Cardinality({p \in outs : p.index < o.index}) = i - 1]
      clean(c) == {o \in outs : Observes(ev, o, c) /\ Controls(o.items) # {} /\ Score(o.ranks, c) # 0}
  IN /\ ev' = [Apply(ev, order) EXCEPT
                !.discovered = IF cfg.rolling THEN order[1].confirming = NoItem ELSE @]
     /\ count' = [count EXCEPT !.done = @ + Cardinality(outs), !.places = @ + Sizes(outs)]
     /\ srv' = [next EXCEPT !.updated = @ \cup Updated(ev, order)]
     /\ seen' = [seen EXCEPT !.folded = @ \o [i \in DOMAIN order |-> order[i].index],
                             !.wins = [c \in Candidates |-> @[c] + Cardinality(clean(c))]]

\* A commit ends the advance before any elimination.
SettleEvidence ==
  /\ srv.phase = "settle"
  /\ told' = Due(count.done)
  /\ \/ \E c \in Committed(cfg, ev) :
          /\ srv' = [srv EXCEPT !.found = c, !.phase = IF cfg.rolling THEN "drain" ELSE "reply",
                                !.cancelled = @ \/ cfg.rolling]
          /\ UNCHANGED ev
     \/ /\ Committed(cfg, ev) = {}
        /\ ev' = Eliminate(cfg, ev, srv.updated)
        /\ srv' = LET over == cfg.rolling /\ ev'.active = {}
                  IN [srv EXCEPT !.phase = IF over THEN "drain" ELSE Looping, !.cancelled = @ \/ over]
  /\ UNCHANGED <<cfg, count, workers, results, held, run, call, closer, seen>>

WaveReceive(o) ==
  /\ srv.phase = "gather"
  /\ results' = results \ {o}
  /\ held' = held \cup {o}
  /\ srv' = [srv EXCEPT !.cancelled = @ \/ o.err # "none"]
  /\ UNCHANGED <<cfg, ev, count, workers, run, call, closer, told, seen>>

WaveComplete == srv.phase = "gather" /\ Cardinality(held) = count.launched - count.done

\* A wave is all or nothing: one error discards it.
WaveFold ==
  /\ WaveComplete
  /\ held' = {}
  /\ IF LoopError(held) # "none"
     THEN /\ srv' = [srv EXCEPT !.phase = "reply", !.err = LoopError(held)]
          /\ UNCHANGED <<ev, count, seen>>
     ELSE Fold(held, [srv EXCEPT !.phase = "settle", !.updated = {}])
  /\ UNCHANGED <<cfg, workers, results, run, call, closer, told>>

\* Folds whatever has arrived.
FoldAny(o) == TRUE

\* Only the next dispatch index may be folded.
FoldNext(o) == o.index = count.done

\* Rolling receive: takes all that is ready; one failure ends the advance.
RollReceive ==
  /\ srv.phase = "collect" /\ results # {}
  /\ results' = {} /\ held' = held \cup results
  /\ srv' = IF \E o \in results : o.err # "none"
            THEN [srv EXCEPT !.phase = "drain", !.err = "pending", !.cancelled = TRUE]
            ELSE IF \E o \in held' : FoldNext(o)
            THEN [srv EXCEPT !.phase = "fold", !.updated = {}]
            ELSE [srv EXCEPT !.phase = "fill"]
  /\ UNCHANGED <<cfg, ev, count, workers, run, call, closer, told, seen>>

\* The ready dispatch prefix is folded one comparison at a time, then settled.
RollFold ==
  /\ srv.phase = "fold"
  /\ \/ \E o \in held :
          /\ FoldNext(o)
          /\ held' = held \ {o}
          /\ Fold({o}, [srv EXCEPT !.pending = @ /\ o.confirming = NoItem])
     \/ /\ \A o \in held : ~FoldNext(o)
        /\ srv' = [srv EXCEPT !.phase = "settle"]
        /\ UNCHANGED <<ev, count, held, seen>>
  /\ UNCHANGED <<cfg, workers, results, run, call, closer, told>>

DrainComplete == workers = {}

\* Dropped outcomes are not counted.
DiscardFree(outs) == [count EXCEPT !.launched = @ - Cardinality(outs)]

\* What a decided run threw away still was physical work.
Discard(outs) ==
  [count EXCEPT !.launched = @ - Cardinality(outs),
     !.discarded = Cardinality({o \in outs : o.err = "none"}),
     !.lost = Sizes({o \in outs : o.err = "none"})]

Drain ==
  /\ srv.phase = "drain" /\ DrainComplete
  /\ LET drained == held \cup results
     IN /\ srv' = [srv EXCEPT !.phase = "reply",
                              !.err = IF @ = "pending" THEN LoopError(drained) ELSE @]
        /\ count' = IF srv.found # NoItem \/ ev.active = {} THEN Discard(drained) ELSE DiscardFree(drained)
  /\ held' = {} /\ results' = {}
  /\ UNCHANGED <<cfg, ev, workers, run, call, closer, told, seen>>

\* A commit outranks a cancellation, which outranks the other outcomes.
Answer ==
  LET err == IF srv.err # "none" THEN srv.err ELSE LoopError({})
      cost == count.done + count.discarded
      outcome == IF srv.found # NoItem THEN "found"
                 ELSE IF err # "none" THEN "error"
                 ELSE IF ev.active = {} THEN "negative" ELSE "paused"
  IN [outcome |-> outcome, item |-> IF outcome = "found" THEN srv.found ELSE NoItem,
      cost |-> IF outcome = "error" THEN 0 ELSE cost,
      err |-> IF outcome = "error" THEN err ELSE "none"]

Reply ==
  /\ srv.phase = "reply"
  /\ call' = [call EXCEPT ![srv.cur].reply = Answer]
  /\ srv' = [srv EXCEPT !.phase = IF Answer.outcome = "paused" THEN "idle" ELSE "exited",
                        !.cancelled = TRUE]
  /\ told' = CASE Answer.outcome = "error" -> told
               [] Answer.outcome = "paused" -> [last |-> count.done, shown |-> count.done]
               [] OTHER -> [told EXCEPT !.shown = Answer.cost]
  /\ UNCHANGED <<cfg, ev, count, workers, results, held, run, closer, seen>>

----------------------------------------------------------------------------

Serve ==
  \/ ServeInit \/ ServeStop \/ PlanWave \/ WaveLaunch \/ WaveLaunched \/ RollLaunch
  \/ RollFilled \/ SettleEvidence \/ WaveFold \/ RollReceive \/ RollFold \/ Drain \/ Reply \/ LifetimeCancels
  \/ \E c \in Callers : TakeCommand(c)
  \/ \E o \in results : WaveReceive(o)

Compare == \E w \in workers : CompareReturns(w) \/ CompareFails(w) \/ CompareCancelled(w)

Ending == CloseReturns \/ \E c \in Callers : GiveUp(c) \/ Return(c)

Runs == Serve \/ Compare \/ Ending

Next ==
  \/ Runs \/ Close
  \/ \E c \in Callers : CancelCaller(c) \/ \E b \in Offers : Advance(c, b)

\* Goroutines run and comparisons end; nobody has to call.
Spec == Init /\ [][Next]_vars /\ WF_vars(Runs)

----------------------------------------------------------------------------
(* Properties. *)

\* Evidence is folded in dispatch order without gap or repetition, however the
\* comparison goroutines finish (rolling window and atomic waves).  Between
\* advances no goroutine, undelivered result or buffered outcome is left, and
\* during one they never exceed the window, so a send on results cannot block.
FoldedInDispatchOrder ==
  /\ seen.folded = [i \in 1..count.done |-> i - 1]
  /\ srv.phase \in {"idle", "exited", "refused"} => workers = {} /\ results = {} /\ held = {}
  /\ Cardinality(workers \cup results \cup held) <= Window

\* A find names an active item, with a clean-only solver on enough clean
\* observations of its own; a negative was reached through every item.
Earned(r) ==
  /\ r.outcome = "found" =>
       /\ r.item \in ev.active
       /\ cfg.cleanOnly => seen.wins[r.item] >= CommitAt
  /\ r.outcome = "negative" =>
       \A i \in Candidates : \A d \in Dirs(cfg) : ev.neg[d][i] >= ElimAt

\* A reply is what happened: its decision was earned, its cost is the number of
\* comparisons the channel completed, its last snapshot was delivered first, and
\* a failure names a comparison that failed rather than one cancelled because of
\* it.
RepliesAccount ==
  \A c \in Callers : LET r == call[c].reply IN
    /\ Earned(r)
    /\ call[c].pc = "wait" /\ r.outcome \notin {"none", "error"} =>
         /\ r.cost = seen.completed
         /\ count.places + count.lost = seen.places
         /\ told.shown = r.cost
    /\ r.err # "canceled"

\* Every Advance and every Close returns, whatever was cancelled meanwhile.
CallsReturn ==
  /\ \A c \in Callers : (call[c].pc # "idle") ~> (call[c].pc = "idle")
  /\ (closer = "waiting") ~> (closer = "closed")
=============================================================================
