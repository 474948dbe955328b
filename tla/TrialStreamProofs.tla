-------------------------- MODULE TrialStreamProofs -------------------------
(***************************************************************************)
(* Proofs about TrialStream for every number of workers, trials, priming   *)
(* batches and failures.                                                   *)
(***************************************************************************)
EXTENDS TrialStream, FiniteSetTheorems, SequenceTheorems, TLAPS

\* The variables indexed by worker are functions on the workers.
Shape ==
  /\ pc \in [Workers -> Places]
  /\ wk = [w \in Workers |-> wk[w]]

\* A worker that has left holds nothing, the channel is closed only when all
\* have left, and All returns only from a closed and drained channel.
RunInv ==
  /\ Shape
  /\ \A w \in Workers : pc[w] = "done" => wk[w].conn = NoConn
  /\ closed => \A w \in Workers : pc[w] = "done"
  /\ consumer = "returned" => closed /\ out = << >>

\* What the step of a worker w that has not left does to the run: it moves and
\* changes its own variables only, and it leaves with nothing in its hands.
Moves(w) ==
  /\ pc[w] # "done"
  /\ \E to \in Places : /\ pc' = [pc EXCEPT ![w] = to]
                        /\ to = "done" => wk'[w].conn = NoConn
  /\ \E t : wk' = [wk EXCEPT ![w] = t]
  /\ UNCHANGED <<closed, consumer>>

\* Every step of a worker is such a move: in particular the deferred release of
\* connOwner is the only way out of work.
LEMMA WorkerMoves ==
  ASSUME Shape, NEW w \in Workers, WorkerStep(w)
  PROVE  Moves(w)
<1> USE DEF Shape, Moves, Goto, Places, shared, channel, ending, client
<1>1. CASE Draw(w) \/ Begin(w)
  BY <1>1 DEF Draw, Begin
<1>2. CASE AcquireHeld(w) \/ Acquired(w)
  BY <1>2 DEF AcquireHeld, Acquired
<1>3. ASSUME NEW r \in BOOLEAN, AcquireOk(w, r) PROVE Moves(w)
  BY <1>3 DEF AcquireOk
<1>4. ASSUME NEW o, AcquireFail(w, o) PROVE Moves(w)
  BY <1>4 DEF AcquireFail
<1>5. ASSUME NEW o, WarmEnd(w, o) PROVE Moves(w)
  BY <1>5 DEF WarmEnd
<1>6. ASSUME NEW o, SendFatal(w, o) \/ SendEnd(w, o) \/ SendStale(w, o)
      PROVE Moves(w)
  BY <1>6 DEF SendFatal, SendEnd, SendStale
<1>7. ASSUME NEW o, SendReplace(w, o) PROVE Moves(w)
  BY <1>7 DEF SendReplace, Replace
<1>8. CASE EmitWarm(w)
  <2>1. WarmNext(w) \in Places
    BY DEF WarmNext
  <2> QED
    BY <1>8, <2>1 DEF EmitWarm, Send, Replace, WarmNext
<1>9. CASE Emit(w)
  BY <1>9 DEF Emit, Send
<1>10. CASE EmitStopped(w)
  BY <1>10 DEF EmitStopped
<1>11. CASE Terminal(w) \/ Abort(w)
  BY <1>11 DEF Terminal, Abort
<1>12. CASE Leave(w)
  BY <1>12 DEF Leave, NewWorker
<1> QED
  BY <1>1, <1>2, <1>3, <1>4, <1>5, <1>6, <1>7, <1>8, <1>9, <1>10, <1>11, <1>12
  DEF WorkerStep

\* A new run has started its workers and closed nothing.
LEMMA InitRun == Init => RunInv
BY DEF Init, RunInv, Shape, Places, NewWorker

\* The ordering of release, close and return survives every step.
LEMMA NextRun == RunInv /\ [Next]_vars => RunInv'
<1> SUFFICES ASSUME RunInv, [Next]_vars PROVE RunInv'
  OBVIOUS
<1> USE DEF RunInv, Shape
<1>1. ASSUME NEW w \in Workers, WorkerStep(w) PROVE RunInv'
  <2>1. Moves(w)
    BY <1>1, WorkerMoves
  <2>2. ~closed /\ ~closed' /\ consumer # "returned" /\ consumer' # "returned"
    BY <2>1 DEF Moves
  <2>3. Shape'
    BY <2>1 DEF Moves
  <2>4. ASSUME NEW v \in Workers, pc'[v] = "done" PROVE wk'[v].conn = NoConn
    BY <2>1, <2>4 DEF Moves
  <2> QED
    BY <2>2, <2>3, <2>4
<1>2. CASE CloseOut
  BY <1>2 DEF CloseOut, client
<1>3. ASSUME NEW b \in BOOLEAN, Receive(b) PROVE RunInv'
  BY <1>3 DEF Receive
<1>4. CASE RangeEnds
  BY <1>4 DEF RangeEnds, channel
<1>5. CASE Drain
  BY <1>5 DEF Drain
<1>6. CASE Cancel
  BY <1>6 DEF Cancel, channel, client
<1>7. CASE Returned \/ UNCHANGED vars
  BY <1>7 DEF Returned, vars
<1> QED
  BY <1>1, <1>2, <1>3, <1>4, <1>5, <1>6, <1>7 DEF Next

-----------------------------------------------------------------------------
\* All returns only after every worker left, every connection was given up and
\* the channel was drained, whatever stopped the run.
THEOREM RunReleased == Spec => []ReleasedOnReturn
<1>1. RunInv => ReleasedOnReturn
  BY DEF RunInv, ReleasedOnReturn, Held
<1> QED
  BY <1>1, InitRun, NextRun, PTL DEF Spec

-----------------------------------------------------------------------------
(* What a run delivers: each trial at most once and after the priming of   *)
(* its connection, and all of them unless the run says why not.            *)
(*                                                                         *)
(* The arguments are about the sequence of trials that the consumer has    *)
(* seen or will see if it goes on.                                         *)

\* What the consumer has got, and what it gets from the channel if it goes on.
Delivered == IF consumer = "ranging" THEN yielded \o out ELSE yielded

\* The places where a worker has a trial to finish.
Active == Places \ {"draw", "leave", "done"}

\* The worker's next priming batch or trial is on the connection wk[w].id: it has
\* acquired it for this trial, or holds it and goes on with it.
Priming == {"acquired", "warm", "emitWarm"}
LiveId(w) ==
  \/ pc[w] \in Priming \cup {"send", "emit"}
  \/ Held(w) /\ pc[w] \in {"draw", "trial", "acquire"}

\* Where a worker is says how far it got with its trial and its connection.
InStep(w) ==
  /\ pc[w] \in Active =>
       wk[w].shift < Unit /\ wk[w].block < nextBlock /\ BlockAvailable(wk[w].block)
  /\ pc[w] \in Active \ {"trial"} => Index(w) < run.trials
  /\ LiveId(w) => wk[w].id < nextConn
  /\ pc[w] = "acquired" => wk[w].primed = 0
  /\ pc[w] = "warm" => wk[w].primed < run.warmup
  /\ pc[w] = "emitWarm" => wk[w].primed > 0
  /\ LiveId(w) /\ pc[w] \notin Priming => wk[w].primed = run.warmup
  /\ wk[w].replaced = 2 => pc[w] \in {"terminal", "abort", "leave"}
LocalInv == \A w \in Workers : InStep(w)

\* No block and no connection is worked on by two workers.
SharedInv ==
  \A v, w \in Workers : v # w =>
    /\ pc[v] \in Active /\ pc[w] \in Active => wk[v].block # wk[w].block
    /\ LiveId(v) /\ LiveId(w) => wk[v].id # wk[w].id

\* The priming batches on connection c among the first n trials of s.
WarmUps(s, c, n) == {j \in 1..n : ~Measured(s[j]) /\ s[j].conn = c}

\* What was delivered is primed, and its indices and connections were handed out.
Primed(s) ==
  \A i \in 1..Len(s) :
    /\ s[i].conn < nextConn /\ s[i].index < run.trials
    /\ s[i].index < nextBlock * Unit
    /\ Measured(s[i]) =>
         /\ Cardinality(WarmUps(s, s[i].conn, i - 1)) = run.warmup
         /\ \A j \in i + 1..Len(s) : s[j].conn = s[i].conn => Measured(s[j])

\* A measured trial was delivered once, and no worker will deliver it again.
Once(s) ==
  /\ \A i, j \in 1..Len(s) : Measured(s[i]) /\ s[i].index = s[j].index => i = j
  /\ \A w \in Workers, i \in 1..Len(s) : pc[w] \in Active =>
       ~(Index(w) <= s[i].index /\ s[i].index < wk[w].block * Unit + Unit)

\* The connection of a worker was primed as often as the worker counts, and while
\* it is being primed nothing was measured on it.
Counted(s) ==
  \A w \in Workers : LiveId(w) =>
    /\ Cardinality(WarmUps(s, wk[w].id, Len(s)))
         = wk[w].primed - (IF pc[w] = "emitWarm" THEN 1 ELSE 0)
    /\ pc[w] \in Priming =>
         \A i \in 1..Len(s) : s[i].conn = wk[w].id => ~Measured(s[i])

\* Nothing has stopped the run before its bound.
Undisturbed == stop \in {"none", "end"}

\* Every trial of a block that was drawn was delivered or is being worked on.
Complete(s) ==
  \A b \in Nat, i \in 0..Unit - 1 : b * Unit + i < run.trials /\ b < nextBlock =>
    \/ \E w \in Workers : pc[w] \in Active /\ wk[w].block = b /\ wk[w].shift <= i
    \/ \E j \in 1..Len(s) : s[j].index = b * Unit + i

\* A run that nothing disturbed: its workers leave when all blocks are drawn.
EndInv ==
  /\ Undisturbed =>
       /\ fatal = "none" /\ consumer # "draining"
       /\ \A w \in Workers : pc[w] \in {"leave", "done"} => ~BlockAvailable(nextBlock)
  /\ stop = "end" => consumer = "returned"

\* What the workers have in hand and what was delivered fit together.
OrderInv ==
  /\ SharedInv /\ EndInv
  /\ Primed(Delivered) /\ Once(Delivered)
  /\ consumer = "ranging" => Counted(Delivered)
  /\ Undisturbed => Complete(Delivered)

\* The strengthening under which the two properties of what All yields are
\* inductive.
DeliveryInv == TypeOK /\ RunInv /\ LocalInv /\ OrderInv

-----------------------------------------------------------------------------
\* Only worker w changed its variables, and they keep their type.
Alone(w) ==
  /\ wk' \in [Workers -> Worker]
  /\ \A v \in Workers \ {w} : wk'[v] = wk[v]

\* It kept its trial and what it knows of its connection, which it may have lost.
Keeping(w) ==
  /\ Alone(w)
  /\ wk'[w].block = wk[w].block /\ wk'[w].shift = wk[w].shift
  /\ wk'[w].id = wk[w].id /\ wk'[w].primed = wk[w].primed
  /\ wk'[w].conn \in {wk[w].conn, NoConn}

LEMMA SetWorker ==
  ASSUME wk \in [Workers -> Worker], NEW w \in Workers, NEW t \in Worker,
         wk' = [wk EXCEPT ![w] = t]
  PROVE  Alone(w) /\ wk'[w] = t
BY DEF Alone

\* Draw sets the block and begins it.
LEMMA DrawSets ==
  ASSUME TypeOK, NEW w \in Workers, Draw(w)
  PROVE  /\ Alone(w)
         /\ wk'[w].block = nextBlock /\ wk'[w].shift = 0
         /\ wk'[w].id = wk[w].id /\ wk'[w].primed = wk[w].primed
         /\ wk'[w].conn = wk[w].conn /\ wk'[w].replaced = wk[w].replaced
<1> DEFINE t == [wk[w] EXCEPT !.block = nextBlock, !.shift = 0]
<1>1. wk[w] \in Worker /\ nextBlock \in Nat /\ wk \in [Workers -> Worker]
  BY DEF TypeOK
<1>2. t \in Worker /\ t.block = nextBlock /\ t.shift = 0 /\ t.id = wk[w].id
      /\ t.primed = wk[w].primed /\ t.conn = wk[w].conn /\ t.replaced = wk[w].replaced
  BY <1>1 DEF Worker
<1>3. wk' = [wk EXCEPT ![w] = t]
  BY DEF Draw
<1> QED
  BY <1>1, <1>2, <1>3, SetWorker

\* The head of a trial clears the number of replacements.
LEMMA BeginSets ==
  ASSUME TypeOK, NEW w \in Workers, Begin(w)
  PROVE  Keeping(w) /\ wk'[w].conn = wk[w].conn /\ wk'[w].replaced = 0
<1> DEFINE t == [wk[w] EXCEPT !.replaced = 0]
<1>1. wk[w] \in Worker /\ wk \in [Workers -> Worker]
  BY DEF TypeOK
<1>2. t \in Worker /\ t.block = wk[w].block /\ t.shift = wk[w].shift /\ t.id = wk[w].id
      /\ t.primed = wk[w].primed /\ t.conn = wk[w].conn /\ t.replaced = 0
  BY <1>1 DEF Worker
<1>3. wk' = [wk EXCEPT ![w] = t]
  BY DEF Begin
<1> QED
  BY <1>1, <1>2, <1>3, SetWorker DEF Keeping

\* Recording an outcome changes nothing else.
LEMMA OutcomeSets ==
  ASSUME TypeOK, NEW w \in Workers, NEW o \in Outcomes,
         wk' = [wk EXCEPT ![w].outcome = o]
  PROVE  /\ Keeping(w) /\ wk'[w].conn = wk[w].conn
         /\ wk'[w].replaced = wk[w].replaced
<1> DEFINE t == [wk[w] EXCEPT !.outcome = o]
<1>1. wk[w] \in Worker /\ wk \in [Workers -> Worker]
  BY DEF TypeOK
<1>2. t \in Worker /\ t.block = wk[w].block /\ t.shift = wk[w].shift /\ t.id = wk[w].id
      /\ t.primed = wk[w].primed /\ t.conn = wk[w].conn /\ t.replaced = wk[w].replaced
  BY <1>1 DEF Worker
<1>3. wk' = [wk EXCEPT ![w] = t]
  OBVIOUS
<1> QED
  BY <1>1, <1>2, <1>3, SetWorker DEF Keeping

\* acquire gives the worker a connection with an id of its own, not primed yet.
LEMMA AcquireSets ==
  ASSUME TypeOK, NEW w \in Workers, NEW r \in BOOLEAN, AcquireOk(w, r)
  PROVE  /\ Alone(w)
         /\ wk'[w].block = wk[w].block /\ wk'[w].shift = wk[w].shift
         /\ wk'[w].id = nextConn /\ wk'[w].primed = 0 /\ wk'[w].conn = nextConn
         /\ wk'[w].replaced = wk[w].replaced
<1> DEFINE t == [wk[w] EXCEPT !.conn = nextConn, !.id = nextConn, !.reused = r,
                              !.primed = 0, !.outcome = "ok"]
<1>1. wk[w] \in Worker /\ nextConn \in Nat /\ wk \in [Workers -> Worker]
      /\ "ok" \in Outcomes
  BY DEF TypeOK, Outcomes
<1>2. t \in Worker /\ t.block = wk[w].block /\ t.shift = wk[w].shift
      /\ t.id = nextConn /\ t.primed = 0 /\ t.conn = nextConn
      /\ t.replaced = wk[w].replaced
  BY <1>1 DEF Worker
<1>3. wk' = [wk EXCEPT ![w] = t]
  BY DEF AcquireOk
<1> QED
  BY <1>1, <1>2, <1>3, SetWorker

\* What connOwner.send leaves of a connection is typed, and may be none.
LEMMA DisposedSets ==
  ASSUME TypeOK, NEW w \in Workers, NEW o \in Outcomes, NEW left \in Outcomes
  PROVE  LET t == Disposed(w, o, left)
         IN  /\ t \in Worker
             /\ t.block = wk[w].block /\ t.shift = wk[w].shift /\ t.id = wk[w].id
             /\ t.primed = wk[w].primed /\ t.replaced = wk[w].replaced
             /\ t.conn = IF Keeps(o) THEN wk[w].conn ELSE NoConn
<1>1. wk[w] \in Worker
  BY DEF TypeOK
<1>2. (wk[w].reused /\ o = "padding") \in BOOLEAN
  OBVIOUS
<1> QED
  BY <1>1, <1>2 DEF Worker, Disposed

\* A priming batch that ended is counted.
LEMMA WarmEndSets ==
  ASSUME TypeOK, NEW w \in Workers, NEW o \in Outcomes, WarmEnd(w, o)
  PROVE  /\ Alone(w)
         /\ wk'[w].block = wk[w].block /\ wk'[w].shift = wk[w].shift
         /\ wk'[w].id = wk[w].id /\ wk'[w].primed = wk[w].primed + 1
         /\ wk'[w].replaced = wk[w].replaced
<1> DEFINE d == Disposed(w, o, o)
           t == [d EXCEPT !.primed = d.primed + 1]
<1>1. wk \in [Workers -> Worker]
  BY DEF TypeOK
<1>2. /\ d \in Worker
      /\ d.block = wk[w].block /\ d.shift = wk[w].shift /\ d.id = wk[w].id
      /\ d.primed = wk[w].primed /\ d.replaced = wk[w].replaced
  BY DisposedSets
<1>3. wk' = [wk EXCEPT ![w] = t]
  BY DEF WarmEnd
<1> HIDE DEF d
<1>4. t \in Worker /\ t.block = wk[w].block /\ t.shift = wk[w].shift
      /\ t.id = wk[w].id /\ t.primed = wk[w].primed + 1
      /\ t.replaced = wk[w].replaced
  BY <1>2 DEF Worker
<1> QED
  BY <1>1, <1>3, <1>4, SetWorker

\* A measured batch that ended leaves the worker its trial.
LEMMA SendSets ==
  ASSUME TypeOK, NEW w \in Workers, NEW o \in Outcomes, NEW left \in Outcomes,
         wk' = [wk EXCEPT ![w] = Disposed(w, o, left)]
  PROVE  /\ Keeping(w) /\ wk'[w].replaced = wk[w].replaced
         /\ wk'[w].conn = IF Keeps(o) THEN wk[w].conn ELSE NoConn
<1> DEFINE t == Disposed(w, o, left)
<1>1. wk \in [Workers -> Worker] /\ wk' = [wk EXCEPT ![w] = t]
  BY DEF TypeOK
<1>2. /\ t \in Worker
      /\ t.block = wk[w].block /\ t.shift = wk[w].shift /\ t.id = wk[w].id
      /\ t.primed = wk[w].primed /\ t.replaced = wk[w].replaced
      /\ t.conn = IF Keeps(o) THEN wk[w].conn ELSE NoConn
  BY DisposedSets
<1> HIDE DEF t
<1>3. Alone(w) /\ wk'[w] = t
  BY <1>1, <1>2, SetWorker
<1> QED
  BY <1>2, <1>3 DEF Keeping

\* A replacement is counted, in SendReplace and in EmitWarm.
LEMMA ReplaceSets ==
  ASSUME TypeOK, NEW w \in Workers, NEW d \in Worker, NEW n \in 0..2,
         wk' = [wk EXCEPT ![w] = [d EXCEPT !.replaced = n]],
         d.block = wk[w].block, d.shift = wk[w].shift, d.id = wk[w].id,
         d.primed = wk[w].primed, d.conn \in {wk[w].conn, NoConn}
  PROVE  Keeping(w) /\ wk'[w].replaced = n /\ wk'[w].conn = d.conn
<1> DEFINE t == [d EXCEPT !.replaced = n]
<1>1. wk \in [Workers -> Worker]
  BY DEF TypeOK
<1>2. t \in Worker /\ t.block = wk[w].block /\ t.shift = wk[w].shift /\ t.id = wk[w].id
      /\ t.primed = wk[w].primed /\ t.conn = d.conn /\ t.replaced = n
  BY DEF Worker
<1> QED
  BY <1>1, <1>2, SetWorker DEF Keeping

\* A delivered trial ends its turn of the block.
LEMMA EmitSets ==
  ASSUME TypeOK, NEW w \in Workers, Emit(w)
  PROVE  /\ Alone(w)
         /\ wk'[w].block = wk[w].block /\ wk'[w].shift = wk[w].shift + 1
         /\ wk'[w].id = wk[w].id /\ wk'[w].primed = wk[w].primed
         /\ wk'[w].conn = wk[w].conn /\ wk'[w].replaced = wk[w].replaced
<1> DEFINE t == [wk[w] EXCEPT !.shift = wk[w].shift + 1]
<1>1. wk[w] \in Worker /\ wk \in [Workers -> Worker]
  BY DEF TypeOK
<1>2. t \in Worker /\ t.block = wk[w].block /\ t.shift = wk[w].shift + 1
      /\ t.id = wk[w].id /\ t.primed = wk[w].primed /\ t.conn = wk[w].conn
      /\ t.replaced = wk[w].replaced
  BY <1>1 DEF Worker
<1>3. wk' = [wk EXCEPT ![w] = t]
  BY DEF Emit
<1> QED
  BY <1>1, <1>2, <1>3, SetWorker

-----------------------------------------------------------------------------
\* Blocks are available as long as their first trial is.
LEMMA BlockBound ==
  ASSUME NEW n \in Nat \ {0}, NEW u \in Nat \ {0}, NEW b \in Nat
  PROVE  b <= (n - 1) \div u <=> b * u < n
<1> DEFINE q == (n - 1) \div u
           r == (n - 1) % u
<1>1. q \in Nat /\ r \in 0..u - 1 /\ n - 1 = u * q + r
  OBVIOUS
<1> HIDE DEF q, r
<1>2. CASE b <= q
  <2>1. b * u <= q * u
    BY <1>1, <1>2
  <2> QED
    BY <1>1, <1>2, <2>1
<1>3. CASE b >= q + 1
  <2>1. b * u >= (q + 1) * u
    BY <1>1, <1>3
  <2> QED
    BY <1>1, <1>3, <2>1
<1> QED
  BY <1>1, <1>2, <1>3 DEF q

\* Trials of different blocks differ.
LEMMA BlocksApart ==
  ASSUME NEW u \in Nat \ {0}, NEW a \in Nat, NEW b \in Nat, a < b
  PROVE  a * u + u <= b * u
<1>1. (b - a) * u >= u
  OBVIOUS
<1>2. (b - a) * u = b * u - a * u
  OBVIOUS
<1> QED
  BY <1>1, <1>2

\* What the two kinds of invariant together give about one state.
LEMMA StateFacts ==
  ASSUME TypeOK
  PROVE  /\ run.trials \in Nat \ {0} /\ run.warmup \in Nat /\ Unit \in Nat \ {0}
         /\ nextBlock \in Nat /\ nextConn \in Nat
         /\ \A w \in Workers : /\ wk[w] \in Worker
                               /\ wk[w].block \in Nat /\ wk[w].shift \in Nat
                               /\ wk[w].id \in Nat /\ wk[w].primed \in Nat
                               /\ Index(w) \in Nat
         /\ Delivered \in Seq(Trial) /\ Len(Delivered) \in Nat
         /\ \A i \in 1..Len(Delivered) : /\ Delivered[i] \in Trial
                                         /\ Delivered[i].index \in Nat \cup {noCoord}
                                         /\ Delivered[i].conn \in Nat
<1>1. run \in [trials : Nat \ {0}, warmup : Nat, faults : Nat \cup {Unlimited}] /\ Unit \in Nat \ {0}
  BY TrialAssumption DEF TypeOK
<1>2. \A w \in Workers : /\ wk[w] \in Worker
                         /\ wk[w].block \in Nat /\ wk[w].shift \in Nat
                         /\ wk[w].id \in Nat /\ wk[w].primed \in Nat
  BY DEF TypeOK, Worker
<1>3. \A w \in Workers : Index(w) \in Nat
  BY <1>1, <1>2 DEF Index
<1>4. Delivered \in Seq(Trial)
  BY ConcatProperties DEF Delivered, TypeOK
<1>5. \A i \in 1..Len(Delivered) : Delivered[i] \in Trial
  BY <1>4
<1> QED
  BY <1>1, <1>2, <1>3, <1>4, <1>5 DEF TypeOK, Trial

\* A step that delivers nothing and hands out no block and no connection keeps
\* the invariants, when the worker that takes it only goes on with its trial, or
\* gives it up because the run is disturbed or the trial is past the bound.
LEMMA QuietMoves ==
  ASSUME DeliveryInv, NEW w \in Workers, NEW from, NEW to, Goto(w, from, to),
         Keeping(w), UNCHANGED <<run, nextBlock, nextConn, out, consumer, yielded>>,
         to \in Active => from \in Active,
         LiveId(w)' => LiveId(w) /\ from # "emitWarm" /\ to # "emitWarm"
                         /\ (to \in Priming => from \in Priming),
         stop' = "end" => stop = "end",
         Undisturbed' =>
           /\ Undisturbed /\ fatal' = fatal
           /\ from \in Active /\ to \notin Active => Index(w) >= run.trials
           /\ to \in {"leave", "done"} => ~BlockAvailable(nextBlock)
  PROVE  OrderInv'
<1>1. pc[w] = from /\ pc'[w] = to /\ \A v \in Workers \ {w} : pc'[v] = pc[v]
  BY DEF Goto, DeliveryInv, TypeOK
<1>2. /\ \A v \in Workers \ {w} : wk'[v] = wk[v]
      /\ wk'[w].block = wk[w].block /\ wk'[w].shift = wk[w].shift
      /\ wk'[w].id = wk[w].id /\ wk'[w].primed = wk[w].primed
  BY DEF Keeping, Alone
<1>3. Delivered' = Delivered
  BY DEF Delivered
<1>4. \A v \in Workers : v # w => (LiveId(v)' <=> LiveId(v))
  BY <1>1, <1>2 DEF LiveId, Held
<1>5. \A v \in Workers : Index(v)' = Index(v)
  BY <1>2 DEF Index
<1>6. SharedInv'
  BY <1>1, <1>2, <1>4 DEF DeliveryInv, OrderInv, SharedInv
<1>7. EndInv'
  BY <1>1 DEF DeliveryInv, OrderInv, EndInv, BlockAvailable
<1>8. Primed(Delivered)'
  BY <1>3 DEF DeliveryInv, OrderInv, Primed, WarmUps
<1>9. Once(Delivered)'
  BY <1>1, <1>2, <1>3, <1>5 DEF DeliveryInv, OrderInv, Once
<1>10. (consumer = "ranging" => Counted(Delivered))'
  <2> SUFFICES ASSUME consumer = "ranging", NEW v \in Workers, LiveId(v)'
               PROVE  /\ Cardinality(WarmUps(Delivered, wk[v].id, Len(Delivered)))
                           = wk[v].primed - (IF pc'[v] = "emitWarm" THEN 1 ELSE 0)
                      /\ pc'[v] \in Priming => \A i \in 1..Len(Delivered) :
                           Delivered[i].conn = wk[v].id => ~Measured(Delivered[i])
    BY <1>2, <1>3 DEF Counted
  <2>1. /\ Cardinality(WarmUps(Delivered, wk[v].id, Len(Delivered)))
             = wk[v].primed - (IF pc[v] = "emitWarm" THEN 1 ELSE 0)
        /\ pc[v] \in Priming => \A i \in 1..Len(Delivered) :
             Delivered[i].conn = wk[v].id => ~Measured(Delivered[i])
    BY <1>4 DEF DeliveryInv, OrderInv, Counted
  <2>2. /\ pc'[v] = "emitWarm" <=> pc[v] = "emitWarm"
        /\ pc'[v] \in Priming => pc[v] \in Priming
    BY <1>1
  <2> QED
    BY <2>1, <2>2
<1>11. (Undisturbed => Complete(Delivered))'
  <2> SUFFICES ASSUME Undisturbed', NEW b \in Nat, NEW i \in 0..Unit - 1,
                      b * Unit + i < run.trials, b < nextBlock
               PROVE  \/ \E v \in Workers : /\ pc'[v] \in Active /\ wk'[v].block = b
                                            /\ wk'[v].shift <= i
                      \/ \E j \in 1..Len(Delivered) : Delivered[j].index = b * Unit + i
    BY <1>3 DEF Complete
  <2>1. \/ \E v \in Workers : pc[v] \in Active /\ wk[v].block = b /\ wk[v].shift <= i
        \/ \E j \in 1..Len(Delivered) : Delivered[j].index = b * Unit + i
    BY DEF DeliveryInv, OrderInv, Complete
  <2>2. CASE pc[w] \in Active /\ wk[w].block = b /\ wk[w].shift <= i
    <3>1. Index(w) < run.trials
      <4>1. wk[w].shift \in Nat /\ Unit \in Nat /\ run.trials \in Nat
        BY StateFacts DEF DeliveryInv
      <4>2. b * Unit \in Nat
        BY <4>1
      <4> QED
        BY <2>2, <4>1, <4>2 DEF Index
    <3>2. to \in Active
      BY <1>1, <2>2, <3>1, StateFacts DEF DeliveryInv
    <3> QED
      BY <1>1, <1>2, <2>2, <3>2
  <2> QED
    BY <1>1, <1>2, <2>1, <2>2
<1> QED
  BY <1>6, <1>7, <1>8, <1>9, <1>10, <1>11 DEF OrderInv

\* Draw hands out a block that nobody works on, or ends a worker when none is left.
LEMMA DrawMoves ==
  ASSUME DeliveryInv, NEW w \in Workers, Draw(w)
  PROVE  OrderInv'
<1> DEFINE to == IF BlockAvailable(nextBlock) THEN "trial" ELSE "leave"
<1>0. /\ run.trials \in Nat \ {0} /\ Unit \in Nat \ {0} /\ nextBlock \in Nat
      /\ \A v \in Workers : wk[v].block \in Nat /\ wk[v].shift \in Nat
  BY StateFacts DEF DeliveryInv
<1>1. /\ pc[w] = "draw" /\ pc'[w] = to
      /\ \A v \in Workers \ {w} : pc'[v] = pc[v]
  BY DEF Draw, Goto, DeliveryInv, TypeOK
<1>2. /\ \A v \in Workers \ {w} : wk'[v] = wk[v]
      /\ wk'[w].block = nextBlock /\ wk'[w].shift = 0
      /\ wk'[w].id = wk[w].id /\ wk'[w].primed = wk[w].primed
      /\ wk'[w].conn = wk[w].conn
  BY DrawSets DEF Alone, DeliveryInv
<1>3. /\ nextBlock' = nextBlock + 1
      /\ UNCHANGED <<run, nextConn, out, consumer, yielded, stop, fatal>>
      /\ Delivered' = Delivered
  BY DEF Draw, channel, ending, client, Delivered
<1>4. \A v \in Workers : LiveId(v)' => LiveId(v)
  BY <1>1, <1>2 DEF LiveId, Held, Priming
<1>5. SharedInv'
  <2>1. \A v \in Workers : pc[v] \in Active => wk[v].block # nextBlock
    BY <1>0 DEF DeliveryInv, LocalInv, InStep
  <2> QED
    BY <1>1, <1>2, <1>4, <2>1 DEF DeliveryInv, OrderInv, SharedInv, Active
<1>6. EndInv'
  <2>1. ASSUME ~BlockAvailable(nextBlock) PROVE ~BlockAvailable(nextBlock)'
    <3> DEFINE q == (run.trials - 1) \div Unit
    <3>1. q \in Int /\ run' = run /\ ~(nextBlock <= q)
      BY <1>0, <1>3, <2>1 DEF BlockAvailable
    <3> HIDE DEF q
    <3>2. ~(nextBlock + 1 <= q)
      BY <1>0, <3>1
    <3> QED
      BY <1>3, <3>1, <3>2 DEF BlockAvailable, q
  <2>2. pc'[w] # "done" /\ (pc'[w] = "leave" => ~BlockAvailable(nextBlock))
    BY <1>1
  <2> QED
    BY <1>1, <1>3, <2>1, <2>2 DEF DeliveryInv, OrderInv, EndInv, Undisturbed
<1>7. nextBlock' * Unit = nextBlock * Unit + Unit /\ nextBlock * Unit \in Nat
  BY <1>0, <1>3
<1>8. \A i \in 1..Len(Delivered) :
        /\ Delivered[i].index \in Int
        /\ Delivered[i].index < nextBlock * Unit
  BY StateFacts DEF DeliveryInv, OrderInv, Primed, noCoord
<1>9. Primed(Delivered)'
  <2>1. \A i \in 1..Len(Delivered) : Delivered[i].index < nextBlock' * Unit
    BY <1>0, <1>7, <1>8
  <2> QED
    BY <1>3, <2>1 DEF DeliveryInv, OrderInv, Primed, WarmUps
<1>10. Once(Delivered)'
  <2>1. Index(w)' = nextBlock * Unit
    BY <1>2, <1>7 DEF Index
  <2>2. \A v \in Workers : v # w => Index(v)' = Index(v)
    BY <1>2 DEF Index
  <2>3. \A i \in 1..Len(Delivered) : ~(Index(w)' <= Delivered[i].index)
    BY <1>7, <1>8, <2>1
  <2> QED
    BY <1>1, <1>2, <1>3, <2>2, <2>3 DEF DeliveryInv, OrderInv, Once
<1>11. (consumer = "ranging" => Counted(Delivered))'
  <2>1. pc[w] # "emitWarm" /\ pc'[w] # "emitWarm" /\ pc'[w] \notin Priming
    BY <1>1 DEF Priming
  <2>2. \A v \in Workers : /\ wk'[v].id = wk[v].id /\ wk'[v].primed = wk[v].primed
                           /\ pc'[v] = "emitWarm" <=> pc[v] = "emitWarm"
                           /\ pc'[v] \in Priming => pc[v] \in Priming
    BY <1>1, <1>2, <2>1
  <2> SUFFICES ASSUME consumer = "ranging", NEW v \in Workers, LiveId(v)'
               PROVE  /\ Cardinality(WarmUps(Delivered, wk[v].id, Len(Delivered)))
                           = wk[v].primed - (IF pc'[v] = "emitWarm" THEN 1 ELSE 0)
                      /\ pc'[v] \in Priming => \A i \in 1..Len(Delivered) :
                           Delivered[i].conn = wk[v].id => ~Measured(Delivered[i])
    BY <1>3, <2>2 DEF Counted
  <2>3. /\ Cardinality(WarmUps(Delivered, wk[v].id, Len(Delivered)))
             = wk[v].primed - (IF pc[v] = "emitWarm" THEN 1 ELSE 0)
        /\ pc[v] \in Priming => \A i \in 1..Len(Delivered) :
             Delivered[i].conn = wk[v].id => ~Measured(Delivered[i])
    BY <1>3, <1>4 DEF DeliveryInv, OrderInv, Counted
  <2> QED
    BY <2>2, <2>3
<1>12. (Undisturbed => Complete(Delivered))'
  <2> SUFFICES ASSUME Undisturbed, NEW b \in Nat, NEW i \in 0..Unit - 1,
                      b * Unit + i < run.trials, b < nextBlock + 1
               PROVE  \/ \E v \in Workers : /\ pc'[v] \in Active /\ wk'[v].block = b
                                            /\ wk'[v].shift <= i
                      \/ \E j \in 1..Len(Delivered) : Delivered[j].index = b * Unit + i
    BY <1>3 DEF Complete, Undisturbed
  <2>1. CASE b < nextBlock
    <3>1. \/ \E v \in Workers : pc[v] \in Active /\ wk[v].block = b /\ wk[v].shift <= i
          \/ \E j \in 1..Len(Delivered) : Delivered[j].index = b * Unit + i
      BY <2>1 DEF DeliveryInv, OrderInv, Complete
    <3> QED
      BY <1>1, <1>2, <3>1 DEF Active
  <2>2. CASE b = nextBlock
    <3>1. b * Unit < run.trials
      BY <1>0, <1>7, <2>2
    <3>2. BlockAvailable(nextBlock)
      BY <1>0, <2>2, <3>1, BlockBound DEF BlockAvailable
    <3> QED
      BY <1>1, <1>2, <2>2, <3>2 DEF Active, Places
  <2> QED
    BY <1>0, <2>1, <2>2
<1> QED
  BY <1>5, <1>6, <1>9, <1>10, <1>11, <1>12 DEF OrderInv

\* A worker that goes on with the same trial and delivers nothing disturbs neither
\* the delivered trials nor their completeness.
LEMMA SameTrial ==
  ASSUME DeliveryInv, NEW w \in Workers, pc[w] \in Active, pc'[w] \in Active,
         \A v \in Workers \ {w} : pc'[v] = pc[v], Alone(w),
         wk'[w].block = wk[w].block, wk'[w].shift = wk[w].shift,
         UNCHANGED <<run, nextBlock, out, consumer, yielded, stop, fatal>>
  PROVE  /\ EndInv' /\ Once(Delivered)' /\ (Undisturbed => Complete(Delivered))'
         /\ \A u, v \in Workers : u # v /\ pc'[u] \in Active /\ pc'[v] \in Active
              => wk'[u].block # wk'[v].block
<1>1. /\ \A v \in Workers : /\ wk'[v].block = wk[v].block
                            /\ wk'[v].shift = wk[v].shift
                            /\ pc'[v] \in Active <=> pc[v] \in Active
                            /\ Index(v)' = Index(v)
      /\ pc'[w] \notin {"leave", "done"}
  BY DEF Alone, Index, Active
<1>2. Delivered' = Delivered
  BY DEF Delivered
<1>3. EndInv'
  BY <1>1 DEF DeliveryInv, OrderInv, EndInv, BlockAvailable, Undisturbed
<1>4. Once(Delivered)'
  BY <1>1, <1>2 DEF DeliveryInv, OrderInv, Once
<1>5. (Undisturbed => Complete(Delivered))'
  BY <1>1, <1>2 DEF DeliveryInv, OrderInv, Complete, Undisturbed
<1> QED
  BY <1>1, <1>3, <1>4, <1>5 DEF DeliveryInv, OrderInv, SharedInv

\* acquire gives the worker a connection that nobody has and nothing was
\* delivered on.
LEMMA AcquireMoves ==
  ASSUME DeliveryInv, NEW w \in Workers, NEW r \in BOOLEAN, AcquireOk(w, r)
  PROVE  OrderInv'
<1>0. nextConn \in Nat /\ \A i \in 1..Len(Delivered) : Delivered[i].conn \in Nat
  BY StateFacts DEF DeliveryInv
<1>1. /\ pc[w] = "acquire" /\ pc'[w] = "acquired"
      /\ \A v \in Workers \ {w} : pc'[v] = pc[v]
  BY DEF AcquireOk, Goto, DeliveryInv, TypeOK
<1>2. /\ Alone(w) /\ \A v \in Workers \ {w} : wk'[v] = wk[v]
      /\ wk'[w].block = wk[w].block /\ wk'[w].shift = wk[w].shift
      /\ wk'[w].id = nextConn /\ wk'[w].primed = 0
  BY AcquireSets DEF Alone, DeliveryInv
<1>3. /\ nextConn' = nextConn + 1
      /\ UNCHANGED <<run, nextBlock, out, consumer, yielded, stop, fatal>>
      /\ Delivered' = Delivered
  BY DEF AcquireOk, channel, ending, client, Delivered
<1>4. pc[w] \in Active /\ pc'[w] \in Active /\ pc'[w] # "emitWarm"
  BY <1>1 DEF Active, Places
<1>5. /\ EndInv' /\ Once(Delivered)' /\ (Undisturbed => Complete(Delivered))'
      /\ \A u, v \in Workers : u # v /\ pc'[u] \in Active /\ pc'[v] \in Active
           => wk'[u].block # wk'[v].block
  BY <1>1, <1>2, <1>3, <1>4, SameTrial
<1>6. \A v \in Workers : v # w => (LiveId(v)' <=> LiveId(v))
  BY <1>1, <1>2 DEF LiveId, Held
<1>7. SharedInv'
  <2>1. \A v \in Workers : v # w /\ LiveId(v)' => wk'[v].id < nextConn
    BY <1>2, <1>6 DEF DeliveryInv, LocalInv, InStep
  <2>2. \A v \in Workers : wk[v].id \in Nat
    BY StateFacts DEF DeliveryInv
  <2>3. \A u, v \in Workers : u # v /\ LiveId(u)' /\ LiveId(v)' => wk'[u].id # wk'[v].id
    BY <1>0, <1>2, <1>6, <2>1, <2>2 DEF DeliveryInv, OrderInv, SharedInv
  <2> QED
    BY <1>5, <2>3 DEF SharedInv
<1>8. Primed(Delivered)'
  <2>1. \A i \in 1..Len(Delivered) : Delivered[i].conn < nextConn'
    BY <1>0, <1>3 DEF DeliveryInv, OrderInv, Primed
  <2> QED
    BY <1>3, <2>1 DEF DeliveryInv, OrderInv, Primed
<1>9. (consumer = "ranging" => Counted(Delivered))'
  <2>1. \A i \in 1..Len(Delivered) : Delivered[i].conn # nextConn
    BY <1>0 DEF DeliveryInv, OrderInv, Primed
  <2>2. Cardinality(WarmUps(Delivered, nextConn, Len(Delivered))) = 0
    <3>1. WarmUps(Delivered, nextConn, Len(Delivered)) = {}
      BY <2>1 DEF WarmUps
    <3> QED
      BY <3>1, FS_EmptySet
  <2> SUFFICES ASSUME consumer = "ranging", NEW v \in Workers, LiveId(v)'
               PROVE  /\ Cardinality(WarmUps(Delivered, wk'[v].id, Len(Delivered)))
                           = wk'[v].primed - (IF pc'[v] = "emitWarm" THEN 1 ELSE 0)
                      /\ pc'[v] \in Priming => \A i \in 1..Len(Delivered) :
                           Delivered[i].conn = wk'[v].id => ~Measured(Delivered[i])
    BY <1>3 DEF Counted
  <2>3. CASE v = w
    BY <1>2, <1>4, <2>1, <2>2, <2>3
  <2>4. CASE v # w
    <3>1. wk'[v] = wk[v] /\ pc'[v] = pc[v] /\ LiveId(v)
      BY <1>1, <1>2, <1>6, <2>4
    <3>2. /\ Cardinality(WarmUps(Delivered, wk[v].id, Len(Delivered)))
               = wk[v].primed - (IF pc[v] = "emitWarm" THEN 1 ELSE 0)
          /\ pc[v] \in Priming => \A i \in 1..Len(Delivered) :
               Delivered[i].conn = wk[v].id => ~Measured(Delivered[i])
      BY <1>3, <3>1 DEF DeliveryInv, OrderInv, Counted
    <3> QED
      BY <3>1, <3>2
  <2> QED
    BY <2>3, <2>4
<1> QED
  BY <1>5, <1>7, <1>8, <1>9 DEF OrderInv

\* A priming batch that ended is counted, and is yet to be delivered.
LEMMA WarmMoves ==
  ASSUME DeliveryInv, NEW w \in Workers, NEW o \in Outcomes, WarmEnd(w, o)
  PROVE  OrderInv'
<1>1. /\ pc[w] = "warm" /\ pc'[w] = "emitWarm"
      /\ \A v \in Workers \ {w} : pc'[v] = pc[v]
  BY DEF WarmEnd, Goto, DeliveryInv, TypeOK
<1>2. /\ Alone(w) /\ \A v \in Workers \ {w} : wk'[v] = wk[v]
      /\ wk'[w].block = wk[w].block /\ wk'[w].shift = wk[w].shift
      /\ wk'[w].id = wk[w].id /\ wk'[w].primed = wk[w].primed + 1
  BY WarmEndSets DEF Alone, DeliveryInv
<1>3. /\ UNCHANGED <<run, nextBlock, nextConn, out, consumer, yielded, stop, fatal>>
      /\ Delivered' = Delivered
  BY DEF WarmEnd, channel, ending, client, Delivered
<1>4. pc[w] \in Active /\ pc'[w] \in Active /\ pc[w] \in Priming
  BY <1>1 DEF Active, Places, Priming
<1>5. /\ EndInv' /\ Once(Delivered)' /\ (Undisturbed => Complete(Delivered))'
      /\ \A u, v \in Workers : u # v /\ pc'[u] \in Active /\ pc'[v] \in Active
           => wk'[u].block # wk'[v].block
  BY <1>1, <1>2, <1>3, <1>4, SameTrial
<1>6. \A v \in Workers : (LiveId(v)' <=> LiveId(v)) /\ wk'[v].id = wk[v].id
  BY <1>1, <1>2 DEF LiveId, Held, Priming
<1>7. SharedInv'
  BY <1>5, <1>6 DEF DeliveryInv, OrderInv, SharedInv
<1>8. Primed(Delivered)'
  BY <1>3 DEF DeliveryInv, OrderInv, Primed
<1>9. (consumer = "ranging" => Counted(Delivered))'
  <2> SUFFICES ASSUME consumer = "ranging", NEW v \in Workers, LiveId(v)
               PROVE  /\ Cardinality(WarmUps(Delivered, wk[v].id, Len(Delivered)))
                           = wk'[v].primed - (IF pc'[v] = "emitWarm" THEN 1 ELSE 0)
                      /\ pc'[v] \in Priming => \A i \in 1..Len(Delivered) :
                           Delivered[i].conn = wk[v].id => ~Measured(Delivered[i])
    BY <1>3, <1>6 DEF Counted
  <2>1. /\ Cardinality(WarmUps(Delivered, wk[v].id, Len(Delivered)))
             = wk[v].primed - (IF pc[v] = "emitWarm" THEN 1 ELSE 0)
        /\ pc[v] \in Priming => \A i \in 1..Len(Delivered) :
             Delivered[i].conn = wk[v].id => ~Measured(Delivered[i])
    BY <1>3 DEF DeliveryInv, OrderInv, Counted
  <2>2. wk[w].primed \in Nat
    BY StateFacts DEF DeliveryInv
  <2> QED
    BY <1>1, <1>2, <1>4, <2>1, <2>2
<1> QED
  BY <1>5, <1>7, <1>8, <1>9 DEF OrderInv

-----------------------------------------------------------------------------
\* What a worker hands to the channel is delivered, unless nobody listens.
LEMMA SendDelivers ==
  ASSUME TypeOK, NEW t \in Trial, Send(t), UNCHANGED <<consumer, yielded>>
  PROVE  /\ consumer = "ranging" => Delivered' = Append(Delivered, t)
         /\ consumer # "ranging" => Delivered' = Delivered
<1>1. yielded \in Seq(Trial) /\ out \in Seq(Trial) /\ out' = Append(out, t)
  BY DEF TypeOK, Send
<1>2. yielded \o Append(out, t) = Append(yielded \o out, t)
  BY <1>1
<1> QED
  BY <1>1, <1>2 DEF Delivered

\* One more trial changes the count of its own connection only, and only if it is
\* a priming batch.
LEMMA WarmAppend ==
  ASSUME NEW s \in Seq(Trial), NEW t \in Trial, NEW c
  PROVE  LET r == Append(s, t)
         IN  /\ \A n \in 0..Len(s) : WarmUps(r, c, n) = WarmUps(s, c, n)
             /\ Cardinality(WarmUps(s, c, Len(s))) \in Nat
             /\ Cardinality(WarmUps(r, c, Len(r))) =
                  Cardinality(WarmUps(s, c, Len(s)))
                    + (IF ~Measured(t) /\ t.conn = c THEN 1 ELSE 0)
<1> DEFINE r == Append(s, t)
           n == Len(s)
           W == WarmUps(s, c, n)
<1>1. /\ n \in Nat /\ Len(r) = n + 1 /\ r[n + 1] = t
      /\ \A i \in 1..n : r[i] = s[i]
  BY AppendProperties
<1>2. IsFiniteSet(W)
  <2>1. IsFiniteSet(1..n)
    BY <1>1, FS_Interval
  <2>2. W \subseteq 1..n
    BY DEF WarmUps
  <2> QED
    BY <2>1, <2>2, FS_Subset
<1>3. Cardinality(W) \in Nat
  BY <1>2, FS_CardinalityType
<1>4. \A m \in 0..n : WarmUps(r, c, m) = WarmUps(s, c, m)
  BY <1>1 DEF WarmUps
<1>5. CASE ~Measured(t) /\ t.conn = c
  <2>1. WarmUps(r, c, Len(r)) = W \cup {n + 1} /\ n + 1 \notin W
    BY <1>1, <1>5 DEF WarmUps
  <2>2. Cardinality(W \cup {n + 1}) = Cardinality(W) + 1
    BY <1>2, <2>1, FS_AddElement
  <2> QED
    BY <1>3, <1>4, <1>5, <2>1, <2>2
<1>6. CASE ~(~Measured(t) /\ t.conn = c)
  <2>1. WarmUps(r, c, Len(r)) = W
    BY <1>1, <1>6 DEF WarmUps
  <2> QED
    BY <1>3, <1>4, <1>6, <2>1
<1> QED
  BY <1>5, <1>6

\* A trial may be delivered when its index and its connection were handed out and
\* its connection is primed, a priming batch when nothing was measured on its own.
LEMMA PrimedAppend ==
  ASSUME TypeOK, NEW t \in Trial, Primed(Delivered),
         t.conn < nextConn, t.index < run.trials, t.index < nextBlock * Unit,
         Measured(t) =>
           Cardinality(WarmUps(Delivered, t.conn, Len(Delivered))) = run.warmup,
         ~Measured(t) => \A i \in 1..Len(Delivered) :
           Delivered[i].conn = t.conn => ~Measured(Delivered[i])
  PROVE  Primed(Append(Delivered, t))
<1> DEFINE s == Delivered
           r == Append(s, t)
           n == Len(s)
<1>0. s \in Seq(Trial)
  BY StateFacts
<1> HIDE DEF s
<1>1. /\ n \in Nat /\ Len(r) = n + 1 /\ r[n + 1] = t
      /\ \A i \in 1..n : r[i] = s[i]
  BY <1>0, AppendProperties
<1> SUFFICES ASSUME NEW i \in 1..n + 1
             PROVE  /\ r[i].conn < nextConn /\ r[i].index < run.trials
                    /\ r[i].index < nextBlock * Unit
                    /\ Measured(r[i]) =>
                         /\ Cardinality(WarmUps(r, r[i].conn, i - 1)) = run.warmup
                         /\ \A j \in i + 1..n + 1 :
                              r[j].conn = r[i].conn => Measured(r[j])
  BY <1>1, Zenon DEF Primed, s
<1>2. WarmUps(r, r[i].conn, i - 1) = WarmUps(s, r[i].conn, i - 1)
  <2> DEFINE c == r[i].conn
  <2>1. i - 1 \in 0..n
    BY <1>1
  <2>2. \A m \in 0..n : WarmUps(r, c, m) = WarmUps(s, c, m)
    BY <1>0, WarmAppend, ZenonT(40)
  <2> QED
    BY <2>1, <2>2
<1>3. CASE i = n + 1
  BY <1>1, <1>2, <1>3 DEF s
<1>4. CASE i \in 1..n
  <2>1. /\ s[i].conn < nextConn /\ s[i].index < run.trials
        /\ s[i].index < nextBlock * Unit
        /\ Measured(s[i]) =>
             /\ Cardinality(WarmUps(s, s[i].conn, i - 1)) = run.warmup
             /\ \A j \in i + 1..n : s[j].conn = s[i].conn => Measured(s[j])
    BY <1>4 DEF Primed, s
  <2>2. Measured(s[i]) /\ t.conn = s[i].conn => Measured(t)
    BY <1>4 DEF s
  <2> QED
    BY <1>1, <1>2, <1>4, <2>1, <2>2
<1> QED
  BY <1>1, <1>3, <1>4

\* A delivery on the connection of worker w counts for w alone.
LEMMA CountedAppend ==
  ASSUME TypeOK, NEW t \in Trial, NEW v \in Workers,
         Cardinality(WarmUps(Delivered, wk[v].id, Len(Delivered)))
           = wk[v].primed - (IF pc[v] = "emitWarm" THEN 1 ELSE 0),
         pc[v] \in Priming => \A i \in 1..Len(Delivered) :
           Delivered[i].conn = wk[v].id => ~Measured(Delivered[i]),
         Delivered' = Append(Delivered, t),
         wk'[v].id = wk[v].id, wk'[v].primed = wk[v].primed,
         t.conn = wk[v].id /\ ~Measured(t) => pc[v] = "emitWarm" /\ pc'[v] # "emitWarm",
         t.conn # wk[v].id \/ Measured(t) => (pc'[v] = "emitWarm" <=> pc[v] = "emitWarm"),
         pc'[v] \in Priming => pc[v] \in Priming /\ (t.conn = wk[v].id => ~Measured(t))
  PROVE  /\ Cardinality(WarmUps(Delivered', wk'[v].id, Len(Delivered')))
              = wk'[v].primed - (IF pc'[v] = "emitWarm" THEN 1 ELSE 0)
         /\ pc'[v] \in Priming => \A i \in 1..Len(Delivered') :
              Delivered'[i].conn = wk'[v].id => ~Measured(Delivered'[i])
<1> DEFINE n == Len(Delivered)
           c == wk[v].id
           before == Cardinality(WarmUps(Delivered, c, n))
           after == Cardinality(WarmUps(Delivered', c, Len(Delivered')))
<1>1. Delivered \in Seq(Trial) /\ wk[v].primed \in Nat
  BY StateFacts
<1>2. /\ before \in Nat
      /\ after = before + (IF ~Measured(t) /\ t.conn = c THEN 1 ELSE 0)
  BY <1>1, WarmAppend
<1>3. /\ n \in Nat /\ Len(Delivered') = n + 1 /\ Delivered'[n + 1] = t
      /\ \A i \in 1..n : Delivered'[i] = Delivered[i]
  BY <1>1, AppendProperties
<1>4. after = wk[v].primed - (IF pc'[v] = "emitWarm" THEN 1 ELSE 0)
  <2> HIDE DEF after
  <2>1. before = wk[v].primed - (IF pc[v] = "emitWarm" THEN 1 ELSE 0)
    OBVIOUS
  <2> HIDE DEF before
  <2> QED
    BY <1>1, <1>2, <2>1
<1>5. pc'[v] \in Priming => \A i \in 1..Len(Delivered') :
        Delivered'[i].conn = c => ~Measured(Delivered'[i])
  BY <1>3
<1> QED
  BY <1>4, <1>5

\* emit delivers the outcome of a priming batch.
LEMMA EmitWarmMoves ==
  ASSUME DeliveryInv, NEW w \in Workers, EmitWarm(w),
         Keeping(w), NEW to \in {"warm", "send", "terminal", "acquire"},
         Goto(w, "emitWarm", to), to = "acquire" => ~Held(w)
  PROVE  OrderInv'
<1> DEFINE t == [index |-> noCoord, conn |-> wk[w].id]
<1>0. /\ TypeOK /\ nextConn \in Nat /\ nextBlock * Unit \in Nat /\ run.trials \in Nat
      /\ \A v \in Workers : wk[v].id \in Nat /\ Index(v) \in Nat
      /\ Delivered \in Seq(Trial) /\ Len(Delivered) \in Nat
  <2>1. TypeOK /\ Unit \in Nat /\ nextBlock \in Nat
    BY StateFacts DEF DeliveryInv
  <2> QED
    BY <2>1, StateFacts
<1>1. /\ pc[w] = "emitWarm" /\ pc'[w] = to
      /\ \A v \in Workers \ {w} : pc'[v] = pc[v]
  BY <1>0 DEF Goto, TypeOK
<1>2. /\ Alone(w) /\ \A v \in Workers \ {w} : wk'[v] = wk[v]
      /\ wk'[w].block = wk[w].block /\ wk'[w].shift = wk[w].shift
      /\ wk'[w].id = wk[w].id /\ wk'[w].primed = wk[w].primed
      /\ wk'[w].conn \in {wk[w].conn, NoConn}
  BY DEF Keeping, Alone
<1>3. /\ UNCHANGED <<run, nextBlock, nextConn, consumer, yielded, stop, fatal>>
      /\ Send(t)
  BY DEF EmitWarm, shared, ending, client
<1>4. t \in Trial /\ ~Measured(t) /\ t.conn = wk[w].id /\ t.index = -1
  BY <1>0 DEF Trial, Measured, noCoord
<1> HIDE DEF t
<1>5. /\ consumer = "ranging" => Delivered' = Append(Delivered, t)
      /\ consumer # "ranging" => Delivered' = Delivered
  BY <1>0, <1>3, <1>4, SendDelivers
<1>6. /\ LiveId(w) /\ pc[w] \in Active /\ pc'[w] \in Active
      /\ \A v \in Workers : LiveId(v)' => LiveId(v)
      /\ pc'[w] # "emitWarm" /\ pc[w] \in Priming
  BY <1>1, <1>2 DEF LiveId, Active, Places, Priming, Held
<1>7. /\ \A v \in Workers : /\ wk'[v].block = wk[v].block /\ wk'[v].shift = wk[v].shift
                            /\ wk'[v].id = wk[v].id /\ wk'[v].primed = wk[v].primed
                            /\ pc'[v] \in Active <=> pc[v] \in Active
                            /\ Index(v)' = Index(v)
  BY <1>1, <1>2, <1>6 DEF Index
<1>8. SharedInv'
  BY <1>6, <1>7 DEF DeliveryInv, OrderInv, SharedInv
<1>9. EndInv'
  BY <1>1, <1>3 DEF DeliveryInv, OrderInv, EndInv, Undisturbed, BlockAvailable
<1>10. \A j \in 1..Len(Delivered') :
         \/ j \in 1..Len(Delivered) /\ Delivered'[j] = Delivered[j]
         \/ Delivered'[j] = t
  <2>1. CASE consumer = "ranging"
    <3>1. /\ Len(Delivered') = Len(Delivered) + 1
          /\ Delivered'[Len(Delivered) + 1] = t
          /\ \A j \in 1..Len(Delivered) : Delivered'[j] = Delivered[j]
      BY <1>0, <1>4, <1>5, <2>1, AppendProperties
    <3> QED
      BY <1>0, <3>1
  <2>2. CASE consumer # "ranging"
    BY <1>5, <2>2
  <2> QED
    BY <2>1, <2>2
<1>11. Len(Delivered') >= Len(Delivered)
       /\ \A j \in 1..Len(Delivered) : Delivered'[j] = Delivered[j]
  BY <1>0, <1>4, <1>5, AppendProperties
<1>12. Once(Delivered)'
  <2>1. \A i \in 1..Len(Delivered') : Measured(Delivered'[i]) =>
          i \in 1..Len(Delivered) /\ Delivered'[i] = Delivered[i]
    BY <1>4, <1>10
  <2>2. \A i, j \in 1..Len(Delivered') :
          Measured(Delivered'[i]) /\ Delivered'[i].index = Delivered'[j].index => i = j
    <3> SUFFICES ASSUME NEW i \in 1..Len(Delivered'), NEW j \in 1..Len(Delivered'),
                        Measured(Delivered'[i]),
                        Delivered'[i].index = Delivered'[j].index
                 PROVE  i = j
      OBVIOUS
    <3>1. Measured(Delivered'[j])
      BY DEF Measured
    <3> QED
      BY <2>1, <3>1 DEF DeliveryInv, OrderInv, Once
  <2>3. \A v \in Workers, i \in 1..Len(Delivered') : pc'[v] \in Active =>
          ~(Index(v)' <= Delivered'[i].index
              /\ Delivered'[i].index < wk'[v].block * Unit + Unit)
    <3> SUFFICES ASSUME NEW v \in Workers, NEW i \in 1..Len(Delivered'), pc'[v] \in Active
                 PROVE  ~(Index(v)' <= Delivered'[i].index
                            /\ Delivered'[i].index < wk'[v].block * Unit + Unit)
      OBVIOUS
    <3>1. pc[v] \in Active /\ Index(v)' = Index(v) /\ wk'[v].block = wk[v].block
      BY <1>7
    <3>2. CASE i \in 1..Len(Delivered) /\ Delivered'[i] = Delivered[i]
      BY <3>1, <3>2 DEF DeliveryInv, OrderInv, Once
    <3>3. CASE Delivered'[i] = t
      <4>1. Index(v) \in Nat
        BY <1>0 DEF Index, TypeOK
      <4> QED
        BY <1>4, <3>1, <3>3, <4>1
    <3> QED
      BY <1>10, <3>2, <3>3
  <2> QED
    BY <1>3, <2>2, <2>3 DEF Once
<1>13. (Undisturbed => Complete(Delivered))'
  <2>1. Undisturbed' => Undisturbed
    BY <1>3 DEF Undisturbed
  <2>2. ASSUME Complete(Delivered) PROVE Complete(Delivered)'
    <3> SUFFICES ASSUME NEW b \in Nat, NEW i \in 0..Unit - 1,
                        b * Unit + i < run.trials, b < nextBlock
                 PROVE  \/ \E v \in Workers : /\ pc'[v] \in Active /\ wk'[v].block = b
                                              /\ wk'[v].shift <= i
                        \/ \E j \in 1..Len(Delivered') :
                             Delivered'[j].index = b * Unit + i
      BY <1>3 DEF Complete
    <3>1. \/ \E v \in Workers : pc[v] \in Active /\ wk[v].block = b /\ wk[v].shift <= i
          \/ \E j \in 1..Len(Delivered) : Delivered[j].index = b * Unit + i
      BY <2>2 DEF Complete
    <3> QED
      BY <1>0, <1>7, <1>11, <3>1, SMTT(30)
  <2> QED
    BY <2>1, <2>2 DEF DeliveryInv, OrderInv
<1>14. consumer = "ranging" => Counted(Delivered)
  BY DEF DeliveryInv, OrderInv
<1>15. Primed(Delivered)'
  <2>1. Primed(Delivered)
    BY DEF DeliveryInv, OrderInv
  <2>2. CASE consumer = "ranging"
    <3>1. \A i \in 1..Len(Delivered) :
            Delivered[i].conn = t.conn => ~Measured(Delivered[i])
      BY <1>4, <1>6, <1>14, <2>2 DEF Counted
    <3>2. t.conn < nextConn
      BY <1>4, <1>6 DEF DeliveryInv, LocalInv, InStep
    <3>3. t.index < run.trials /\ t.index < nextBlock * Unit
      BY <1>0, <1>4
    <3>4. Primed(Append(Delivered, t))
      BY <1>0, <1>4, <2>1, <3>1, <3>2, <3>3, PrimedAppend
    <3> QED
      BY <1>3, <1>5, <2>2, <3>4 DEF Primed
  <2>3. CASE consumer # "ranging"
    BY <1>3, <1>5, <2>1, <2>3 DEF Primed
  <2> QED
    BY <2>2, <2>3
<1>16. (consumer = "ranging" => Counted(Delivered))'
  <2> SUFFICES ASSUME consumer = "ranging", NEW v \in Workers, LiveId(v)'
               PROVE  /\ Cardinality(WarmUps(Delivered', wk'[v].id, Len(Delivered')))
                           = wk'[v].primed - (IF pc'[v] = "emitWarm" THEN 1 ELSE 0)
                      /\ pc'[v] \in Priming => \A i \in 1..Len(Delivered') :
                           Delivered'[i].conn = wk'[v].id => ~Measured(Delivered'[i])
    BY <1>3 DEF Counted
  <2>1. /\ Cardinality(WarmUps(Delivered, wk[v].id, Len(Delivered)))
             = wk[v].primed - (IF pc[v] = "emitWarm" THEN 1 ELSE 0)
        /\ pc[v] \in Priming => \A i \in 1..Len(Delivered) :
             Delivered[i].conn = wk[v].id => ~Measured(Delivered[i])
    BY <1>6, <1>14 DEF Counted
  <2>2. Delivered' = Append(Delivered, t)
    BY <1>5
  <2>3. v # w => t.conn # wk[v].id /\ pc'[v] = pc[v]
    BY <1>1, <1>4, <1>6 DEF DeliveryInv, OrderInv, SharedInv
  <2>4. /\ t.conn = wk[v].id /\ ~Measured(t) => pc[v] = "emitWarm" /\ pc'[v] # "emitWarm"
        /\ t.conn # wk[v].id \/ Measured(t) => (pc'[v] = "emitWarm" <=> pc[v] = "emitWarm")
        /\ pc'[v] \in Priming => pc[v] \in Priming
    BY <1>1, <1>4, <1>6, <2>3
  <2> QED
    BY <1>0, <1>4, <1>7, <2>1, <2>2, <2>4, CountedAppend
<1> QED
  BY <1>8, <1>9, <1>12, <1>13, <1>15, <1>16 DEF OrderInv

\* The trial a worker emits was delivered by nobody, and is one of its block.
LEMMA FreshTrial ==
  ASSUME DeliveryInv, NEW w \in Workers, pc[w] = "emit"
  PROVE  /\ Index(w) < run.trials /\ Index(w) < nextBlock * Unit
         /\ Index(w) < wk[w].block * Unit + Unit
         /\ \A i \in 1..Len(Delivered) : Delivered[i].index # Index(w)
         /\ \A v \in Workers : v # w /\ pc[v] \in Active =>
              ~(Index(v) <= Index(w) /\ Index(w) < wk[v].block * Unit + Unit)
<1>0. /\ Unit \in Nat \ {0} /\ nextBlock \in Nat /\ run.trials \in Nat
      /\ \A v \in Workers : /\ wk[v].block \in Nat /\ wk[v].shift \in Nat
                            /\ wk[v].block * Unit \in Nat /\ Index(v) \in Nat
  BY StateFacts DEF DeliveryInv
<1>1. /\ pc[w] \in Active /\ pc[w] \in Active \ {"trial"}
  BY DEF Active, Places
<1>2. /\ Index(w) < run.trials /\ wk[w].shift < Unit /\ wk[w].block < nextBlock
  BY <1>1 DEF DeliveryInv, LocalInv, InStep
<1>3. /\ Index(w) = wk[w].block * Unit + wk[w].shift
      /\ Index(w) < wk[w].block * Unit + Unit
  BY <1>0, <1>2 DEF Index
<1>4. Index(w) < nextBlock * Unit
  <2>1. wk[w].block * Unit + Unit <= nextBlock * Unit
    BY <1>0, <1>2, BlocksApart
  <2> QED
    BY <1>0, <1>2, <1>3, <2>1
<1>5. \A i \in 1..Len(Delivered) : Delivered[i].index # Index(w)
  BY <1>0, <1>1, <1>3, SMTT(30) DEF DeliveryInv, OrderInv, Once
<1>6. ASSUME NEW v \in Workers, v # w, pc[v] \in Active
      PROVE  ~(Index(v) <= Index(w) /\ Index(w) < wk[v].block * Unit + Unit)
  <2>1. Index(v) = wk[v].block * Unit + wk[v].shift
    BY DEF Index
  <2>2. wk[v].block # wk[w].block
    BY <1>1, <1>6 DEF DeliveryInv, OrderInv, SharedInv
  <2>3. CASE wk[v].block < wk[w].block
    <3>1. wk[v].block * Unit + Unit <= wk[w].block * Unit
      BY <1>0, <2>3, BlocksApart
    <3> QED
      BY <1>0, <1>3, <3>1
  <2>4. CASE wk[w].block < wk[v].block
    <3>1. wk[w].block * Unit + Unit <= wk[v].block * Unit
      BY <1>0, <2>4, BlocksApart
    <3> QED
      BY <1>0, <1>3, <2>1, <3>1
  <2> QED
    BY <1>0, <2>2, <2>3, <2>4
<1> QED
  BY <1>2, <1>3, <1>4, <1>5, <1>6

\* emit delivers a measured trial.
LEMMA EmitMoves ==
  ASSUME DeliveryInv, NEW w \in Workers, Emit(w)
  PROVE  OrderInv'
<1> DEFINE to == IF wk[w].shift + 1 < Unit THEN "trial" ELSE "draw"
           t == [index |-> Index(w), conn |-> wk[w].id]
<1>0. /\ TypeOK /\ nextConn \in Nat /\ run.trials \in Nat /\ Unit \in Nat \ {0}
      /\ \A v \in Workers : /\ wk[v].id \in Nat /\ wk[v].block \in Nat
                            /\ wk[v].shift \in Nat /\ Index(v) \in Nat
                            /\ wk[v].block * Unit \in Nat
      /\ Delivered \in Seq(Trial) /\ Len(Delivered) \in Nat
  <2>1. TypeOK
    BY DEF DeliveryInv
  <2> QED
    BY <2>1, StateFacts
<1>1. /\ pc[w] = "emit" /\ pc'[w] = to
      /\ \A v \in Workers \ {w} : pc'[v] = pc[v]
  BY <1>0 DEF Emit, Goto, TypeOK
<1>2. /\ Alone(w) /\ \A v \in Workers \ {w} : wk'[v] = wk[v]
      /\ wk'[w].block = wk[w].block /\ wk'[w].shift = wk[w].shift + 1
      /\ wk'[w].id = wk[w].id /\ wk'[w].primed = wk[w].primed
      /\ wk'[w].conn = wk[w].conn
  BY <1>0, EmitSets DEF Alone
<1>3. /\ UNCHANGED <<run, nextBlock, nextConn, consumer, yielded, stop, fatal>>
      /\ Send(t)
  BY DEF Emit, shared, ending, client
<1>4. t \in Trial /\ Measured(t) /\ t.conn = wk[w].id /\ t.index = Index(w)
  BY <1>0 DEF Trial, Measured, noCoord
<1> HIDE DEF t
<1>5. /\ consumer = "ranging" => Delivered' = Append(Delivered, t)
      /\ consumer # "ranging" => Delivered' = Delivered
  BY <1>0, <1>3, <1>4, SendDelivers
<1>6. /\ LiveId(w) /\ pc[w] \in Active /\ pc[w] \notin Priming /\ pc'[w] \notin Priming
      /\ \A v \in Workers : LiveId(v)' => LiveId(v)
      /\ \A v \in Workers : pc'[v] \in Active => pc[v] \in Active
      /\ pc'[w] \notin {"leave", "done"} /\ pc'[w] # "emitWarm"
      /\ pc'[w] = "trial" <=> pc'[w] \in Active
  BY <1>1, <1>2 DEF LiveId, Active, Places, Priming, Held
<1>7. /\ \A v \in Workers : /\ wk'[v].block = wk[v].block
                            /\ wk'[v].id = wk[v].id /\ wk'[v].primed = wk[v].primed
      /\ \A v \in Workers : v # w => wk'[v].shift = wk[v].shift /\ Index(v)' = Index(v)
      /\ Index(w)' = Index(w) + 1
  <2>1. \A v \in Workers : /\ wk'[v].block = wk[v].block
                           /\ wk'[v].id = wk[v].id /\ wk'[v].primed = wk[v].primed
                           /\ v # w => wk'[v].shift = wk[v].shift
    BY <1>2
  <2>2. \A v \in Workers : v # w => Index(v)' = Index(v)
    BY <1>2 DEF Index
  <2>3. /\ Index(w)' = wk[w].block * Unit + (wk[w].shift + 1)
        /\ Index(w) = wk[w].block * Unit + wk[w].shift
    BY <1>2 DEF Index
  <2>4. Index(w)' = Index(w) + 1
    <3> DEFINE p == wk[w].block * Unit
    <3>1. p \in Nat /\ wk[w].shift \in Nat
      BY <1>0
    <3>2. Index(w)' = p + (wk[w].shift + 1) /\ Index(w) = p + wk[w].shift
      BY <2>3
    <3> HIDE DEF p
    <3> QED
      BY <3>1, <3>2
  <2> QED
    BY <2>1, <2>2, <2>4
<1>8. SharedInv'
  BY <1>6, <1>7 DEF DeliveryInv, OrderInv, SharedInv
<1>9. EndInv'
  BY <1>1, <1>3, <1>6 DEF DeliveryInv, OrderInv, EndInv, Undisturbed, BlockAvailable
<1>f. /\ Index(w) < run.trials /\ Index(w) < nextBlock * Unit
      /\ Index(w) < wk[w].block * Unit + Unit
      /\ \A i \in 1..Len(Delivered) : Delivered[i].index # Index(w)
      /\ \A v \in Workers : v # w /\ pc[v] \in Active =>
           ~(Index(v) <= Index(w) /\ Index(w) < wk[v].block * Unit + Unit)
  BY <1>1, FreshTrial
<1>10. consumer = "ranging" =>
         /\ Len(Delivered') = Len(Delivered) + 1
         /\ Delivered'[Len(Delivered) + 1] = t
         /\ \A j \in 1..Len(Delivered) : Delivered'[j] = Delivered[j]
  BY <1>0, <1>4, <1>5, AppendProperties
<1>11. \A i \in 1..Len(Delivered) : Delivered[i].index \in Int
  BY <1>0, StateFacts DEF noCoord
<1>12. Once(Delivered)'
  <2>1. \A v \in Workers, i \in 1..Len(Delivered) : pc'[v] \in Active =>
          ~(Index(v)' <= Delivered[i].index
              /\ Delivered[i].index < wk'[v].block * Unit + Unit)
    <3> SUFFICES ASSUME NEW v \in Workers, NEW i \in 1..Len(Delivered),
                        pc'[v] \in Active, Index(v)' <= Delivered[i].index,
                        Delivered[i].index < wk'[v].block * Unit + Unit
                 PROVE  FALSE
      OBVIOUS
    <3>1. Index(v) <= Delivered[i].index
      BY <1>0, <1>7, <1>11
    <3> QED
      BY <1>6, <1>7, <3>1 DEF DeliveryInv, OrderInv, Once
  <2>2. CASE consumer = "ranging"
    <3>1. \A i, j \in 1..Len(Delivered') :
            Measured(Delivered'[i]) /\ Delivered'[i].index = Delivered'[j].index => i = j
      <4>1. \A i, j \in 1..Len(Delivered) :
              Measured(Delivered[i]) /\ Delivered[i].index = Delivered[j].index => i = j
        BY DEF DeliveryInv, OrderInv, Once
      <4>2. \A i \in 1..Len(Delivered) : Delivered'[i].index # t.index
        BY <1>4, <1>10, <1>f, <2>2
      <4>3. \A i \in 1..Len(Delivered') : i \in 1..Len(Delivered) \/ i = Len(Delivered) + 1
        BY <1>0, <1>10, <2>2
      <4> QED
        BY <1>10, <2>2, <4>1, <4>2, <4>3
    <3>2. \A v \in Workers : pc'[v] \in Active =>
            ~(Index(v)' <= t.index /\ t.index < wk'[v].block * Unit + Unit)
      <4>1. ~(Index(w)' <= t.index)
        BY <1>0, <1>4, <1>7
      <4>2. ASSUME NEW v \in Workers, v # w, pc'[v] \in Active
            PROVE  ~(Index(v)' <= t.index /\ t.index < wk'[v].block * Unit + Unit)
        <5>1. pc[v] \in Active /\ Index(v)' = Index(v) /\ wk'[v].block = wk[v].block
          BY <1>6, <1>7, <4>2
        <5> QED
          BY <1>4, <1>f, <4>2, <5>1
      <4> QED
        BY <4>1, <4>2
    <3>3. \A v \in Workers, i \in 1..Len(Delivered') : pc'[v] \in Active =>
            ~(Index(v)' <= Delivered'[i].index
                /\ Delivered'[i].index < wk'[v].block * Unit + Unit)
      BY <1>0, <1>10, <2>1, <2>2, <3>2, SMTT(30)
    <3> QED
      BY <3>1, <3>3 DEF Once
  <2>3. CASE consumer # "ranging"
    <3>1. \A i, j \in 1..Len(Delivered) :
            Measured(Delivered[i]) /\ Delivered[i].index = Delivered[j].index => i = j
      BY DEF DeliveryInv, OrderInv, Once
    <3> QED
      BY <1>5, <2>1, <2>3, <3>1 DEF Once
  <2> QED
    BY <2>2, <2>3
<1>13. (Undisturbed => Complete(Delivered))'
  <2> SUFFICES ASSUME Undisturbed, NEW b \in Nat, NEW i \in 0..Unit - 1,
                      b * Unit + i < run.trials, b < nextBlock
               PROVE  \/ \E v \in Workers : /\ pc'[v] \in Active /\ wk'[v].block = b
                                            /\ wk'[v].shift <= i
                      \/ \E j \in 1..Len(Delivered') :
                           Delivered'[j].index = b * Unit + i
    BY <1>3 DEF Complete, Undisturbed
  <2>1. consumer = "ranging"
    BY <1>0, <1>1 DEF DeliveryInv, OrderInv, EndInv, RunInv, TypeOK
  <2>2. \/ \E v \in Workers : pc[v] \in Active /\ wk[v].block = b /\ wk[v].shift <= i
        \/ \E j \in 1..Len(Delivered) : Delivered[j].index = b * Unit + i
    BY DEF DeliveryInv, OrderInv, Complete
  <2>3. CASE \E j \in 1..Len(Delivered) : Delivered[j].index = b * Unit + i
    BY <1>0, <1>10, <2>1, <2>3
  <2>4. ASSUME NEW v \in Workers, v # w,
               pc[v] \in Active, wk[v].block = b, wk[v].shift <= i
        PROVE  pc'[v] \in Active /\ wk'[v].block = b /\ wk'[v].shift <= i
    BY <1>1, <1>2, <2>4
  <2>5. CASE wk[w].block = b /\ wk[w].shift = i
    <3>1. t.index = b * Unit + i
      BY <1>4, <2>5 DEF Index
    <3>2. Delivered'[Len(Delivered) + 1].index = b * Unit + i
      BY <1>10, <2>1, <3>1
    <3>3. Len(Delivered) + 1 \in 1..Len(Delivered')
      BY <1>0, <1>10, <2>1
    <3> QED
      BY <3>2, <3>3
  <2>6. CASE wk[w].block = b /\ wk[w].shift <= i /\ wk[w].shift # i
    <3>0. wk[w].shift \in Nat /\ i \in Nat /\ Unit \in Nat /\ i < Unit
      BY <1>0
    <3>1. wk[w].shift + 1 <= i /\ wk[w].shift + 1 < Unit
      BY <2>6, <3>0
    <3> QED
      BY <1>1, <1>2, <1>6, <2>6, <3>1
  <2> QED
    BY <2>2, <2>3, <2>4, <2>5, <2>6
<1>14. consumer = "ranging" => Counted(Delivered)
  BY DEF DeliveryInv, OrderInv
<1>15. Primed(Delivered)'
  <2>1. Primed(Delivered)
    BY DEF DeliveryInv, OrderInv
  <2>2. CASE consumer = "ranging"
    <3>1. Cardinality(WarmUps(Delivered, t.conn, Len(Delivered))) = run.warmup
      <4>1. Cardinality(WarmUps(Delivered, wk[w].id, Len(Delivered))) = wk[w].primed - 0
        BY <1>1, <1>6, <1>14, <2>2 DEF Counted
      <4>2. wk[w].primed = run.warmup /\ run.warmup \in Nat
        BY <1>0, <1>6, StateFacts DEF DeliveryInv, LocalInv, InStep
      <4> QED
        BY <1>4, <4>1, <4>2
    <3>2. t.conn < nextConn
      BY <1>4, <1>6 DEF DeliveryInv, LocalInv, InStep
    <3>3. Primed(Append(Delivered, t))
      BY <1>0, <1>4, <1>f, <2>1, <3>1, <3>2, PrimedAppend
    <3> QED
      BY <1>3, <1>5, <2>2, <3>3 DEF Primed
  <2>3. CASE consumer # "ranging"
    BY <1>3, <1>5, <2>1, <2>3 DEF Primed
  <2> QED
    BY <2>2, <2>3
<1>16. (consumer = "ranging" => Counted(Delivered))'
  <2> SUFFICES ASSUME consumer = "ranging", NEW v \in Workers, LiveId(v)'
               PROVE  /\ Cardinality(WarmUps(Delivered', wk'[v].id, Len(Delivered')))
                           = wk'[v].primed - (IF pc'[v] = "emitWarm" THEN 1 ELSE 0)
                      /\ pc'[v] \in Priming => \A i \in 1..Len(Delivered') :
                           Delivered'[i].conn = wk'[v].id => ~Measured(Delivered'[i])
    BY <1>3 DEF Counted
  <2>1. /\ Cardinality(WarmUps(Delivered, wk[v].id, Len(Delivered)))
             = wk[v].primed - (IF pc[v] = "emitWarm" THEN 1 ELSE 0)
        /\ pc[v] \in Priming => \A i \in 1..Len(Delivered) :
             Delivered[i].conn = wk[v].id => ~Measured(Delivered[i])
    BY <1>6, <1>14 DEF Counted
  <2>2. Delivered' = Append(Delivered, t)
    BY <1>5
  <2>3. v # w => t.conn # wk[v].id /\ pc'[v] = pc[v]
    BY <1>1, <1>4, <1>6 DEF DeliveryInv, OrderInv, SharedInv
  <2>4. /\ pc'[v] = "emitWarm" <=> pc[v] = "emitWarm"
        /\ pc'[v] \in Priming => pc[v] \in Priming /\ (t.conn = wk[v].id => ~Measured(t))
    BY <1>1, <1>6, <2>3
  <2> QED
    BY <1>0, <1>4, <1>7, <2>1, <2>2, <2>4, CountedAppend
<1> QED
  BY <1>8, <1>9, <1>12, <1>13, <1>15, <1>16 DEF OrderInv

-----------------------------------------------------------------------------
\* As long as a worker has not returned, the range over the channel has not ended.
LEMMA NotEnded ==
  ASSUME DeliveryInv, NEW w \in Workers, pc[w] # "done"
  PROVE  stop # "end" /\ (Undisturbed <=> ~Stopping)
BY DEF DeliveryInv, RunInv, OrderInv, EndInv, Undisturbed, Stopping

\* A worker that finds its trial past the bound leaves when no block is left.
LEMMA PastBound ==
  ASSUME DeliveryInv, NEW w \in Workers, pc[w] \in Active, Index(w) >= run.trials
  PROVE  ~BlockAvailable(nextBlock)
<1>1. /\ run.trials \in Nat \ {0} /\ Unit \in Nat \ {0} /\ nextBlock \in Nat
      /\ wk[w].block \in Nat /\ wk[w].shift \in Nat
      /\ wk[w].shift < Unit /\ wk[w].block < nextBlock
  BY StateFacts DEF DeliveryInv, LocalInv, InStep
<1>2. wk[w].block * Unit + Unit <= nextBlock * Unit
  BY <1>1, BlocksApart
<1>3. wk[w].block * Unit \in Nat /\ nextBlock * Unit \in Nat
  BY <1>1
<1>4. ~(nextBlock * Unit < run.trials)
  BY <1>1, <1>2, <1>3 DEF Index
<1> QED
  BY <1>1, <1>4, BlockBound DEF BlockAvailable

\* A worker that keeps its trial and moves on without a new connection stays in
\* step, if it knows the trial to be within the bound and has done its priming.
LEMMA KeepInStep ==
  ASSUME DeliveryInv, NEW w \in Workers, NEW from, NEW to, Goto(w, from, to),
         Keeping(w), UNCHANGED <<run, nextBlock, nextConn>>,
         to \in Active => from \in Active,
         to \in Active \ {"trial"} =>
           from \in Active \ {"trial"} \/ Index(w) < run.trials,
         LiveId(w)' => LiveId(w) /\ (to \notin Priming =>
           from \notin Priming \/ wk[w].primed = run.warmup),
         to # "acquired", to # "emitWarm", to = "warm" => wk[w].primed < run.warmup,
         wk'[w].replaced = 2 => to \in {"terminal", "abort", "leave"}
  PROVE  InStep(w)'
<1>1. pc[w] = from /\ pc'[w] = to
  BY DEF Goto, DeliveryInv, TypeOK
<1>2. /\ wk'[w].block = wk[w].block /\ wk'[w].shift = wk[w].shift
      /\ wk'[w].id = wk[w].id /\ wk'[w].primed = wk[w].primed
  BY DEF Keeping
<1>3. Index(w)' = Index(w) /\ (BlockAvailable(wk[w].block)' <=> BlockAvailable(wk[w].block))
  BY <1>2 DEF Index, BlockAvailable
<1>4. InStep(w)
  BY DEF DeliveryInv, LocalInv
<1> QED
  BY <1>1, <1>2, <1>3, <1>4 DEF InStep, BlockAvailable

\* The head of a trial.
LEMMA BeginKeeps ==
  ASSUME DeliveryInv, NEW w \in Workers, Begin(w)
  PROVE  Keeping(w) /\ InStep(w)' /\ OrderInv'
<1> DEFINE to == IF ~TrialAvailable(Index(w)) \/ Stopping THEN "leave"
                 ELSE IF ctxDone THEN "abort" ELSE "acquire"
<1>1. Goto(w, "trial", to) /\ pc[w] = "trial" /\ pc'[w] = to
  BY DEF Begin, Goto, DeliveryInv, TypeOK
<1>2. /\ Keeping(w) /\ wk'[w].conn = wk[w].conn /\ wk'[w].replaced = 0
  BY BeginSets DEF DeliveryInv
<1>3. UNCHANGED <<run, nextBlock, nextConn, out, consumer, yielded, stop, fatal>>
  BY DEF Begin, shared, channel, ending, client
<1>4. "trial" \in Active /\ "trial" \notin Priming
  BY DEF Active, Places, Priming
<1>5. to \in {"leave", "abort", "acquire"}
  OBVIOUS
<1>6. LiveId(w)' => LiveId(w) /\ to = "acquire"
  BY <1>1, <1>2, <1>5 DEF LiveId, Held, Priming
<1>7. to \in Active => TrialAvailable(Index(w))
  BY DEF Active
<1>8. to \notin Active /\ Undisturbed => Index(w) >= run.trials
  <2>1. Undisturbed => ~Stopping
    BY <1>1, NotEnded
  <2>2. Index(w) \in Nat /\ run.trials \in Nat
    BY StateFacts DEF DeliveryInv
  <2>3. to # "leave" => to \in Active
    BY DEF Active, Places
  <2> QED
    BY <2>1, <2>2, <2>3 DEF TrialAvailable
<1>9. Index(w) >= run.trials => ~BlockAvailable(nextBlock)
  BY <1>1, <1>4, PastBound
<1>10. to \in {"leave", "done"} => to \notin Active
  BY DEF Active
<1> HIDE DEF to
<1>11. InStep(w)'
  BY <1>1, <1>2, <1>3, <1>4, <1>5, <1>6, <1>7, KeepInStep DEF TrialAvailable
<1>12. OrderInv'
  <2>1. to \notin Priming /\ to # "emitWarm"
    BY <1>5 DEF Priming
  <2> QED
    BY <1>1, <1>2, <1>3, <1>4, <1>6, <1>8, <1>9, <1>10, <2>1, QuietMoves
    DEF Undisturbed
<1> QED
  BY <1>2, <1>11, <1>12

\* A worker that finds the run stopped leaves.
LEMMA StoppedLeaves ==
  ASSUME DeliveryInv, NEW w \in Workers, NEW from, from # "done",
         Goto(w, from, "leave"), Stopping, Keeping(w),
         UNCHANGED <<run, nextBlock, nextConn, out, consumer, yielded, stop, fatal>>
  PROVE  InStep(w)' /\ OrderInv'
<1>1. pc[w] = from /\ pc'[w] = "leave"
  BY DEF Goto, DeliveryInv, TypeOK
<1>2. ~Undisturbed
  BY <1>1, NotEnded
<1>3. ~Undisturbed'
  BY <1>2 DEF Undisturbed
<1>4. ~LiveId(w)'
  BY <1>1 DEF LiveId, Priming
<1>5. "leave" \notin Active /\ "leave" \notin Priming
  BY DEF Active, Priming
<1>6. InStep(w)'
  BY <1>4, <1>5, KeepInStep
<1>7. OrderInv'
  BY <1>3, <1>4, <1>5, QuietMoves
<1> QED
  BY <1>6, <1>7

\* Nothing changed is kept.
LEMMA SameKeeps ==
  ASSUME TypeOK, NEW w \in Workers, UNCHANGED wk
  PROVE  Keeping(w) /\ wk'[w].conn = wk[w].conn /\ wk'[w].replaced = wk[w].replaced
BY DEF TypeOK, Keeping, Alone

\* A worker that goes on with its trial and its connection, from one place to the
\* next: the form most quiet steps have.
LEMMA GoesOn ==
  ASSUME DeliveryInv, NEW w \in Workers, NEW from \in Active \ {"trial"},
         NEW to \in Active \ {"trial"}, Goto(w, from, to), Keeping(w),
         UNCHANGED <<run, nextBlock, nextConn, out, consumer, yielded>>,
         from # "emitWarm", to # "emitWarm", to # "acquired",
         LiveId(w)' => LiveId(w) /\ (to \in Priming => from \in Priming)
           /\ (to \notin Priming => from \notin Priming \/ wk[w].primed = run.warmup),
         to = "warm" => wk[w].primed < run.warmup,
         wk'[w].replaced = 2 => to \in {"terminal", "abort"},
         \/ UNCHANGED <<stop, fatal>>
         \/ stop' \notin {"none", "end"}
  PROVE  InStep(w)' /\ OrderInv'
<1>1. InStep(w)'
  BY KeepInStep
<1>2. to \in Active /\ from \in Active /\ to \notin {"leave", "done"}
  BY DEF Active
<1>3. OrderInv'
  BY <1>2, QuietMoves DEF Undisturbed
<1> QED
  BY <1>1, <1>3

\* The ways out of the steps that acquire and prime a connection.
LEMMA AcquireKeeps ==
  ASSUME DeliveryInv, NEW w \in Workers,
         \/ AcquireHeld(w) \/ Acquired(w) \/ EmitStopped(w)
         \/ \E o \in {"lost", "cancelled"} : AcquireFail(w, o)
  PROVE  Keeping(w) /\ InStep(w)' /\ OrderInv'
<1> USE DEF shared, channel, ending, client
<1>0. TypeOK /\ InStep(w) /\ run.warmup \in Nat
  BY StateFacts DEF DeliveryInv, LocalInv
<1>a. /\ {"acquire", "acquired", "warm", "send", "terminal", "emit", "emitWarm"}
           \subseteq Active \ {"trial"}
      /\ {"acquire", "send", "terminal"} \cap Priming = {}
      /\ "warm" \in Priming /\ "acquired" \in Priming
  BY DEF Active, Places, Priming
<1>1. CASE AcquireHeld(w)
  <2>1. Keeping(w) /\ wk'[w].conn = wk[w].conn /\ wk'[w].replaced = wk[w].replaced
    BY <1>0, <1>1, SameKeeps DEF AcquireHeld
  <2>2. CASE Stopping
    BY <1>1, <2>1, <2>2, StoppedLeaves DEF AcquireHeld
  <2>3. CASE ~Stopping
    <3>1. Goto(w, "acquire", "send") /\ pc[w] = "acquire" /\ Held(w)
      BY <1>1, <2>3 DEF AcquireHeld, Goto
    <3>2. LiveId(w) /\ wk[w].replaced # 2
      BY <1>0, <3>1 DEF LiveId, InStep
    <3> QED
      BY <1>1, <1>a, <2>1, <3>1, <3>2, GoesOn DEF AcquireHeld
  <2> QED
    BY <2>2, <2>3
<1>2. CASE Acquired(w)
  <2>1. Keeping(w) /\ wk'[w].conn = wk[w].conn /\ wk'[w].replaced = wk[w].replaced
    BY <1>0, <1>2, SameKeeps DEF Acquired
  <2>2. CASE Stopping
    BY <1>2, <2>1, <2>2, StoppedLeaves DEF Acquired
  <2>3. CASE ~Stopping
    <3> DEFINE to == IF run.warmup > 0 THEN "warm" ELSE "send"
    <3>1. Goto(w, "acquired", to) /\ pc[w] = "acquired"
      BY <1>2, <2>3 DEF Acquired, Goto
    <3>2. LiveId(w) /\ wk[w].replaced # 2 /\ wk[w].primed = 0
      BY <1>0, <1>a, <3>1 DEF LiveId, InStep
    <3>3. /\ to \in {"warm", "send"}
          /\ to = "warm" => wk[w].primed < run.warmup
          /\ to = "send" => wk[w].primed = run.warmup
      BY <1>0, <3>2
    <3> HIDE DEF to
    <3> QED
      BY <1>2, <1>a, <2>1, <3>1, <3>2, <3>3, GoesOn DEF Acquired
  <2> QED
    BY <2>2, <2>3
<1>3. CASE EmitStopped(w)
  <2>1. Keeping(w)
    BY <1>0, <1>3, SameKeeps DEF EmitStopped
  <2> QED
    BY <1>3, <2>1, StoppedLeaves DEF EmitStopped
<1>4. ASSUME NEW o \in {"lost", "cancelled"}, AcquireFail(w, o)
      PROVE  Keeping(w) /\ InStep(w)' /\ OrderInv'
  <2>1. Keeping(w) /\ wk'[w].conn = wk[w].conn
    BY <1>0, <1>4, OutcomeSets DEF AcquireFail, Outcomes
  <2>2. Goto(w, "acquire", "terminal") /\ pc'[w] = "terminal"
    BY <1>0, <1>4 DEF AcquireFail, Goto, TypeOK
  <2>3. ~LiveId(w)'
    BY <2>2 DEF LiveId, Priming
  <2> QED
    BY <1>4, <1>a, <2>1, <2>2, <2>3, GoesOn DEF AcquireFail
<1> QED
  BY <1>1, <1>2, <1>3, <1>4

\* However the measured batch ends, the worker keeps the trial.
LEMMA SendKeeps ==
  ASSUME DeliveryInv, NEW w \in Workers, NEW o \in Outcomes,
         SendFatal(w, o) \/ SendEnd(w, o) \/ SendStale(w, o) \/ SendReplace(w, o)
  PROVE  Keeping(w) /\ InStep(w)' /\ OrderInv'
<1> USE DEF shared, channel, ending, client
<1>0. TypeOK /\ InStep(w)
  BY DEF DeliveryInv, LocalInv
<1>1. pc[w] = "send"
  BY DEF SendFatal, SendEnd, SendStale, SendReplace, Replace, Goto
<1>2. wk[w].replaced \in {0, 1}
  BY <1>0, <1>1 DEF TypeOK, Worker, InStep
<1>a. /\ {"acquire", "send", "terminal", "abort", "emit"} \subseteq Active \ {"trial"}
      /\ {"acquire", "send", "terminal", "abort", "emit"} \cap Priming = {}
      /\ "ok" \in Outcomes
  BY DEF Active, Places, Priming, Outcomes
<1>b. LiveId(w)
  BY <1>1 DEF LiveId
<1>3. ASSUME NEW left \in Outcomes, wk' = [wk EXCEPT ![w] = Disposed(w, o, left)]
      PROVE  Keeping(w) /\ wk'[w].replaced = wk[w].replaced
  BY <1>0, <1>3, SendSets
<1>4. CASE SendFatal(w, o)
  <2>1. Keeping(w) /\ wk'[w].replaced = wk[w].replaced
    BY <1>3, <1>4 DEF SendFatal
  <2> QED
    BY <1>2, <1>4, <1>a, <1>b, <2>1, GoesOn DEF SendFatal
<1>5. CASE SendEnd(w, o)
  <2>1. Keeping(w) /\ wk'[w].replaced = wk[w].replaced
    BY <1>3, <1>5, <1>a DEF SendEnd
  <2> QED
    BY <1>2, <1>5, <1>a, <1>b, <2>1, GoesOn DEF SendEnd
<1>6. CASE SendStale(w, o)
  <2>1. Keeping(w) /\ wk'[w].replaced = wk[w].replaced
    BY <1>3, <1>6 DEF SendStale
  <2> QED
    BY <1>2, <1>6, <1>a, <1>b, <2>1, GoesOn DEF SendStale
<1>7. CASE SendReplace(w, o)
  <2> DEFINE d == Disposed(w, o, o)
             n == wk[w].replaced + 1
             to == IF wk[w].replaced = 0 THEN "acquire" ELSE "terminal"
  <2>1. /\ d \in Worker /\ d.replaced = wk[w].replaced
        /\ d.block = wk[w].block /\ d.shift = wk[w].shift /\ d.id = wk[w].id
        /\ d.primed = wk[w].primed /\ d.conn \in {wk[w].conn, NoConn}
    BY <1>0, DisposedSets
  <2>2. wk' = [wk EXCEPT ![w] = [d EXCEPT !.replaced = d.replaced + 1]]
    BY <1>7 DEF SendReplace
  <2> HIDE DEF d
  <2>3. n \in 0..2 /\ wk' = [wk EXCEPT ![w] = [d EXCEPT !.replaced = n]]
    BY <1>2, <2>1, <2>2
  <2>4. Keeping(w) /\ wk'[w].replaced = n
    BY <1>0, <2>1, <2>3, ReplaceSets
  <2>5. Goto(w, "send", to)
    BY <1>7 DEF SendReplace, Replace
  <2>6. to \in {"acquire", "terminal"} /\ (n = 2 => to = "terminal")
    BY <1>2
  <2> HIDE DEF n, to
  <2> QED
    BY <1>7, <1>a, <1>b, <2>4, <2>5, <2>6, GoesOn DEF SendReplace
<1> QED
  BY <1>4, <1>5, <1>6, <1>7

\* A terminal failure ends the worker, and an abort stops the run.
LEMMA AbortKeeps ==
  ASSUME DeliveryInv, NEW w \in Workers, Terminal(w) \/ Abort(w)
  PROVE  Keeping(w) /\ InStep(w)' /\ OrderInv'
<1> USE DEF shared, channel, ending, client
<1>0. TypeOK
  BY DEF DeliveryInv
<1>a. /\ "terminal" \in Active \ {"trial"} /\ "abort" \in Active \ {"trial"}
      /\ "terminal" \notin Priming /\ "abort" \notin Priming
      /\ "leave" \notin Active
  BY DEF Active, Places, Priming
<1>1. CASE Terminal(w)
  <2> DEFINE o == IF wk[w].outcome = "padding" /\ ~ctxDone
                  THEN wk[w].outcome ELSE "ok"
  <2>1. o \in Outcomes
    BY DEF Outcomes
  <2>2. wk' = [wk EXCEPT ![w].outcome = o]
    BY <1>1 DEF Terminal
  <2> HIDE DEF o
  <2>3. Keeping(w)
    BY <1>0, <2>1, <2>2, OutcomeSets
  <2>4. CASE Stopping
    BY <1>1, <2>3, <2>4, StoppedLeaves DEF Terminal
  <2>5. CASE ~Stopping
    <3>1. Goto(w, "terminal", "abort") /\ pc'[w] = "abort"
      BY <1>0, <1>1, <2>5 DEF Terminal, Goto, TypeOK
    <3>2. ~LiveId(w)'
      BY <3>1 DEF LiveId, Priming
    <3> QED
      BY <1>1, <1>a, <2>3, <3>1, <3>2, GoesOn DEF Terminal
  <2> QED
    BY <2>3, <2>4, <2>5
<1>2. CASE Abort(w)
  <2>1. Keeping(w)
    BY <1>0, <1>2, SameKeeps DEF Abort
  <2>2. pc[w] = "abort" /\ pc'[w] = "leave" /\ Goto(w, "abort", "leave")
    BY <1>0, <1>2 DEF Abort, Goto, TypeOK
  <2>3. stop' \notin {"none", "end"}
    BY <1>2, <2>2, NotEnded DEF Abort, StopRun, Stopping
  <2>4. ~LiveId(w)'
    BY <2>2 DEF LiveId, Priming
  <2>5. InStep(w)'
    BY <1>2, <1>a, <2>1, <2>2, <2>4, KeepInStep DEF Abort
  <2>6. OrderInv'
    BY <1>2, <1>a, <2>1, <2>2, <2>3, <2>4, QuietMoves DEF Abort, Undisturbed
  <2> QED
    BY <2>1, <2>5, <2>6
<1> QED
  BY <1>1, <1>2

\* emit of a priming outcome: the next batch, the trial, or a new connection.
LEMMA EmitWarmKeeps ==
  ASSUME DeliveryInv, NEW w \in Workers, EmitWarm(w)
  PROVE  Keeping(w) /\ InStep(w)' /\ OrderInv'
<1> USE DEF shared, ending, client
<1>0. TypeOK /\ InStep(w) /\ run.warmup \in Nat /\ wk[w] \in Worker
      /\ wk[w].primed \in Nat /\ wk[w].primed <= run.warmup
  BY StateFacts DEF DeliveryInv, LocalInv, TypeOK
<1>1. pc[w] = "emitWarm"
  BY DEF EmitWarm, Replace, Goto
<1>2. wk[w].replaced \in {0, 1}
  BY <1>0, <1>1 DEF Worker, InStep
<1>a. /\ {"acquire", "send", "terminal", "warm", "emitWarm"} \subseteq Active \ {"trial"}
      /\ {"acquire", "send", "terminal"} \cap Priming = {}
      /\ "ok" \in Outcomes
  BY DEF Active, Places, Priming, Outcomes
<1>b. LiveId(w)
  BY <1>1 DEF LiveId, Priming
<1>3. ASSUME NEW to \in {"warm", "send", "terminal", "acquire"},
             Goto(w, "emitWarm", to), Keeping(w),
             to = "acquire" => ~Held(w),
             to = "warm" => wk[w].primed < run.warmup,
             to = "send" => wk[w].primed = run.warmup,
             wk'[w].replaced = 2 => to = "terminal"
      PROVE  Keeping(w) /\ InStep(w)' /\ OrderInv'
  <2>1. OrderInv'
    BY <1>3, EmitWarmMoves
  <2>2. UNCHANGED <<run, nextBlock, nextConn>>
    BY DEF EmitWarm
  <2>3. pc'[w] = to /\ to \in Active \ {"trial"} /\ "emitWarm" \in Active \ {"trial"}
        /\ to # "acquired" /\ to # "emitWarm"
    BY <1>0, <1>3, <1>a DEF Goto, TypeOK
  <2>4. LiveId(w)' => to \in {"warm", "send"}
    <3>1. ~Held(w) => ~Held(w)'
      BY <1>3 DEF Keeping, Held
    <3> QED
      BY <1>3, <2>3, <3>1 DEF LiveId, Priming
  <2>5. InStep(w)'
    BY <1>3, <1>b, <2>2, <2>3, <2>4, KeepInStep DEF Priming
  <2> QED
    BY <1>3, <2>1, <2>5
<1>4. CASE /\ Goto(w, "emitWarm", WarmNext(w))
           /\ wk' = [wk EXCEPT ![w].outcome = "ok"]
  <2>1. Keeping(w) /\ wk'[w].replaced = wk[w].replaced
    BY <1>0, <1>4, <1>a, OutcomeSets
  <2>2. /\ WarmNext(w) \in {"warm", "send"}
        /\ WarmNext(w) = "warm" => wk[w].primed < run.warmup
        /\ WarmNext(w) = "send" => wk[w].primed = run.warmup
    BY <1>0 DEF WarmNext
  <2> QED
    BY <1>2, <1>3, <1>4, <2>1, <2>2
<1>5. CASE Goto(w, "emitWarm", "terminal") /\ UNCHANGED wk
  <2>1. Keeping(w) /\ wk'[w].replaced = wk[w].replaced
    BY <1>0, <1>5, SameKeeps
  <2> QED
    BY <1>2, <1>3, <1>5, <2>1
<1>6. CASE /\ ~Held(w) /\ Replace(w, "emitWarm")
           /\ wk' = [wk EXCEPT ![w].replaced = @ + 1]
  <2> DEFINE d == wk[w]
             n == wk[w].replaced + 1
             to == IF wk[w].replaced = 0 THEN "acquire" ELSE "terminal"
  <2>1. n \in 0..2 /\ wk' = [wk EXCEPT ![w] = [d EXCEPT !.replaced = n]]
    BY <1>0, <1>2, <1>6
  <2>2. Keeping(w) /\ wk'[w].replaced = n
    BY <1>0, <2>1, ReplaceSets, ZenonT(40)
  <2>3. Goto(w, "emitWarm", to)
    BY <1>6 DEF Replace
  <2>4. to \in {"acquire", "terminal"} /\ (n = 2 => to = "terminal")
    BY <1>2
  <2> HIDE DEF n, to
  <2> QED
    BY <1>3, <1>6, <2>2, <2>3, <2>4
<1> QED
  BY <1>4, <1>5, <1>6 DEF EmitWarm

\* The deferred release leaves the worker with nothing.
LEMMA LeaveMoves ==
  ASSUME DeliveryInv, NEW w \in Workers, Leave(w)
  PROVE  Alone(w) /\ wk'[w].primed = 0 /\ InStep(w)' /\ OrderInv'
<1> USE DEF shared, channel, ending, client
<1>0. TypeOK /\ LocalInv /\ OrderInv
  BY DEF DeliveryInv
<1>1. /\ pc[w] = "leave" /\ pc'[w] = "done"
      /\ \A v \in Workers \ {w} : pc'[v] = pc[v]
      /\ UNCHANGED <<run, nextBlock, nextConn, out, consumer, yielded, stop, fatal>>
  BY <1>0 DEF Leave, Goto, TypeOK
<1>2. Alone(w) /\ wk'[w] = NewWorker
  <2>1. NewWorker \in Worker
    BY DEF NewWorker, Worker, Outcomes
  <2> QED
    BY <1>0, <2>1, SetWorker DEF Leave, TypeOK
<1>3. /\ ~LiveId(w)' /\ ~LiveId(w)
      /\ pc[w] \notin Active /\ pc'[w] \notin Active
      /\ pc'[w] \notin Priming /\ pc'[w] # "emitWarm"
  BY <1>1, <1>2 DEF LiveId, Held, NewWorker, Priming, Active
<1>4. InStep(w)'
  BY <1>1, <1>2, <1>3 DEF InStep, NewWorker
<1>5. \A v \in Workers : v # w =>
        wk'[v] = wk[v] /\ pc'[v] = pc[v] /\ Index(v)' = Index(v)
          /\ (LiveId(v)' <=> LiveId(v))
  BY <1>1, <1>2 DEF Alone, Index, LiveId, Held
<1>6. Delivered' = Delivered
  BY <1>1 DEF Delivered
<1>7. SharedInv'
  BY <1>0, <1>3, <1>5 DEF OrderInv, SharedInv
<1>8. EndInv'
  BY <1>0, <1>1, <1>5 DEF OrderInv, EndInv, Undisturbed, BlockAvailable
<1>9. Primed(Delivered)'
  BY <1>0, <1>1, <1>6 DEF OrderInv, Primed
<1>10. Once(Delivered)'
  BY <1>0, <1>3, <1>5, <1>6 DEF OrderInv, Once
<1>11. (consumer = "ranging" => Counted(Delivered))'
  <2> SUFFICES ASSUME consumer = "ranging", NEW v \in Workers, LiveId(v)'
               PROVE  /\ Cardinality(WarmUps(Delivered, wk'[v].id, Len(Delivered)))
                           = wk'[v].primed - (IF pc'[v] = "emitWarm" THEN 1 ELSE 0)
                      /\ pc'[v] \in Priming => \A i \in 1..Len(Delivered) :
                           Delivered[i].conn = wk'[v].id => ~Measured(Delivered[i])
    BY <1>1, <1>6 DEF Counted
  <2>1. wk'[v] = wk[v] /\ pc'[v] = pc[v] /\ LiveId(v)
    BY <1>3, <1>5
  <2>2. /\ Cardinality(WarmUps(Delivered, wk[v].id, Len(Delivered)))
             = wk[v].primed - (IF pc[v] = "emitWarm" THEN 1 ELSE 0)
        /\ pc[v] \in Priming => \A i \in 1..Len(Delivered) :
             Delivered[i].conn = wk[v].id => ~Measured(Delivered[i])
    BY <1>0, <2>1 DEF OrderInv, Counted
  <2> QED
    BY <2>1, <2>2
<1>12. (Undisturbed => Complete(Delivered))'
  <2> SUFFICES ASSUME Undisturbed, NEW b \in Nat, NEW i \in 0..Unit - 1,
                      b * Unit + i < run.trials, b < nextBlock
               PROVE  \/ \E v \in Workers : /\ pc'[v] \in Active /\ wk'[v].block = b
                                            /\ wk'[v].shift <= i
                      \/ \E j \in 1..Len(Delivered) : Delivered[j].index = b * Unit + i
    BY <1>1, <1>6 DEF Complete, Undisturbed
  <2>1. \/ \E v \in Workers : pc[v] \in Active /\ wk[v].block = b /\ wk[v].shift <= i
        \/ \E j \in 1..Len(Delivered) : Delivered[j].index = b * Unit + i
    BY <1>0 DEF OrderInv, Complete
  <2> QED
    BY <1>3, <1>5, <2>1
<1> QED
  BY <1>2, <1>4, <1>7, <1>8, <1>9, <1>10, <1>11, <1>12 DEF OrderInv, NewWorker

\* The steps that hand out a block or a connection, or count a batch or a trial.
LEMMA CountingKeeps ==
  ASSUME DeliveryInv, NEW w \in Workers,
         \/ Draw(w) \/ Emit(w)
         \/ \E r \in BOOLEAN : AcquireOk(w, r)
         \/ \E o \in Outcomes : WarmEnd(w, o)
  PROVE  Alone(w) /\ wk'[w].primed <= run.warmup /\ InStep(w)' /\ OrderInv'
<1> USE DEF shared, channel, ending, client
<1>0. /\ TypeOK /\ InStep(w) /\ run.warmup \in Nat /\ run.trials \in Nat \ {0}
      /\ Unit \in Nat \ {0} /\ nextBlock \in Nat /\ nextConn \in Nat
      /\ wk[w].block \in Nat /\ wk[w].shift \in Nat /\ wk[w].primed \in Nat
      /\ wk[w].block * Unit \in Nat /\ wk[w].id \in Nat
      /\ wk[w].primed <= run.warmup
  BY StateFacts DEF DeliveryInv, LocalInv, TypeOK
<1>a. /\ {"acquire", "acquired", "send", "emit", "warm", "emitWarm", "trial"}
           \subseteq Active
      /\ "draw" \notin Active /\ "leave" \notin Active
      /\ "acquired" \in Priming /\ "emitWarm" \in Priming /\ "warm" \in Priming
      /\ {"draw", "trial", "leave"} \cap Priming = {}
  BY DEF Active, Places, Priming
<1>1. CASE Draw(w)
  <2>1. /\ Alone(w)
        /\ wk'[w].block = nextBlock /\ wk'[w].shift = 0
        /\ wk'[w].id = wk[w].id /\ wk'[w].primed = wk[w].primed
        /\ wk'[w].conn = wk[w].conn /\ wk'[w].replaced = wk[w].replaced
    BY <1>0, <1>1, DrawSets
  <2>2. /\ pc[w] = "draw"
        /\ pc'[w] = IF BlockAvailable(nextBlock) THEN "trial" ELSE "leave"
        /\ nextBlock' = nextBlock + 1 /\ UNCHANGED <<run, nextConn>>
    BY <1>0, <1>1 DEF Draw, Goto, TypeOK
  <2>3. LiveId(w)' => LiveId(w)
    BY <2>1, <2>2 DEF LiveId, Held, Priming
  <2>4. pc'[w] = "trial" => BlockAvailable(nextBlock)
    BY <2>2
  <2>5. InStep(w)'
    BY <1>0, <1>a, <2>1, <2>2, <2>3, <2>4 DEF InStep, BlockAvailable
  <2>6. OrderInv'
    BY <1>1, DrawMoves
  <2> QED
    BY <1>0, <2>1, <2>5, <2>6
<1>2. CASE Emit(w)
  <2>1. /\ Alone(w)
        /\ wk'[w].block = wk[w].block /\ wk'[w].shift = wk[w].shift + 1
        /\ wk'[w].id = wk[w].id /\ wk'[w].primed = wk[w].primed
        /\ wk'[w].conn = wk[w].conn /\ wk'[w].replaced = wk[w].replaced
    BY <1>0, <1>2, EmitSets
  <2>2. /\ pc[w] = "emit"
        /\ pc'[w] = IF wk[w].shift + 1 < Unit THEN "trial" ELSE "draw"
        /\ UNCHANGED <<run, nextBlock, nextConn>>
    BY <1>0, <1>2 DEF Emit, Goto, TypeOK
  <2>3. LiveId(w)
    BY <2>2 DEF LiveId
  <2>4. InStep(w)'
    <3>1. /\ wk[w].id < nextConn /\ wk[w].primed = run.warmup /\ wk[w].replaced # 2
          /\ wk[w].block < nextBlock /\ BlockAvailable(wk[w].block)
      BY <1>0, <1>a, <2>2, <2>3 DEF InStep, Priming
    <3>2. /\ pc'[w] \in {"trial", "draw"}
          /\ pc'[w] = "trial" => wk[w].shift + 1 < Unit
      BY <2>2
    <3> QED
      BY <1>a, <2>1, <2>2, <3>1, <3>2 DEF InStep, BlockAvailable
  <2>5. OrderInv'
    BY <1>2, EmitMoves
  <2> QED
    BY <1>0, <2>1, <2>4, <2>5
<1>3. ASSUME NEW r \in BOOLEAN, AcquireOk(w, r)
      PROVE  Alone(w) /\ wk'[w].primed <= run.warmup /\ InStep(w)' /\ OrderInv'
  <2>1. /\ Alone(w)
        /\ wk'[w].block = wk[w].block /\ wk'[w].shift = wk[w].shift
        /\ wk'[w].id = nextConn /\ wk'[w].primed = 0 /\ wk'[w].conn = nextConn
        /\ wk'[w].replaced = wk[w].replaced
    BY <1>0, <1>3, AcquireSets
  <2>2. /\ pc[w] = "acquire" /\ pc'[w] = "acquired"
        /\ nextConn' = nextConn + 1 /\ UNCHANGED <<run, nextBlock>>
    BY <1>0, <1>3 DEF AcquireOk, Goto, TypeOK
  <2>3. Index(w)' = Index(w)
    BY <2>1 DEF Index
  <2>4. InStep(w)'
    BY <1>0, <1>a, <2>1, <2>2, <2>3 DEF InStep, BlockAvailable
  <2>5. OrderInv'
    BY <1>3, AcquireMoves
  <2> QED
    BY <1>0, <2>1, <2>4, <2>5
<1>4. ASSUME NEW o \in Outcomes, WarmEnd(w, o)
      PROVE  Alone(w) /\ wk'[w].primed <= run.warmup /\ InStep(w)' /\ OrderInv'
  <2>1. /\ Alone(w)
        /\ wk'[w].block = wk[w].block /\ wk'[w].shift = wk[w].shift
        /\ wk'[w].id = wk[w].id /\ wk'[w].primed = wk[w].primed + 1
        /\ wk'[w].replaced = wk[w].replaced
    BY <1>0, <1>4, WarmEndSets
  <2>2. /\ pc[w] = "warm" /\ pc'[w] = "emitWarm"
        /\ UNCHANGED <<run, nextBlock, nextConn>>
    BY <1>0, <1>4 DEF WarmEnd, Goto, TypeOK
  <2>3. Index(w)' = Index(w) /\ LiveId(w) /\ wk[w].primed < run.warmup
    BY <1>0, <2>1, <2>2 DEF Index, LiveId, Priming, InStep
  <2>4. InStep(w)'
    BY <1>0, <1>a, <2>1, <2>2, <2>3 DEF InStep, BlockAvailable
  <2>5. OrderInv'
    BY <1>4, WarmMoves
  <2> QED
    BY <1>0, <2>1, <2>3, <2>4, <2>5
<1> QED
  BY <1>1, <1>2, <1>3, <1>4

\* What every step of a worker leaves alone, and what it does to the rest.
LEMMA WorkerFrame ==
  ASSUME DeliveryInv, NEW w \in Workers, WorkerStep(w)
  PROVE  /\ UNCHANGED <<run, closed, ctxDone, consumer, yielded>>
         /\ pc' \in [Workers -> Places] /\ \A v \in Workers \ {w} : pc'[v] = pc[v]
         /\ nextBlock' \in {nextBlock, nextBlock + 1}
         /\ nextConn' \in {nextConn, nextConn + 1}
         /\ reuses' \in 0..MaxReused /\ faults' \in Nat \cup {Unlimited}
         /\ out' \in Seq(Trial) /\ Len(out') <= Cardinality(Workers)
         /\ stop' \in {"none", "consumer", "abort", "end"}
         /\ fatal' \in {"none", "ctx", "limit", "padding", "terminal"}
<1> USE DEF shared, channel, ending, client
<1>1. TypeOK /\ Shape
  BY DEF DeliveryInv, RunInv
<1>2. pc' \in [Workers -> Places] /\ \A v \in Workers \ {w} : pc'[v] = pc[v]
  BY <1>1, WorkerMoves DEF Moves, TypeOK
<1>3. UNCHANGED <<run, closed, ctxDone, consumer, yielded>>
  BY DEF WorkerStep, Draw, Begin, AcquireHeld, AcquireOk, AcquireFail, Acquired,
     WarmEnd, SendFatal, SendEnd, SendStale, SendReplace, EmitStopped, EmitWarm,
     Emit, Terminal, Abort, Leave, Send
<1>4. /\ nextBlock' \in {nextBlock, nextBlock + 1}
      /\ nextConn' \in {nextConn, nextConn + 1}
  BY DEF WorkerStep, Draw, Begin, AcquireHeld, AcquireOk, AcquireFail, Acquired,
     WarmEnd, SendFatal, SendEnd, SendStale, SendReplace, EmitStopped, EmitWarm,
     Emit, Terminal, Abort, Leave
<1>5. reuses' \in 0..MaxReused
  <2>1. MaxReused \in Nat /\ reuses \in 0..MaxReused
    BY <1>1, TrialAssumption DEF TypeOK
  <2>2. ASSUME NEW r \in BOOLEAN, AcquireOk(w, r) PROVE reuses' \in 0..MaxReused
    BY <2>1, <2>2 DEF AcquireOk
  <2> QED
    BY <2>1, <2>2 DEF WorkerStep, Draw, Begin, AcquireHeld, AcquireFail, Acquired,
       WarmEnd, SendFatal, SendEnd, SendStale, SendReplace, EmitStopped, EmitWarm,
       Emit, Terminal, Abort, Leave
<1>6. faults' \in Nat \cup {Unlimited}
  <2>1. faults \in Nat \cup {Unlimited}
    BY <1>1 DEF TypeOK
  <2>2. ASSUME NEW o, Spend(o) \/ AttemptEnds(o) PROVE faults' \in Nat \cup {Unlimited}
    <3>1. CASE UNCHANGED faults
      BY <2>1, <3>1
    <3>2. CASE faults # Unlimited /\ faults > 0 /\ faults' = faults - 1
      BY <2>1, <3>2
    <3> QED
      BY <2>2, <3>1, <3>2 DEF Spend, AttemptEnds
  <2> QED
    BY <2>1, <2>2 DEF WorkerStep, Draw, Begin, AcquireHeld, AcquireOk, AcquireFail,
       Acquired, WarmEnd, SendFatal, SendEnd, SendStale, SendReplace, EmitStopped,
       EmitWarm, Emit, Terminal, Abort, Leave
<1>7. out' \in Seq(Trial) /\ Len(out') <= Cardinality(Workers)
  <2>1. Cardinality(Workers) \in Nat
    BY TrialAssumption, FS_CardinalityType
  <2>2. out \in Seq(Trial) /\ Len(out) <= Cardinality(Workers)
    BY <1>1 DEF TypeOK
  <2>3. ASSUME NEW t \in Trial, Send(t)
        PROVE  out' \in Seq(Trial) /\ Len(out') <= Cardinality(Workers)
    BY <2>1, <2>2, <2>3 DEF Send
  <2>4. /\ [index |-> noCoord, conn |-> wk[w].id] \in Trial
        /\ [index |-> Index(w), conn |-> wk[w].id] \in Trial
    BY <1>1, StateFacts DEF Trial
  <2>5. CASE EmitWarm(w) \/ Emit(w)
    BY <2>3, <2>4, <2>5 DEF EmitWarm, Emit
  <2>6. CASE UNCHANGED out
    BY <2>2, <2>6
  <2> QED
    BY <2>5, <2>6 DEF WorkerStep, Draw, Begin, AcquireHeld, AcquireOk, AcquireFail,
       Acquired, WarmEnd, SendFatal, SendEnd, SendStale, SendReplace, EmitStopped,
       Terminal, Abort, Leave
<1>8. /\ stop' \in {"none", "consumer", "abort", "end"}
      /\ fatal' \in {"none", "ctx", "limit", "padding", "terminal"}
  <2>1. /\ stop \in {"none", "consumer", "abort", "end"}
        /\ fatal \in {"none", "ctx", "limit", "padding", "terminal"}
    BY <1>1 DEF TypeOK
  <2>2. CASE Abort(w)
    BY <2>1, <2>2 DEF Abort, StopRun, AbortCause
  <2>3. CASE UNCHANGED <<stop, fatal>>
    BY <2>1, <2>3
  <2> QED
    BY <2>2, <2>3 DEF WorkerStep, Draw, Begin, AcquireHeld, AcquireOk, AcquireFail,
       Acquired, WarmEnd, SendFatal, SendEnd, SendStale, SendReplace, EmitStopped,
       EmitWarm, Emit, Terminal, Leave
<1> QED
  BY <1>2, <1>3, <1>4, <1>5, <1>6, <1>7, <1>8

\* Every step of a worker preserves the invariant.
LEMMA WorkerDelivers ==
  ASSUME DeliveryInv, NEW w \in Workers, WorkerStep(w)
  PROVE  TypeOK' /\ LocalInv' /\ OrderInv'
<1>0. TypeOK /\ LocalInv /\ run.warmup \in Nat /\ nextBlock \in Nat /\ nextConn \in Nat
      /\ \A v \in Workers : wk[v].block \in Nat /\ wk[v].id \in Nat
  BY StateFacts DEF DeliveryInv
<1>1. /\ UNCHANGED <<run, closed, ctxDone, consumer, yielded>>
      /\ pc' \in [Workers -> Places] /\ \A v \in Workers \ {w} : pc'[v] = pc[v]
      /\ nextBlock' \in {nextBlock, nextBlock + 1}
      /\ nextConn' \in {nextConn, nextConn + 1}
      /\ reuses' \in 0..MaxReused /\ faults' \in Nat \cup {Unlimited}
      /\ out' \in Seq(Trial) /\ Len(out') <= Cardinality(Workers)
      /\ stop' \in {"none", "consumer", "abort", "end"}
      /\ fatal' \in {"none", "ctx", "limit", "padding", "terminal"}
  BY WorkerFrame
<1>2. ASSUME Keeping(w) PROVE Alone(w) /\ wk'[w].primed <= run.warmup
  BY <1>0, <1>2 DEF Keeping, TypeOK
<1>3. Alone(w) /\ wk'[w].primed <= run.warmup /\ InStep(w)' /\ OrderInv'
  <2>1. CASE \/ Draw(w) \/ Emit(w) \/ \E r \in BOOLEAN : AcquireOk(w, r)
             \/ \E o \in Outcomes : WarmEnd(w, o)
    BY <2>1, CountingKeeps
  <2>2. CASE Begin(w)
    BY <1>2, <2>2, BeginKeeps
  <2>3. CASE \/ AcquireHeld(w) \/ Acquired(w) \/ EmitStopped(w)
             \/ \E o \in {"lost", "cancelled"} : AcquireFail(w, o)
    BY <1>2, <2>3, AcquireKeeps
  <2>4. CASE \E o \in Outcomes : SendFatal(w, o) \/ SendEnd(w, o)
                                   \/ SendStale(w, o) \/ SendReplace(w, o)
    BY <1>2, <2>4, SendKeeps
  <2>5. CASE EmitWarm(w)
    BY <1>2, <2>5, EmitWarmKeeps
  <2>6. CASE Terminal(w) \/ Abort(w)
    BY <1>2, <2>6, AbortKeeps
  <2>7. CASE Leave(w)
    BY <1>0, <2>7, LeaveMoves
  <2> QED
    BY <2>1, <2>2, <2>3, <2>4, <2>5, <2>6, <2>7 DEF WorkerStep
<1>4. TypeOK'
  <2>1. \A v \in Workers : wk'[v].primed <= run'.warmup
    BY <1>0, <1>1, <1>3 DEF TypeOK, Alone
  <2>2. wk' \in [Workers -> Worker]
    BY <1>3 DEF Alone
  <2>3. nextBlock' \in Nat /\ nextConn' \in Nat
    BY <1>0, <1>1
  <2> QED
    BY <1>0, <1>1, <2>1, <2>2, <2>3 DEF TypeOK
<1>5. ASSUME NEW v \in Workers, v # w PROVE InStep(v)'
  <2>1. wk'[v] = wk[v] /\ pc'[v] = pc[v] /\ run' = run /\ InStep(v)
    BY <1>0, <1>1, <1>3, <1>5 DEF Alone, LocalInv
  <2>2. (LiveId(v)' <=> LiveId(v)) /\ Index(v)' = Index(v)
    BY <2>1 DEF LiveId, Held, Index
  <2>3. /\ wk[v].block < nextBlock => wk[v].block < nextBlock'
        /\ wk[v].id < nextConn => wk[v].id < nextConn'
    BY <1>0, <1>1
  <2> QED
    BY <2>1, <2>2, <2>3 DEF InStep, BlockAvailable
<1> QED
  BY <1>3, <1>4, <1>5 DEF LocalInv

-----------------------------------------------------------------------------
\* Receiving a trial moves it, so that what was delivered stays the same if the
\* consumer goes on, and is cut off after it if it does not.
LEMMA ReceiveMoves ==
  ASSUME TypeOK, out # << >>,
         yielded' = Append(yielded, Head(out)), out' = Tail(out)
  PROVE  /\ yielded' \in Seq(Trial) /\ out' \in Seq(Trial) /\ Len(out') < Len(out)
         /\ yielded' \o out' = yielded \o out
         /\ Len(yielded') <= Len(yielded \o out)
         /\ \A i \in 1..Len(yielded') : yielded'[i] = (yielded \o out)[i]
<1>1. yielded \in Seq(Trial) /\ out \in Seq(Trial)
  BY DEF TypeOK
<1>2. /\ Head(out) \in Trial /\ Tail(out) \in Seq(Trial)
      /\ Len(Tail(out)) = Len(out) - 1
      /\ \A i \in 1..Len(Tail(out)) : Tail(out)[i] = out[i + 1]
  BY <1>1, HeadTailProperties
<1>3. yielded' \in Seq(Trial) /\ Len(yielded') = Len(yielded) + 1
      /\ \A i \in 1..Len(yielded') :
           yielded'[i] = IF i <= Len(yielded) THEN yielded[i] ELSE Head(out)
  BY <1>1, <1>2
<1>4. /\ yielded \o out \in Seq(Trial) /\ yielded' \o out' \in Seq(Trial)
      /\ Len(yielded \o out) = Len(yielded) + Len(out)
      /\ Len(yielded' \o out') = Len(yielded') + Len(out')
  BY <1>1, <1>2, <1>3, ConcatProperties
<1>5. Len(yielded) \in Nat /\ Len(out) \in Nat /\ Len(out) > 0 /\ Head(out) = out[1]
  BY <1>1
<1>6. \A i \in 1..Len(yielded') : yielded'[i] = (yielded \o out)[i]
  BY <1>1, <1>3, <1>5
<1>7. yielded' \o out' = yielded \o out
  <2>1. ASSUME NEW i \in 1..Len(yielded) + Len(out)
        PROVE  (yielded' \o out')[i] = (yielded \o out)[i]
    <3>1. CASE i <= Len(yielded')
      BY <1>1, <1>2, <1>3, <1>4, <1>5, <1>6, <3>1, ConcatProperties
    <3>2. CASE i > Len(yielded')
      <4>1. (yielded' \o out')[i] = out'[i - (Len(yielded) + 1)]
        BY <1>1, <1>2, <1>3, <1>4, <1>5, <3>2, ConcatProperties
      <4>2. (yielded \o out)[i] = out[i - Len(yielded)]
        BY <1>1, <1>3, <1>5, <3>2, ConcatProperties
      <4>3. i - (Len(yielded) + 1) \in 1..Len(Tail(out))
        BY <1>2, <1>3, <1>5, <3>2
      <4> QED
        BY <1>2, <1>5, <4>1, <4>2, <4>3
    <3> QED
      BY <1>3, <1>5, <3>1, <3>2
  <2>2. Len(yielded' \o out') = Len(yielded \o out)
    BY <1>2, <1>3, <1>4, <1>5
  <2> QED
    BY <1>4, <2>1, <2>2, SeqEqual
<1> QED
  BY <1>2, <1>3, <1>4, <1>5, <1>6, <1>7

\* What holds of the delivered trials holds of the first of them.
LEMMA FirstTrials ==
  ASSUME NEW r, NEW s, Len(r) \in Nat, Len(s) \in Nat, Len(r) <= Len(s),
         \A i \in 1..Len(r) : r[i] = s[i]
  PROVE  (Primed(s) => Primed(r)) /\ (Once(s) => Once(r))
<1>1. \A i \in 1..Len(r) : i \in 1..Len(s)
  OBVIOUS
<1>2. ASSUME NEW i \in 1..Len(r), NEW c PROVE WarmUps(r, c, i - 1) = WarmUps(s, c, i - 1)
  BY <1>2 DEF WarmUps
<1>3. ASSUME Primed(s) PROVE Primed(r)
  <2> SUFFICES ASSUME NEW i \in 1..Len(r)
               PROVE  /\ r[i].conn < nextConn /\ r[i].index < run.trials
                      /\ r[i].index < nextBlock * Unit
                      /\ Measured(r[i]) =>
                           /\ Cardinality(WarmUps(r, r[i].conn, i - 1)) = run.warmup
                           /\ \A j \in i + 1..Len(r) :
                                r[j].conn = r[i].conn => Measured(r[j])
    BY Zenon DEF Primed
  <2>1. /\ s[i].conn < nextConn /\ s[i].index < run.trials
        /\ s[i].index < nextBlock * Unit
        /\ Measured(s[i]) =>
             /\ Cardinality(WarmUps(s, s[i].conn, i - 1)) = run.warmup
             /\ \A j \in i + 1..Len(s) : s[j].conn = s[i].conn => Measured(s[j])
    BY <1>1, <1>3 DEF Primed
  <2>2. \A j \in i + 1..Len(r) : j \in i + 1..Len(s) /\ j \in 1..Len(r)
    OBVIOUS
  <2> QED
    BY <1>2, <2>1, <2>2
<1>4. ASSUME Once(s) PROVE Once(r)
  BY <1>1, <1>4 DEF Once
<1> QED
  BY <1>3, <1>4

\* A step of the closer, the consumer or the caller touches no worker: it keeps the
\* invariant if it keeps or cuts what was delivered, and stops the run if it cuts it.
LEMMA ClientMoves ==
  ASSUME DeliveryInv, UNCHANGED <<run, nextBlock, nextConn, pc, wk>>,
         \/ Delivered' = Delivered
         \/ /\ Len(Delivered') \in Nat /\ Len(Delivered') <= Len(Delivered)
            /\ \A i \in 1..Len(Delivered') : Delivered'[i] = Delivered[i]
            /\ ~Undisturbed' /\ consumer' # "ranging",
         consumer' = "ranging" => consumer = "ranging",
         Undisturbed' => Undisturbed
  PROVE  /\ LocalInv' /\ SharedInv' /\ Primed(Delivered)' /\ Once(Delivered)'
         /\ (consumer = "ranging" => Counted(Delivered))'
         /\ (Undisturbed => Complete(Delivered))'
<1>0. LocalInv /\ OrderInv /\ Len(Delivered) \in Nat
  BY StateFacts DEF DeliveryInv
<1>1. \A v \in Workers : (LiveId(v)' <=> LiveId(v)) /\ Index(v)' = Index(v)
  BY DEF LiveId, Held, Index
<1>2. LocalInv'
  BY <1>0, <1>1 DEF LocalInv, InStep, BlockAvailable
<1>3. SharedInv'
  BY <1>0, <1>1 DEF OrderInv, SharedInv
<1>4. Primed(Delivered') /\ Once(Delivered')
  BY <1>0, FirstTrials DEF OrderInv
<1>5. Primed(Delivered)'
  BY <1>4 DEF Primed
<1>6. Once(Delivered)'
  BY <1>1, <1>4 DEF Once
<1>7. (consumer = "ranging" => Counted(Delivered))'
  BY <1>0, <1>1 DEF OrderInv, Counted
<1>8. (Undisturbed => Complete(Delivered))'
  BY <1>0 DEF OrderInv, Complete
<1> QED
  BY <1>2, <1>3, <1>5, <1>6, <1>7, <1>8

\* No step of the closer, the consumer or the caller breaks the invariant.
LEMMA ClientDelivers ==
  ASSUME DeliveryInv,
         \/ CloseOut \/ RangeEnds \/ Drain \/ Cancel \/ Returned \/ UNCHANGED vars
         \/ \E b \in BOOLEAN : Receive(b)
  PROVE  TypeOK' /\ LocalInv' /\ OrderInv'
<1> USE DEF shared, channel, ending, client
<1>0. TypeOK /\ RunInv /\ OrderInv /\ EndInv
      /\ out \in Seq(Trial) /\ yielded \in Seq(Trial)
  BY DEF DeliveryInv, OrderInv, TypeOK
<1>1. UNCHANGED <<run, nextBlock, nextConn, reuses, faults, pc, wk, fatal>>
  BY DEF CloseOut, RangeEnds, Drain, Cancel, Returned, vars, Receive
<1>a. ASSUME EndInv', TypeOK',
             \/ Delivered' = Delivered
             \/ /\ Len(Delivered') \in Nat /\ Len(Delivered') <= Len(Delivered)
                /\ \A i \in 1..Len(Delivered') : Delivered'[i] = Delivered[i]
                /\ ~Undisturbed' /\ consumer' # "ranging",
             consumer' = "ranging" => consumer = "ranging",
             Undisturbed' => Undisturbed
      PROVE  TypeOK' /\ LocalInv' /\ OrderInv'
  BY <1>1, <1>a, ClientMoves DEF OrderInv
<1>3. CASE CloseOut \/ Cancel \/ Returned \/ UNCHANGED vars
  <2>1. UNCHANGED <<stop, out, consumer, yielded>>
    BY <1>3 DEF CloseOut, Cancel, Returned, vars
  <2>2. closed' \in BOOLEAN /\ ctxDone' \in BOOLEAN
    BY <1>0, <1>3 DEF CloseOut, Cancel, Returned, vars, TypeOK
  <2>3. TypeOK'
    BY <1>0, <1>1, <2>1, <2>2 DEF TypeOK
  <2>4. EndInv'
    BY <1>0, <1>1, <2>1 DEF EndInv, Undisturbed, BlockAvailable
  <2> QED
    BY <1>a, <2>1, <2>3, <2>4 DEF Delivered, Undisturbed
<1>4. CASE RangeEnds
  <2>1. /\ consumer = "ranging" /\ consumer' = "returned" /\ out = << >>
        /\ stop' = (IF Stopping THEN stop ELSE "end")
        /\ UNCHANGED <<out, closed, ctxDone, yielded>>
    BY <1>4 DEF RangeEnds, StopRun
  <2>2. stop # "end"
    BY <1>0, <2>1 DEF EndInv
  <2>3. Undisturbed' => Undisturbed
    BY <2>1 DEF Undisturbed, Stopping
  <2>4. TypeOK'
    BY <1>0, <1>1, <2>1 DEF TypeOK
  <2>5. EndInv'
    BY <1>0, <1>1, <2>1, <2>3 DEF EndInv, BlockAvailable
  <2>6. Delivered' = Delivered
    BY <1>0, <2>1, ConcatEmptySeq DEF Delivered
  <2> QED
    BY <1>a, <2>1, <2>3, <2>4, <2>5, <2>6
<1>5. CASE Drain
  <2>1. /\ consumer = "draining" /\ consumer' \in {"draining", "returned"}
        /\ UNCHANGED <<closed, stop, ctxDone, yielded>>
        /\ out' = out \/ (out # << >> /\ out' = Tail(out))
    BY <1>5 DEF Drain
  <2>2. ~Undisturbed /\ stop # "end" /\ ~Undisturbed' /\ stop' # "end"
    BY <1>0, <2>1 DEF EndInv, Undisturbed
  <2>3. out' \in Seq(Trial) /\ Len(out') <= Cardinality(Workers)
    <3>1. Cardinality(Workers) \in Nat /\ Len(out) <= Cardinality(Workers)
      BY <1>0, TrialAssumption, FS_CardinalityType DEF TypeOK
    <3> QED
      BY <1>0, <2>1, <3>1, HeadTailProperties
  <2>4. TypeOK'
    BY <1>0, <1>1, <2>1, <2>3 DEF TypeOK
  <2>5. EndInv'
    BY <2>2 DEF EndInv
  <2>6. Delivered' = Delivered
    BY <2>1 DEF Delivered
  <2> QED
    BY <1>a, <2>1, <2>2, <2>4, <2>5, <2>6
<1>6. ASSUME NEW b \in BOOLEAN, Receive(b)
      PROVE  TypeOK' /\ LocalInv' /\ OrderInv'
  <2>1. /\ consumer = "ranging" /\ out # << >>
        /\ out' = Tail(out) /\ yielded' = Append(yielded, Head(out))
        /\ UNCHANGED <<closed, ctxDone>>
    BY <1>6 DEF Receive
  <2>2. /\ yielded' \in Seq(Trial) /\ out' \in Seq(Trial) /\ Len(out') < Len(out)
        /\ yielded' \o out' = yielded \o out
        /\ Len(yielded') <= Len(yielded \o out)
        /\ \A i \in 1..Len(yielded') : yielded'[i] = (yielded \o out)[i]
    BY <1>0, <2>1, ReceiveMoves
  <2>3. Len(out') <= Cardinality(Workers)
    <3>1. Cardinality(Workers) \in Nat /\ Len(out) <= Cardinality(Workers)
      BY <1>0, TrialAssumption, FS_CardinalityType DEF TypeOK
    <3> QED
      BY <1>0, <2>2, <3>1
  <2>4. Delivered = yielded \o out /\ stop # "end"
    BY <1>0, <2>1 DEF Delivered, EndInv
  <2>5. CASE b
    <3>1. consumer' = "draining" /\ stop' = (IF Stopping THEN stop ELSE "consumer")
      BY <1>6, <2>5 DEF Receive, StopRun
    <3>2. ~Undisturbed' /\ stop' # "end"
      BY <2>4, <3>1 DEF Undisturbed, Stopping
    <3>3. TypeOK'
      BY <1>0, <1>1, <2>1, <2>2, <2>3, <3>1 DEF TypeOK
    <3>4. EndInv'
      BY <3>2 DEF EndInv
    <3>5. Delivered' = yielded' /\ Len(yielded') \in Nat
      BY <2>2, <3>1 DEF Delivered
    <3> QED
      BY <1>a, <2>2, <2>4, <3>1, <3>2, <3>3, <3>4, <3>5
  <2>6. CASE ~b
    <3>1. consumer' = "ranging" /\ stop' = stop
      BY <1>6, <2>6 DEF Receive
    <3>2. TypeOK'
      BY <1>0, <1>1, <2>1, <2>2, <2>3, <3>1 DEF TypeOK
    <3>3. EndInv'
      BY <1>0, <1>1, <2>1, <3>1 DEF EndInv, Undisturbed, BlockAvailable
    <3>4. Delivered' = Delivered
      BY <2>2, <2>4, <3>1 DEF Delivered
    <3> QED
      BY <1>a, <2>1, <3>1, <3>2, <3>3, <3>4 DEF Undisturbed
  <2> QED
    BY <2>5, <2>6
<1> QED
  BY <1>3, <1>4, <1>5, <1>6

\* A run begins with nothing delivered, nothing handed out and all to do.
LEMMA InitDelivery == Init => DeliveryInv
<1> SUFFICES ASSUME Init PROVE DeliveryInv
  OBVIOUS
<1>1. /\ run \in Runs /\ run.trials \in Nat \ {0} /\ run.warmup \in Nat
      /\ MaxReused \in Nat /\ run.faults \in Nat \cup {Unlimited}
      /\ NoConn \notin Nat /\ Cardinality(Workers) \in Nat
  BY TrialAssumption, FS_CardinalityType DEF Init
<1>2. /\ nextBlock = 0 /\ nextConn = 0 /\ yielded = << >> /\ out = << >>
      /\ stop = "none" /\ fatal = "none" /\ consumer = "ranging"
      /\ \A w \in Workers : pc[w] = "draw" /\ wk[w] = NewWorker
  BY DEF Init
<1>3. NewWorker \in Worker /\ NewWorker.primed = 0 /\ NewWorker.conn = NoConn
      /\ NewWorker.replaced = 0
  BY DEF NewWorker, Worker, Outcomes
<1>4. TypeOK
  <2>1. /\ pc \in [Workers -> Places] /\ wk \in [Workers -> Worker]
        /\ \A w \in Workers : wk[w].primed <= run.warmup
    BY <1>1, <1>2, <1>3 DEF Init, Places
  <2>2. << >> \in Seq(Trial) /\ Len(<< >>) <= Cardinality(Workers)
    BY <1>1
  <2>3. /\ nextBlock \in Nat /\ nextConn \in Nat /\ reuses \in 0..MaxReused
        /\ faults \in Nat \cup {Unlimited}
    BY <1>1 DEF Init
  <2>4. closed \in BOOLEAN /\ ctxDone \in BOOLEAN
    BY DEF Init
  <2>5. out = << >> /\ yielded = << >>
    BY <1>2
  <2>6. out \in Seq(Trial) /\ yielded \in Seq(Trial) /\ Len(out) <= Cardinality(Workers)
    BY <2>2, <2>5
  <2> QED
    BY <1>1, <1>2, <2>1, <2>3, <2>4, <2>6, Zenon DEF TypeOK
<1>5. \A w \in Workers : /\ ~LiveId(w) /\ pc[w] \notin Active
                         /\ pc[w] \notin Priming
  BY <1>2, <1>3 DEF LiveId, Held, Priming, Active
<1>6. LocalInv
  BY <1>2, <1>3, <1>5 DEF LocalInv, InStep
<1>7. Len(Delivered) = 0
  BY <1>2 DEF Delivered
<1>8. OrderInv
  <2>1. SharedInv
    BY <1>5 DEF SharedInv
  <2>2. EndInv
    BY <1>2 DEF EndInv
  <2>3. Primed(Delivered) /\ Once(Delivered)
    BY <1>7 DEF Primed, Once
  <2>4. Counted(Delivered)
    BY <1>5 DEF Counted
  <2>5. Complete(Delivered)
    BY <1>2 DEF Complete
  <2> QED
    BY <2>1, <2>2, <2>3, <2>4, <2>5 DEF OrderInv
<1> QED
  BY <1>4, <1>6, <1>8, InitRun DEF DeliveryInv

\* The invariant survives every step of the run.
LEMMA NextDelivery == DeliveryInv /\ [Next]_vars => DeliveryInv'
<1> SUFFICES ASSUME DeliveryInv, [Next]_vars PROVE DeliveryInv'
  OBVIOUS
<1>1. RunInv'
  BY NextRun DEF DeliveryInv
<1>2. TypeOK' /\ LocalInv' /\ OrderInv'
  BY WorkerDelivers, ClientDelivers DEF Next
<1> QED
  BY <1>1, <1>2 DEF DeliveryInv

\* What was yielded is the beginning of what was delivered.
LEMMA YieldedFirst ==
  ASSUME DeliveryInv
  PROVE  Primed(yielded) /\ Once(yielded)
<1>1. yielded \in Seq(Trial) /\ out \in Seq(Trial)
  BY DEF DeliveryInv, TypeOK
<1>2. /\ Len(yielded) \in Nat /\ Len(Delivered) \in Nat
      /\ Len(yielded) <= Len(Delivered)
      /\ \A i \in 1..Len(yielded) : yielded[i] = Delivered[i]
  BY <1>1, ConcatProperties DEF Delivered
<1> QED
  BY <1>2, FirstTrials DEF DeliveryInv, OrderInv

-----------------------------------------------------------------------------
\* Every variable of a run keeps its type, and the channel never holds more trials
\* than there are workers.
THEOREM StreamTypeCorrect == Spec => []TypeOK
<1>1. DeliveryInv => TypeOK
  BY DEF DeliveryInv
<1> QED
  BY <1>1, InitDelivery, NextDelivery, PTL DEF Spec

\* Whatever connections and consumers do, a trial is yielded at most once, after the
\* full priming of its connection and before no more of it.
THEOREM YieldsPrimedOnce == Spec => []PrimedThenOnce
<1>1. ASSUME DeliveryInv PROVE PrimedThenOnce
  <2>1. Primed(yielded) /\ Once(yielded)
    BY <1>1, YieldedFirst
  <2>2. \A i \in 1..Len(yielded) : yielded[i].index < run.trials
    BY <2>1 DEF Primed
  <2>3. \A i, j \in 1..Len(yielded) :
          Measured(yielded[i]) /\ yielded[i].index = yielded[j].index => i = j
    BY <2>1 DEF Once
  <2>4. ASSUME NEW i \in 1..Len(yielded), Measured(yielded[i])
        PROVE  /\ run.warmup = Cardinality({j \in 1..i - 1 :
                     ~Measured(yielded[j]) /\ yielded[j].conn = yielded[i].conn})
               /\ \A j \in i + 1..Len(yielded) :
                    yielded[j].conn = yielded[i].conn => Measured(yielded[j])
    BY <2>1, <2>4 DEF Primed, WarmUps
  <2> QED
    BY <2>2, <2>3, <2>4, Zenon DEF PrimedThenOnce
<1> QED
  BY <1>1, InitDelivery, NextDelivery, PTL DEF Spec

\* A run that reached its end without a consumer's break or an error has yielded
\* every trial of the bound, and nothing outside it.
THEOREM RunComplete == Spec => []CompleteOrExplained
<1>1. ASSUME DeliveryInv, consumer = "returned", stop = "end"
      PROVE  /\ fatal = "none"
             /\ {yielded[i].index : i \in 1..Len(yielded)} \ {noCoord}
                  = 0..run.trials - 1
  <2>0. /\ run.trials \in Nat \ {0} /\ Unit \in Nat \ {0} /\ nextBlock \in Nat
        /\ yielded \in Seq(Trial)
    BY <1>1, StateFacts DEF DeliveryInv, TypeOK
  <2>1. fatal = "none" /\ Undisturbed
    BY <1>1 DEF DeliveryInv, OrderInv, EndInv, Undisturbed
  <2>2. \A w \in Workers : pc[w] = "done" /\ pc[w] \notin Active
    BY <1>1 DEF DeliveryInv, RunInv, Active
  <2>3. ~(nextBlock * Unit < run.trials)
    <3>1. ~BlockAvailable(nextBlock)
      BY <1>1, <2>1, <2>2, TrialAssumption DEF DeliveryInv, OrderInv, EndInv
    <3> QED
      BY <2>0, <3>1, BlockBound DEF BlockAvailable
  <2>4. Complete(yielded)
    BY <1>1, <2>1 DEF DeliveryInv, OrderInv, Delivered
  <2>5. ASSUME NEW n \in 0..run.trials - 1
        PROVE  \E j \in 1..Len(yielded) : yielded[j].index = n
    <3> DEFINE b == n \div Unit
               i == n % Unit
    <3>1. b \in Nat /\ i \in 0..Unit - 1 /\ n = Unit * b + i
      BY <2>0
    <3> HIDE DEF b, i
    <3>2. b * Unit \in Nat /\ n = b * Unit + i
      BY <2>0, <3>1
    <3>3. b < nextBlock
      <4>1. ASSUME nextBlock <= b PROVE FALSE
        <5>1. nextBlock * Unit <= b * Unit
          BY <2>0, <3>1, <4>1
        <5>2. nextBlock * Unit \in Nat
          BY <2>0
        <5> QED
          BY <2>0, <2>3, <3>1, <3>2, <5>1, <5>2
      <4> QED
        BY <2>0, <3>1, <4>1
    <3>4. b * Unit + i < run.trials
      BY <2>0, <3>2
    <3>5. \/ \E w \in Workers : pc[w] \in Active /\ wk[w].block = b /\ wk[w].shift <= i
          \/ \E j \in 1..Len(yielded) : yielded[j].index = b * Unit + i
      BY <2>4, <3>1, <3>3, <3>4, Zenon DEF Complete
    <3> QED
      BY <2>2, <3>2, <3>5
  <2>6. \A i \in 1..Len(yielded) :
          /\ yielded[i].index \in Nat \cup {noCoord}
          /\ yielded[i].index < run.trials
    <3>1. Primed(yielded)
      BY <1>1, YieldedFirst
    <3>2. \A i \in 1..Len(yielded) : yielded[i] \in Trial
      BY <2>0
    <3> QED
      BY <3>1, <3>2 DEF Primed, Trial
  <2>7. {yielded[i].index : i \in 1..Len(yielded)} \ {noCoord} = 0..run.trials - 1
    <3>1. \A n \in 0..run.trials - 1 : n # noCoord
      BY DEF noCoord
    <3>2. ASSUME NEW n \in {yielded[i].index : i \in 1..Len(yielded)} \ {noCoord}
          PROVE  n \in 0..run.trials - 1
      BY <2>0, <2>6
    <3> QED
      BY <2>5, <3>1, <3>2
  <2> QED
    BY <2>1, <2>7
<1>2. DeliveryInv => CompleteOrExplained
  BY <1>1 DEF CompleteOrExplained
<1> QED
  BY <1>2, InitDelivery, NextDelivery, PTL DEF Spec
=============================================================================
