----------------------------- MODULE OriginPool -----------------------------
(***************************************************************************)
(* The per-origin connection pool of tth2 (src/tth2/transport.go) and the  *)
(* calls that check connections out of it: Transport.sendBatch,            *)
(* Transport.Ping and Client.Acquire with the ConnLease it returns.        *)
(*                                                                         *)
(* The pool is a channel of tokens, one per permitted connection, and a    *)
(* mutex-protected FIFO of idle connections with an epoch.  A token is     *)
(* held while a connection is checked out or being dialled, and idle       *)
(* connections hold none, so the bound on connections is not the bound on  *)
(* tokens: it rests on the order in which takeIdle, putIdle and the token  *)
(* operations happen.  Every critical section and every channel operation  *)
(* is one action here.                                                     *)
(***************************************************************************)
EXTENDS Integers, Sequences, FiniteSets

CONSTANTS
  Callers,       \* goroutines that call SendBatch, Ping or Acquire
  Closers,       \* goroutines that call CloseIdleConnections
  Conns,         \* connection identities, recycled once closed
  NoConn,        \* the nil connection
  Kinds,         \* the calls each caller makes, of {"batch", "ping", "lease"}
  MaxConns,      \* MaxConnsPerHost after maxConns() resolved it
  IdleExpiry,    \* TRUE iff IdleConnTimeout is positive
  MaxEpoch,      \* bound: calls of CloseIdleConnections that are modelled
  Unlimited,     \* the value of MaxFaults that sets no bound
  MaxFaults      \* bound: faults of the peer

ASSUME PoolAssumption ==
  /\ MaxConns \in Nat \ {0}
  /\ IsFiniteSet(Callers)
  /\ NoConn \notin Conns
  /\ Kinds \in [Callers -> SUBSET {"batch", "ping", "lease"}]
  /\ IdleExpiry \in BOOLEAN
  /\ MaxEpoch \in Nat
  /\ Unlimited \notin Nat
  /\ MaxFaults \in Nat \cup {Unlimited}

VARIABLES
  tokens,     \* how many tokens the channel p.tokens holds
  idle,       \* p.idle, oldest first
  epoch,      \* p.epoch
  state,      \* of each connection: unused, open, or failed by its read pump
  pc,         \* where each caller is
  call,       \* the local variables of each caller
  closing,    \* connections each closer took and has yet to close
  faults,     \* peer faults left
  marked      \* history: connections CloseIdleConnections found in existence

vars == <<tokens, idle, epoch, state, pc, call, closing, faults, marked>>

Pooled == {idle[i] : i \in 1..Len(idle)}

\* An attempt or ping that ends like this leaves the connection reusable.
Kept(o) == o \in {"ok", "reset"}

Outcomes == {"ok", "reset", "sendReset", "lost", "local", "cancelled"}

\* The places where a caller holds a token.
Holding == {"take", "evict", "dial", "ping", "use", "leased", "put", "close",
            "release"}

\* The places where it holds a token and the pool has given it a connection to
\* use or the right to dial one.
Occupying == Holding \ {"take", "release"}

Places == Holding \cup {"out", "acquire", "select", "decide"}

Call ==
  [kind      : {"batch", "ping", "lease"},
   conn      : Conns \cup {NoConn},  \* the connection checked out
   reused    : BOOLEAN,       \* it was idle and has not proved itself live
   seen      : Nat,           \* the epoch read in takeIdle
   expired   : SUBSET Conns,  \* expired connections it has yet to close
   outcome   : Outcomes,      \* how the attempt or the ping ended
   cancelled : BOOLEAN]       \* its context is done

NewCall(k) ==
  [kind |-> k, conn |-> NoConn, reused |-> FALSE, seen |-> 0, expired |-> {},
   outcome |-> "ok", cancelled |-> FALSE]

NoCall == NewCall("batch")

TypeOK ==
  /\ tokens \in 0..MaxConns
  /\ idle \in Seq(Conns)
  /\ epoch \in Nat
  /\ state \in [Conns -> {"unused", "open", "failed"}]
  /\ pc \in [Callers -> Places]
  /\ call \in [Callers -> Call]
  /\ closing \in [Closers -> SUBSET Conns]
  /\ faults \in Nat \cup {Unlimited}
  /\ marked \in SUBSET Conns

Init ==
  /\ tokens = MaxConns
  /\ idle = << >>
  /\ epoch = 0
  /\ state = [x \in Conns |-> "unused"]
  /\ pc = [c \in Callers |-> "out"]
  /\ call = [c \in Callers |-> NoCall]
  /\ closing = [k \in Closers |-> {}]
  /\ faults = MaxFaults
  /\ marked = {}

-----------------------------------------------------------------------------
Goto(c, from, to) == pc[c] = from /\ pc' = [pc EXCEPT ![c] = to]

\* The call returns, and its local variables are gone.
Return(c, from) == Goto(c, from, "out") /\ call' = [call EXCEPT ![c] = NoCall]

\* http2conn.close: the connection is gone and its identity may be reused.
CloseConn(x) ==
  /\ state' = [state EXCEPT ![x] = "unused"]
  /\ marked' = marked \ {x}

SpendFault ==
  /\ faults # 0
  /\ faults' = IF faults = Unlimited THEN Unlimited ELSE faults - 1

\* A caller enters SendBatch, Ping or Acquire with a live context.
Enter(c, k) ==
  /\ Goto(c, "out", "acquire")
  /\ call' = [call EXCEPT ![c] = NewCall(k)]
  /\ UNCHANGED <<tokens, idle, epoch, state, closing, faults, marked>>

\* The caller's context is cancelled or its deadline passes.  A lease no longer
\* depends on the context it was acquired with.
Cancel(c) ==
  /\ pc[c] \notin {"out", "leased"}
  /\ ~call[c].cancelled
  /\ call' = [call EXCEPT ![c].cancelled = TRUE]
  /\ UNCHANGED <<tokens, idle, epoch, state, pc, closing, faults, marked>>

\* acquire: the fast-fail test of ctx.Err.
AcquireEnter(c) ==
  /\ IF call[c].cancelled
     THEN Return(c, "acquire")
     ELSE Goto(c, "acquire", "select") /\ UNCHANGED call
  /\ UNCHANGED <<tokens, idle, epoch, state, closing, faults, marked>>

\* acquire: the select receives a token.
AcquireToken(c) ==
  /\ tokens > 0
  /\ tokens' = tokens - 1
  /\ Goto(c, "select", "take")
  /\ UNCHANGED <<idle, epoch, state, call, closing, faults, marked>>

\* acquire: the select receives from ctx.Done.
AcquireCancelled(c) ==
  /\ call[c].cancelled
  /\ Return(c, "select")
  /\ UNCHANGED <<tokens, idle, epoch, state, closing, faults, marked>>

Taking(c, k, conn, expired, rest) ==
  /\ Goto(c, "take", "evict")
  /\ k > 0 => IdleExpiry
  /\ call' = [call EXCEPT ![c].seen = epoch, ![c].expired = expired,
                          ![c].conn = conn, ![c].reused = conn # NoConn]
  /\ idle' = rest
  /\ UNCHANGED <<tokens, epoch, state, closing, faults, marked>>

OldestLeft(k) == IF k < Len(idle) THEN idle[k + 1] ELSE NoConn

\* Fault: a usable idle connection is passed over and left in the list.
TakeIdleSkips(c, k) ==
  Taking(c, k, NoConn, {idle[i] : i \in 1..k}, SubSeq(idle, k + 1, Len(idle)))

\* takeIdle: under the mutex, read the epoch, drop the k oldest connections,
\* which have been idle too long, and take the oldest one that is left.
TakeIdle(c, k) ==
  Taking(c, k, OldestLeft(k), {idle[i] : i \in 1..k},
         SubSeq(idle, k + 2, Len(idle)))

\* acquire: close one expired connection, outside the mutex.
Evict(c, x) ==
  /\ pc[c] = "evict"
  /\ x \in call[c].expired
  /\ call' = [call EXCEPT ![c].expired = @ \ {x}]
  /\ CloseConn(x)
  /\ UNCHANGED <<tokens, idle, epoch, pc, closing, faults>>

\* Where a caller with a connection goes: Ping and the reuse check of Acquire
\* ping it, SendBatch sends on it, Acquire hands it out.
Start(c, old) ==
  IF call[c].kind = "ping" \/ (call[c].kind = "lease" /\ old) THEN "ping"
  ELSE IF call[c].kind = "batch" THEN "use" ELSE "leased"

\* acquire returns the reused connection, or goes on to dial.
AcquireProceed(c) ==
  /\ call[c].expired = {}
  /\ Goto(c, "evict",
          IF call[c].conn # NoConn THEN Start(c, TRUE) ELSE "dial")
  /\ UNCHANGED <<tokens, idle, epoch, state, call, closing, faults, marked>>

\* acquire: dial succeeds with connection x.
DialOk(c, x) ==
  /\ Goto(c, "dial", Start(c, FALSE))
  /\ state[x] = "unused"
  /\ state' = [state EXCEPT ![x] = "open"]
  /\ call' = [call EXCEPT ![c].conn = x]
  /\ UNCHANGED <<tokens, idle, epoch, closing, faults, marked>>

\* Fault: the token of a failed dial is not returned.
DialFailKeepsToken(c) ==
  /\ Return(c, "dial")
  /\ UNCHANGED <<tokens, idle, epoch, state, closing, faults, marked>>

\* acquire: dial fails, because of the peer or of a cancelled context, and the
\* token goes back in the same call.
DialFail(c) ==
  /\ Return(c, "dial")
  /\ tokens' = tokens + 1
  /\ UNCHANGED <<idle, epoch, state, closing, faults, marked>>

\* http2conn.ping answered, failed with its connection, or given up.
PingEnd(c, o) ==
  /\ Goto(c, "ping", IF o # "ok" THEN "close"
                     ELSE IF call[c].kind = "ping" THEN "put" ELSE "leased")
  /\ \/ o = "ok" /\ state[call[c].conn] = "open"
     \/ o = "lost" /\ state[call[c].conn] = "failed"
     \/ o = "cancelled" /\ call[c].cancelled
  /\ call' = [call EXCEPT ![c].outcome = o]
  /\ UNCHANGED <<tokens, idle, epoch, state, closing, faults, marked>>

\* http2conn.attempt can end with outcome o: a complete batch, or an error that
\* spares the connection ("reset": a reset response, or a batch wider than the
\* peer's stream limit), needs a live one; "sendReset" is a reset, or another
\* failure that leaves the connection alive, while sending; "local" is a body
\* limit or a batch timeout.  Each send on a lease has a context of its own.
AttemptEnds(c, o) ==
  /\ CASE o = "lost"      -> state[call[c].conn] = "failed"
       [] o = "cancelled" -> call[c].cancelled \/ call[c].kind = "lease"
       [] OTHER           -> state[call[c].conn] = "open"
  /\ IF o = "sendReset" THEN SpendFault ELSE UNCHANGED faults

\* sendBatch: the attempt ends, and keepConn decides between putIdle and
\* discard.
AttemptEnd(c, o) ==
  /\ Goto(c, "use", IF Kept(o) THEN "put" ELSE "close")
  /\ AttemptEnds(c, o)
  /\ call' = [call EXCEPT ![c].outcome = o]
  /\ UNCHANGED <<tokens, idle, epoch, state, closing, marked>>

\* ConnLease.SendBatch through connOwner.send: a connection that survives is
\* proven live, one that does not is discarded and the lease is invalid.
LeaseSend(c, o) ==
  /\ Goto(c, "leased", IF Kept(o) THEN "leased" ELSE "close")
  /\ AttemptEnds(c, o)
  /\ call' = [call EXCEPT ![c].outcome = o, ![c].reused = FALSE]
  /\ UNCHANGED <<tokens, idle, epoch, state, closing, marked>>

\* ConnLease.Close (to = "put") and ConnLease.Discard (to = "close").
LeaseEnd(c, to) ==
  /\ Goto(c, "leased", to)
  /\ call' = [call EXCEPT ![c].outcome = "ok", ![c].reused = FALSE]
  /\ UNCHANGED <<tokens, idle, epoch, state, closing, faults, marked>>

\* Fault: the epoch is not compared.
PutIdleAnyEpoch(c) ==
  /\ Goto(c, "put", "release")
  /\ idle' = Append(idle, call[c].conn)
  /\ call' = [call EXCEPT ![c].conn = NoConn]
  /\ UNCHANGED <<tokens, epoch, state, closing, faults, marked>>

\* putIdle under the mutex: pool the connection unless the epoch moved, in
\* which case it is closed outside the mutex.
PutIdle(c) ==
  /\ IF call[c].seen # epoch
     THEN Goto(c, "put", "close") /\ UNCHANGED <<idle, call>>
     ELSE /\ Goto(c, "put", "release")
          /\ idle' = Append(idle, call[c].conn)
          /\ call' = [call EXCEPT ![c].conn = NoConn]
  /\ UNCHANGED <<tokens, epoch, state, closing, faults, marked>>

\* discard and putIdle's stale branch: close the connection.
CloseHeld(c) ==
  /\ Goto(c, "close", "release")
  /\ CloseConn(call[c].conn)
  /\ call' = [call EXCEPT ![c].conn = NoConn]
  /\ UNCHANGED <<tokens, idle, epoch, closing, faults>>

\* discard and putIdle: the token goes back last.
Release(c) ==
  /\ Goto(c, "release", "decide")
  /\ tokens' = tokens + 1
  /\ UNCHANGED <<idle, epoch, state, call, closing, faults, marked>>

\* Fault: every failure on a reused connection is retried, resets included.
RetriesResets(c) ==
  /\ call[c].outcome \notin {"ok", "local"}
  /\ call[c].reused
  /\ ~call[c].cancelled

\* The retry rule of sendBatch, Ping and Acquire: only a reused connection that
\* failed, never a local termination, never under a cancelled context.
Retries(c) ==
  /\ ~Kept(call[c].outcome)
  /\ call[c].outcome # "local"
  /\ call[c].reused
  /\ ~call[c].cancelled

\* The bottom of the loop in sendBatch, Ping and Acquire.
Decide(c) ==
  /\ IF Retries(c)
     THEN Goto(c, "decide", "acquire") /\ UNCHANGED call
     ELSE Return(c, "decide")
  /\ UNCHANGED <<tokens, idle, epoch, state, closing, faults, marked>>

\* The read pump of a connection meets a fatal condition: peer close, GOAWAY,
\* protocol error.  It does so whoever has the connection, or nobody.
ConnFails(x) ==
  /\ state[x] = "open"
  /\ SpendFault
  /\ state' = [state EXCEPT ![x] = "failed"]
  /\ UNCHANGED <<tokens, idle, epoch, pc, call, closing, marked>>

Closing(k, taken, left) ==
  /\ closing[k] = {}
  /\ epoch < MaxEpoch
  /\ closing' = [closing EXCEPT ![k] = taken]
  /\ idle' = left
  /\ epoch' = epoch + 1
  /\ marked' = {x \in Conns : state[x] # "unused"}
  /\ UNCHANGED <<tokens, state, pc, call, faults>>

\* CloseIdleConnections under the mutex: take the idle list, move the epoch.
CloseIdleTake(k) == Closing(k, Pooled, << >>)

\* CloseIdleConnections outside the mutex: close one connection it took.
CloseIdleClose(k, x) ==
  /\ x \in closing[k]
  /\ closing' = [closing EXCEPT ![k] = @ \ {x}]
  /\ CloseConn(x)
  /\ UNCHANGED <<tokens, idle, epoch, pc, call, faults>>

-----------------------------------------------------------------------------
\* The steps of a call other than taking a token and the context's end.
CallStep(c) ==
  \/ AcquireEnter(c)
  \/ AcquireCancelled(c)
  \/ \E k \in 0..Len(idle) : TakeIdle(c, k)
  \/ \E x \in Conns : Evict(c, x) \/ DialOk(c, x)
  \/ AcquireProceed(c)
  \/ DialFail(c)
  \/ \E o \in Outcomes : PingEnd(c, o) \/ AttemptEnd(c, o)
  \/ \E to \in {"put", "close"} : LeaseEnd(c, to)
  \/ PutIdle(c)
  \/ CloseHeld(c)
  \/ Release(c)
  \/ Decide(c)

Next ==
  \/ \E c \in Callers :
       \/ \E k \in Kinds[c] : Enter(c, k)
       \/ Cancel(c)
       \/ AcquireToken(c)
       \/ CallStep(c)
       \/ \E o \in Outcomes : LeaseSend(c, o)
  \/ \E x \in Conns : ConnFails(x)
  \/ \E k \in Closers :
       \/ CloseIdleTake(k)
       \/ \E x \in Conns : CloseIdleClose(k, x)

\* Goroutines keep running, a leaseholder eventually closes its lease, an
\* attempt or a ping eventually ends, and the runtime hands a channel's value
\* to its waiters in FIFO order, so no waiter is passed over for ever.
Fairness ==
  /\ \A c \in Callers : WF_vars(CallStep(c)) /\ SF_vars(AcquireToken(c))
  /\ \A k \in Closers : WF_vars(\E x \in Conns : CloseIdleClose(k, x))

Spec == Init /\ [][Next]_vars
FairSpec == Spec /\ Fairness

-----------------------------------------------------------------------------
Holders == {c \in Callers : pc[c] \in Holding}
Occupiers == {c \in Callers : pc[c] \in Occupying}

\* Every token is in the channel or held by one caller, whatever path a call
\* takes through reuse, dial failure, retry, stale epoch or lease: no slot is
\* lost and none is returned twice (transport.go acquire, putIdle, discard).
TokensConserved == tokens + Cardinality(Holders) = MaxConns

\* MaxConnsPerHost bounds the connections the pool accounts for: idle ones plus
\* the ones checked out or being dialled.  Idle connections hold no token, so
\* this is what the append-before-release order of putIdle is for.
ConnectionBound == Len(idle) + Cardinality(Occupiers) <= MaxConns

\* The pool as a caller of the package knows it (ConnectionPool), read off the
\* implementation's state.
Promise == INSTANCE ConnectionPool WITH
  Limit <- MaxConns,
  exists <- {x \in Conns : state[x] # "unused"},
  pooled <- idle,
  held <- [c \in Callers |-> call[c].conn],
  doomed <- UNION ({call[c].expired : c \in Callers} \cup {closing[k] : k \in Closers}),
  retired <- marked

\* OriginPool implements ConnectionPool: however the critical sections and token
\* operations of callers and closers interleave, a connection has one user at a
\* time, none is leaked, the limit holds at every dial, and none that existed
\* when CloseIdleConnections ran is pooled again.
PoolRefinement == Promise!Spec

\* Every call returns: waiting for a slot, retrying stale connections and
\* racing CloseIdleConnections never keep a caller for ever.
CallsReturn == \A c \in Callers : pc[c] # "out" ~> pc[c] = "out"
=============================================================================
