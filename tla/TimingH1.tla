------------------------------ MODULE TimingH1 ------------------------------
(***************************************************************************)
(* One HTTP/1.1 connection of a timing run (src/internal/timing: h1.go and *)
(* the HTTP/1.1 lease of transport.go).                                    *)
(*                                                                         *)
(* Each exchange starts a reader before it is released and writes from its *)
(* own goroutine.  Whichever half ends second calls the completion hook;   *)
(* a failed half closes the socket and so ends the other.  What the reader *)
(* makes of the peer's bytes is the outcome of net/http and the checks     *)
(* around it: an informational section, a final head, body bytes, the end, *)
(* or an error.                                                            *)
(***************************************************************************)
EXTENDS Integers

CONSTANTS
  Records,   \* request records before the final gate
  Held,      \* whether a last byte waits for the final gate
  BodyMax,   \* the response body limit
  MaxRuns,   \* exchanges on the connection
  MaxBytes,  \* sections and body reads of the peer per exchange
  MaxBad     \* hang-ups, rejected hooks and disposals

VARIABLES
  l,      \* the lease
  obs,    \* the observation that both halves share
  w, r,   \* the writer and the reader
  ctx, bad

vars == <<l, obs, w, r, ctx, bad>>

Fresh == [err |-> FALSE, initial |-> FALSE, written |-> FALSE, complete |-> FALSE,
          retired |-> FALSE, failed |-> FALSE, received |-> FALSE, calls |-> 0, over |-> FALSE]

Init ==
  /\ l = [err |-> FALSE, active |-> FALSE, closed |-> FALSE, runs |-> 0]
  /\ obs = Fresh
  /\ w = [pc |-> "idle", at |-> 1]
  /\ r = [pc |-> "idle", got |-> 0, steps |-> 0, err |-> FALSE, complete |-> FALSE, retired |-> FALSE]
  /\ ctx = FALSE /\ bad = 0

Closed == [l EXCEPT !.closed = TRUE]

\* usableLocked.
Usable == ~l.err /\ ~l.active

\* prepare and run: the reader starts before anything is written.
Start ==
  /\ w.pc = "idle" /\ Usable /\ l.runs < MaxRuns
  /\ l' = [l EXCEPT !.active = TRUE, !.runs = @ + 1]
  /\ obs' = Fresh
  /\ w' = [pc |-> "gate", at |-> 1]
  /\ r' = [pc |-> "head", got |-> 0, steps |-> 0, err |-> FALSE, complete |-> FALSE, retired |-> FALSE]
  /\ ctx' = FALSE
  /\ UNCHANGED bad

\* completedLocked: the half that ends second calls the hook, whose error (a
\* deadline, a cancelled group) counts against the exchange.
Calls(o, other) ==
  IF other /\ o.calls = 0
  THEN {[o EXCEPT !.calls = @ + 1, !.err = @ \/ rejects] : rejects \in BOOLEAN} ELSE {o}

-----------------------------------------------------------------------------
(* The writer *)

WriterEnded == w.pc \in {"join", "idle"}
ReaderEnded == r.pc \in {"publish", "done"}

\* The write function returns: an error closes the socket.
WriteReturns(e) ==
  /\ w' = [w EXCEPT !.pc = "join"]
  /\ obs' \in Calls([obs EXCEPT !.err = @ \/ e, !.written = ~e], ReaderEnded)
  /\ l' = IF e THEN Closed ELSE l

\* The start gate or the final gate, the context, or the reader's failure.
PassGate ==
  /\ w.pc \in {"gate", "final"}
  /\ IF ctx \/ obs.failed THEN WriteReturns(TRUE)
     ELSE w' = [w EXCEPT !.pc = IF @ = "gate" THEN "record" ELSE "last"] /\ UNCHANGED <<obs, l>>
  /\ UNCHANGED <<r, ctx, bad>>

\* One record.  The first passes the hook of the campaign under the lease's lock.
WriteRecord(refused) ==
  /\ w.pc = "record"
  /\ refused => w.at = 1 /\ bad < MaxBad
  /\ bad' = IF refused THEN bad + 1 ELSE bad
  /\ IF obs.failed \/ ctx \/ l.closed \/ refused \/ (w.at = 1 /\ l.err) THEN WriteReturns(TRUE)
     ELSE IF w.at < Records
     THEN w' = [w EXCEPT !.at = @ + 1] /\ obs' = [obs EXCEPT !.initial = TRUE] /\ UNCHANGED l
     ELSE IF Held THEN w' = [w EXCEPT !.pc = "final"] /\ obs' = [obs EXCEPT !.initial = TRUE] /\ UNCHANGED l
     ELSE WriteReturns(FALSE)
  /\ UNCHANGED <<r, ctx>>

WriteLast ==
  /\ w.pc = "last"
  /\ WriteReturns(obs.failed \/ ctx \/ l.closed)
  /\ UNCHANGED <<r, ctx, bad>>

\* What retires the connection.
Retires(o) == o.err \/ o.retired

\* The sender joins its reader, lets a cancelled context decide and gives the
\* connection back, or disposes of it.
Join ==
  LET o == [obs EXCEPT !.err = @ \/ ctx, !.over = TRUE] IN
  /\ w.pc = "join" /\ obs.received
  /\ obs' = o
  /\ w' = [w EXCEPT !.pc = "idle"]
  /\ l' = [l EXCEPT !.active = FALSE, !.closed = @ \/ Retires(o), !.err = @ \/ Retires(o)]
  /\ UNCHANGED <<r, ctx, bad>>

-----------------------------------------------------------------------------
(* The reader *)

Reads == r.pc \in {"head", "body"} /\ ~l.closed /\ r.steps < MaxBytes

\* finish: the terminal boundary comes before the result is published.
Terminal(rec) ==
  /\ r' = [rec EXCEPT !.pc = "publish", !.steps = 0, !.got = 0]
  /\ obs' \in Calls(obs, WriterEnded)

\* A 1xx section is discarded.
Informational ==
  /\ Reads /\ r.pc = "head"
  /\ r' = [r EXCEPT !.steps = @ + 1]
  /\ UNCHANGED <<l, obs, w, ctx, bad>>

\* The final head, which may announce the end of the connection.
FinalHead(close) ==
  /\ Reads /\ r.pc = "head"
  /\ r' = [r EXCEPT !.pc = "body", !.steps = @ + 1, !.retired = close]
  /\ UNCHANGED <<l, obs, w, ctx, bad>>

\* A head that a check refuses, 101 among them.
BadHead ==
  /\ Reads /\ r.pc = "head" /\ bad < MaxBad
  /\ bad' = bad + 1
  /\ Terminal([r EXCEPT !.err = TRUE])
  /\ UNCHANGED <<l, w, ctx>>

\* A read of the body: more than the limit ends it with an error.
Body ==
  /\ Reads /\ r.pc = "body"
  /\ IF r.got = BodyMax THEN Terminal([r EXCEPT !.err = TRUE])
     ELSE r' = [r EXCEPT !.got = @ + 1, !.steps = @ + 1] /\ UNCHANGED obs
  /\ UNCHANGED <<l, w, ctx, bad>>

\* The end of the body; bytes after it, or bad trailers, are an error.
BodyEnd(surplus) ==
  /\ Reads /\ r.pc = "body"
  /\ surplus => bad < MaxBad
  /\ bad' = IF surplus THEN bad + 1 ELSE bad
  /\ Terminal([r EXCEPT !.complete = TRUE, !.err = surplus])
  /\ UNCHANGED <<l, w, ctx>>

\* A read on a closed socket fails.
ReadBreaks ==
  /\ r.pc \in {"head", "body"} /\ l.closed
  /\ Terminal([r EXCEPT !.err = TRUE])
  /\ UNCHANGED <<l, w, ctx, bad>>

\* The result goes into the observation; a failure also stops the writer.
Publish ==
  /\ r.pc = "publish"
  /\ obs' = [obs EXCEPT !.err = @ \/ r.err, !.complete = r.complete, !.retired = r.retired,
                        !.failed = r.err, !.received = TRUE]
  /\ l' = IF r.err THEN Closed ELSE l
  /\ r' = [r EXCEPT !.pc = "done"]
  /\ UNCHANGED <<w, ctx, bad>>

\* The context's AfterFunc closes the socket.
Cancel ==
  /\ ~ctx /\ w.pc # "idle"
  /\ ctx' = TRUE /\ l' = Closed
  /\ UNCHANGED <<obs, w, r, bad>>

\* The peer hangs up, or the lease is disposed of from outside.
Disconnect ==
  /\ ~l.closed /\ bad < MaxBad
  /\ bad' = bad + 1
  /\ l' \in {Closed, [Closed EXCEPT !.err = TRUE]}
  /\ UNCHANGED <<obs, w, r, ctx>>

-----------------------------------------------------------------------------
\* Nothing is assumed of the peer: a write ends for certain only if it cannot begin
\* or its socket is closed.
Runs ==
  \/ PassGate \/ Join \/ ReadBreaks \/ Publish
  \/ ((l.closed \/ ctx \/ obs.failed) /\ (WriteRecord(FALSE) \/ WriteLast))

Next ==
  \/ Start \/ Runs \/ WriteLast \/ Cancel \/ \E b \in BOOLEAN : WriteRecord(b)
  \/ Informational \/ BadHead \/ Body
  \/ \E b \in BOOLEAN : FinalHead(b) \/ BodyEnd(b)
  \/ Disconnect

\* The hook runs exactly once per exchange; the lease is usable again only
\* after a request that was written and a response that was complete and did
\* not end the connection.
CompletesOnce ==
  /\ obs.calls <= 1
  /\ obs.over => obs.calls = 1
  /\ obs.over /\ Usable => obs.written /\ obs.complete /\ ~obs.retired
=============================================================================
