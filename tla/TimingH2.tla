------------------------------ MODULE TimingH2 ------------------------------
(***************************************************************************)
(* One HTTP/2 connection of a timing run (src/internal/timing: h2.go and   *)
(* the HTTP/2 lease of transport.go).                                      *)
(*                                                                         *)
(* Three goroutines share it: the sender of the one active request, the    *)
(* reader, which handles the peer's frames, and the control writer, which  *)
(* drains a bounded queue of acknowledgements, resets and window updates.  *)
(* mu guards the state, so an action is one critical section; wire guards  *)
(* the socket and is held across writes.                                   *)
(*                                                                         *)
(* Sizes count body units.  Header contents are abstracted to the verdict  *)
(* of h2ValidFields.                                                       *)
(***************************************************************************)
EXTENDS Integers, Sequences, FiniteSets, SequencesExt

CONSTANTS
  Requests,      \* the requests in order: [headers, body, strict, last]
  Initial,       \* the initial windows, both directions
  MaxWindow,     \* the largest legal window
  Payload,       \* body units of one frame
  ControlLimit,  \* h2ControlLimit
  BodyMax,       \* the response body limit
  MaxFrames,     \* frames the peer sends
  MaxBad         \* protocol violations of the peer, broken writes and disposals

ASSUME H2Assumption ==
  /\ Initial \in 1..MaxWindow /\ {Payload, ControlLimit} \subseteq Nat \ {0}
  /\ BodyMax \in Nat

VARIABLES
  c,       \* the connection
  p,       \* the request that was prepared last, with its observation
  snd,     \* the sender
  pump,    \* the control writer
  reader,  \* whether readPump runs
  ctl,     \* the control queue
  wire,    \* who holds the wire lock
  ctx,     \* whether the request's context is cancelled
  onWire,  \* what the peer has seen: a header block that is still open
  frames, bad

vars == <<c, p, snd, pump, reader, ctl, wire, ctx, onWire, frames, bad>>

Connection ==
  [err |-> FALSE, ready |-> FALSE, active |-> FALSE, retiring |-> FALSE, goAway |-> 0, open |-> FALSE,
   window |-> Initial, receive |-> Initial, initial |-> Initial, stream |-> 0, streams |-> TRUE,
   stale |-> FALSE, lastSent |-> 0]

\* h2Prepare of request n, whose stream is numbered n, with its records.
Prepared(n, plan) ==
  [stream |-> n, plan |-> plan, sent |-> 0, written |-> FALSE, headers |-> FALSE, noBody |-> FALSE,
   length |-> -1, received |-> 0, receive |-> Initial, done |-> FALSE, reset |-> FALSE,
   terminal |-> FALSE, complete |-> FALSE, calls |-> 0, valid |-> FALSE, failed |-> FALSE]

Idle == [pc |-> "idle", at |-> 1, left |-> 0, size |-> 0, err |-> FALSE]

Init ==
  /\ c = Connection /\ p = Prepared(0, <<>>) /\ snd = Idle
  /\ pump = [pc |-> "idle", f |-> <<>>] /\ reader = TRUE
  /\ ctl = <<>> /\ wire = "free" /\ ctx = FALSE /\ onWire = FALSE
  /\ frames = 0 /\ bad = 0

-----------------------------------------------------------------------------
(* What is written *)

Record(data, opens, closes) == [data |-> data, opens |-> opens, closes |-> closes]

\* The header block in r.headers frames; with nothing else to hold back, its
\* last byte is a frame of its own.
HeaderRecords(r) ==
  LET n == IF r.last /\ r.body = 0 THEN r.headers + 1 ELSE r.headers IN
  [i \in 1..n |-> Record(0, i = 1 /\ n > 1, i = n)]

\* The body in frames of at most Payload units; a held back body keeps one.
DataRecords(r) ==
  LET held == r.last /\ r.body > 0
      n == IF held THEN r.body - 1 ELSE r.body
      k == (n + Payload - 1) \div Payload
      at(i) == IF i < k THEN Payload ELSE n - (k - 1) * Payload IN
  [i \in 1..k |-> Record(at(i), FALSE, FALSE)] \o (IF held THEN <<Record(1, FALSE, FALSE)>> ELSE <<>>)

Merged(s) == Record(FoldLeft(LAMBDA a, r : a + r.data, 0, s),
                    \E i \in DOMAIN s : s[i].opens, \E i \in DOMAIN s : s[i].closes)

\* The records in order, and how many of them precede the final gate.  Strict
\* requests write the prefix as one record.
Plan(r) ==
  LET all == HeaderRecords(r) \o DataRecords(r)
      k == IF r.last THEN Len(all) - 1 ELSE Len(all)
      prefix == SubSeq(all, 1, k) IN
  [strict |-> r.strict, prefix |-> IF r.strict THEN 1 ELSE k,
   records |-> (IF r.strict THEN <<Merged(prefix)>> ELSE prefix) \o SubSeq(all, k + 1, Len(all))]

Current == p.plan.records[snd.at]

\* readyLocked for a record of d units: "ok", "wait" or "err".
Readiness(d) ==
  IF \/ c.err \/ ~c.active \/ p.reset
     \/ p.sent = 0 /\ (c.retiring \/ c.stale) THEN "err"
  ELSE IF (~c.streams /\ p.sent = 0) \/ (d > 0 /\ (c.window < d \/ c.stream < d)) THEN "wait"
  ELSE "ok"

-----------------------------------------------------------------------------
(* Shared endings.  Each yields the new request record. *)

\* Fault: the hook runs again when the other half of the exchange ends.
CompletedAgain(q) ==
  IF q.terminal /\ q.written THEN [q EXCEPT !.complete = TRUE, !.calls = @ + 1] ELSE q

\* completeLocked.
Completed(q) ==
  IF q.terminal /\ q.written /\ ~q.complete THEN [q EXCEPT !.complete = TRUE, !.calls = @ + 1] ELSE q

\* The response's end is observed before its failure is handled.
Terminated(q) == Completed([q EXCEPT !.terminal = TRUE])

\* Fault: close leaves the active request waiting.
ClosedForgets(q) == q

\* close: the active request ends unless its exchange is over.
ClosedP(q) ==
  IF c.err \/ ~c.active \/ (q.done /\ q.written) THEN q
  ELSE [q EXCEPT !.failed = TRUE, !.done = TRUE, !.terminal = TRUE]

\* Nothing reads the windows and limits of a closed connection.
Dead == [Connection EXCEPT !.err = TRUE, !.active = c.active]

\* closedStreamLocked.
ClosedStream(s) ==
  /\ s # 0 /\ s <= c.lastSent
  /\ ~c.active \/ p.stream # s \/ p.reset \/ (p.done /\ p.written)

\* queueControl: all of fs or the failure that closes the connection.
Queue(fs, con, q) ==
  IF Len(ctl) + Len(fs) <= ControlLimit
  THEN ctl' = ctl \o fs /\ c' = con /\ p' = q
  ELSE ctl' = <<>> /\ c' = Dead /\ p' = ClosedP(q)

Fatal(q) == c' = Dead /\ p' = ClosedP(q) /\ ctl' = <<>>

Control(kind, n) == [kind |-> kind, n |-> n, stream |-> p.stream]

\* streamFailure: the stream ends and is reset, after the frames in fs.
StreamFails(fs, con, q) ==
  Queue(Append(fs, Control("reset", 0)), con,
        Completed([q EXCEPT !.failed = TRUE, !.reset = TRUE, !.done = TRUE, !.terminal = TRUE]))

-----------------------------------------------------------------------------
(* The sender: h2Sender.run *)

\* h2Acquire has returned and h2Prepare claims the connection.
Prepare ==
  /\ snd.pc = "idle" /\ p.stream < Len(Requests)
  /\ c.ready /\ ~c.err /\ ~c.retiring /\ ~c.active
  /\ p' = Prepared(p.stream + 1, Plan(Requests[p.stream + 1]))
  /\ c' = [c EXCEPT !.active = TRUE, !.stream = c.initial, !.stale = FALSE]
  /\ snd' = [Idle EXCEPT !.pc = "gate"]
  /\ ctx' = FALSE
  /\ UNCHANGED <<pump, reader, ctl, wire, onWire, frames, bad>>

Failing == [snd EXCEPT !.pc = "fail", !.err = TRUE]

\* wait: the gate opens, the context ends or the connection does.
PassGate ==
  /\ snd.pc = "gate"
  /\ snd' = IF ctx \/ c.err THEN Failing ELSE [snd EXCEPT !.pc = "ready", !.left = Current.data]
  /\ UNCHANGED <<c, p, pump, reader, ctl, wire, ctx, onWire, frames, bad>>

Whole == p.plan.strict \/ Current.data = 0

\* h2WaitReady, then the size of the next write from the credit of this moment.
AwaitReady ==
  LET need == IF Whole THEN Current.data ELSE 1
      verdict == Readiness(need) IN
  /\ snd.pc = "ready" /\ (ctx \/ verdict # "wait")
  /\ snd' = IF ctx \/ verdict = "err" THEN Failing
            ELSE [snd EXCEPT !.pc = "lock",
                  !.size = IF Whole THEN need ELSE Min({snd.left, c.window, c.stream, Payload})]
  /\ UNCHANGED <<c, p, pump, reader, ctl, wire, ctx, onWire, frames, bad>>

\* h2Write takes the wire and revalidates; lost credit returns an incremental
\* writer to waiting and fails a controlled one.
WriteBegins ==
  LET verdict == Readiness(snd.size) IN
  /\ snd.pc = "lock" /\ wire = "free"
  /\ IF ctx \/ verdict # "ok"
     THEN /\ snd' = IF verdict = "wait" /\ ~ctx /\ ~Whole THEN [snd EXCEPT !.pc = "ready"] ELSE Failing
          /\ UNCHANGED <<c, p, wire>>
     ELSE /\ snd' = [snd EXCEPT !.pc = "writing"]
          /\ wire' = "sender"
          /\ c' = [c EXCEPT !.window = @ - snd.size, !.stream = @ - snd.size,
                            !.lastSent = p.stream, !.open = @ \/ Current.opens]
          /\ p' = [p EXCEPT !.sent = @ + 1]
  /\ UNCHANGED <<pump, reader, ctl, ctx, onWire, frames, bad>>

\* The write returns, perhaps just before a close, and the sender turns to what
\* is left.
WriteEnds ==
  LET plan == p.plan
      all == snd.size = snd.left \/ Whole
      final == all /\ snd.at = Len(plan.records)
      next == IF ~all THEN [snd EXCEPT !.pc = "ready", !.left = @ - snd.size]
              ELSE IF final THEN [snd EXCEPT !.pc = "respond"]
              ELSE [snd EXCEPT !.at = @ + 1, !.left = plan.records[snd.at + 1].data,
                               !.pc = IF snd.at = plan.prefix THEN "gate" ELSE "ready"] IN
  /\ snd.pc = "writing"
  /\ wire' = "free"
  /\ onWire' = IF Current.closes THEN FALSE ELSE onWire \/ Current.opens
  /\ c' = IF Current.closes THEN [c EXCEPT !.open = FALSE] ELSE c
  /\ snd' = next
  /\ p' = (IF final THEN Completed([p EXCEPT !.written = TRUE]) ELSE p)
  /\ UNCHANGED <<pump, reader, ctl, ctx, frames, bad>>

\* The socket fails under the write, or was closed.
WriteBreaks ==
  /\ snd.pc = "writing" /\ (c.err \/ bad < MaxBad)
  /\ bad' = IF c.err THEN bad ELSE bad + 1
  /\ wire' = "free" /\ snd' = Failing
  /\ c' = Dead /\ p' = ClosedP(p)
  /\ UNCHANGED <<pump, reader, ctl, ctx, onWire, frames>>

\* A sender that failed closes the connection.
Gives ==
  /\ snd.pc = "fail"
  /\ snd' = [snd EXCEPT !.pc = "respond"]
  /\ c' = Dead /\ p' = ClosedP(p)
  /\ UNCHANGED <<pump, reader, ctl, wire, ctx, onWire, frames, bad>>

\* h2WaitResponse ends the exchange with its context; AfterFunc does the same
\* while a write is under way.
Cancelled ==
  /\ ctx /\ ~c.err
  /\ snd.pc \in {"lock", "writing"} \/ (snd.pc = "respond" /\ ~p.done)
  /\ c' = Dead /\ p' = ClosedP(p)
  /\ UNCHANGED <<snd, pump, reader, ctl, wire, ctx, onWire, frames, bad>>

\* h2Release.
Releases == c.active /\ p.done /\ p.written

\* The response is there: the hook runs if it has not, and the connection is
\* released for the next request or closed.
Finish ==
  LET q == IF p.complete THEN p ELSE [p EXCEPT !.complete = TRUE, !.calls = @ + 1] IN
  /\ snd.pc = "respond" /\ p.done
  /\ snd' = Idle
  /\ IF Releases
     THEN /\ p' = q
          /\ c' = [c EXCEPT !.active = FALSE]
     ELSE /\ p' = ClosedP(q) /\ c' = Dead
  /\ UNCHANGED <<pump, reader, ctl, wire, ctx, onWire, frames, bad>>

-----------------------------------------------------------------------------
(* The control writer *)

PumpTakes ==
  /\ pump.pc = "idle" /\ ctl # <<>>
  /\ pump' = [pc |-> "held", f |-> Head(ctl)]
  /\ ctl' = Tail(ctl)
  /\ UNCHANGED <<c, p, snd, reader, wire, ctx, onWire, frames, bad>>

MayControl == ~c.open

\* Credit counts from the moment its frame is about to be written.
PumpWrites ==
  /\ pump.pc = "held" /\ wire = "free" /\ ~c.err /\ MayControl
  /\ wire' = "pump"
  /\ pump' = [pump EXCEPT !.pc = "writing"]
  /\ c' = IF pump.f.kind = "credit" THEN [c EXCEPT !.receive = @ + pump.f.n] ELSE c
  /\ p' = IF pump.f.kind = "streamCredit" /\ c.active /\ p.stream = pump.f.stream
          THEN [p EXCEPT !.receive = @ + pump.f.n] ELSE p
  /\ UNCHANGED <<snd, reader, ctl, ctx, onWire, frames, bad>>

PumpWritten ==
  /\ pump.pc = "writing" /\ ~c.err
  /\ wire' = "free" /\ pump' = [pc |-> "idle", f |-> <<>>]
  /\ UNCHANGED <<c, p, snd, reader, ctl, ctx, onWire, frames, bad>>

PumpEnds ==
  /\ c.err /\ pump.pc # "done" /\ (pump.pc = "writing" \/ wire = "free" \/ pump.pc = "idle")
  /\ wire' = IF pump.pc = "writing" THEN "free" ELSE wire
  /\ pump' = [pc |-> "done", f |-> <<>>]
  /\ UNCHANGED <<c, p, snd, reader, ctl, ctx, onWire, frames, bad>>

-----------------------------------------------------------------------------
(* The reader: one handler per frame *)

Receives ==
  /\ reader /\ ~c.err /\ frames < MaxFrames
  /\ frames' = IF c.ready THEN frames + 1 ELSE frames

Unread == <<snd, pump, reader, wire, ctx, onWire, bad>>

\* SETTINGS: the first frame, and later changes of a stream window, of the
\* stream limit or of the header table.
Settings(window, streams, table) ==
  LET moved == c.stream + window - c.initial
      con == [c EXCEPT !.ready = TRUE, !.stream = moved, !.initial = window, !.streams = streams,
                       !.stale = @ \/ table] IN
  /\ Receives
  /\ IF moved > MaxWindow
     THEN Fatal(p)
     ELSE Queue(<<Control("ack", 0)>>, con, p)
  /\ UNCHANGED Unread

Ping ==
  /\ Receives /\ c.ready
  /\ Queue(<<Control("ping", 0)>>, c, p)
  /\ UNCHANGED Unread

ActiveStream(s) == c.active /\ p.stream = s /\ p.sent > 0

\* WINDOW_UPDATE for the connection (s = 0) or a stream.
WindowUpdate(s, n) ==
  /\ Receives /\ c.ready
  /\ IF ClosedStream(s) THEN UNCHANGED <<c, p, ctl>>
     ELSE IF s # 0 /\ ~ActiveStream(s) THEN Fatal(p)
     ELSE IF s = 0
     THEN IF c.window + n > MaxWindow THEN Fatal(p)
          ELSE c' = [c EXCEPT !.window = @ + n] /\ UNCHANGED <<p, ctl>>
     ELSE LET con == [c EXCEPT !.stream = @ + n] IN
          IF con.stream > MaxWindow THEN StreamFails(<<>>, con, p)
          ELSE c' = con /\ UNCHANGED <<p, ctl>>
  /\ UNCHANGED Unread

ResetStream(s) ==
  /\ Receives /\ c.ready /\ s # 0
  /\ IF ClosedStream(s) THEN UNCHANGED <<c, p, ctl>>
     ELSE IF ~ActiveStream(s) THEN Fatal(p)
     ELSE /\ p' = Completed([p EXCEPT !.reset = TRUE, !.done = TRUE, !.failed = TRUE, !.terminal = TRUE])
          /\ UNCHANGED <<c, ctl>>
  /\ UNCHANGED Unread

\* GOAWAY: the connection retires, and a stream beyond the last one fails.
GoAway(last) ==
  LET con == [c EXCEPT !.retiring = TRUE, !.goAway = last] IN
  /\ Receives /\ c.ready
  /\ IF c.retiring /\ last > c.goAway THEN Fatal(p)
     ELSE IF ~c.active \/ p.stream <= last \/ ClosedStream(p.stream)
     THEN c' = con /\ UNCHANGED <<p, ctl>>
     ELSE IF p.sent = 0 THEN Fatal(p)
     ELSE StreamFails(<<>>, con, p)
  /\ UNCHANGED Unread

\* responseEndLocked: "mismatch" or the finished request.
Mismatch(q) == ~q.noBody /\ q.length >= 0 /\ q.received # q.length

Ended(q) == Completed([q EXCEPT !.done = TRUE, !.valid = TRUE, !.terminal = TRUE])

\* HEADERS: an informational section, the response's fields (with a declared
\* length, or without a body) or trailers, each legal or not.
ResponseHeaders(s, legal, info, length, end) ==
  LET q == IF p.headers THEN p
           ELSE [p EXCEPT !.headers = TRUE, !.length = length, !.noBody = length = 0]
      fails == ~legal \/ (p.headers /\ ~end) \/ (info /\ end) IN
  /\ Receives /\ c.ready /\ s # 0 /\ (info => ~p.headers)
  /\ IF ClosedStream(s) THEN UNCHANGED <<c, p, ctl>>
     ELSE IF ~ActiveStream(s) THEN Fatal(p)
     ELSE IF p.done THEN StreamFails(<<>>, c, p)
     ELSE IF fails THEN StreamFails(<<>>, c, Terminated(p))
     ELSE IF info THEN UNCHANGED <<c, p, ctl>>
     ELSE IF ~end THEN p' = q /\ UNCHANGED <<c, ctl>>
     ELSE IF Mismatch(q) THEN StreamFails(<<>>, c, Terminated(q))
     ELSE p' = Ended(q) /\ UNCHANGED <<c, ctl>>
  /\ UNCHANGED Unread

\* Fault: a failed stream keeps the connection credit of its last frame.
CreditKept(n) == <<>>

\* The credit of n units goes back to the connection before a reset.
Restored(n) == IF n > 0 THEN <<Control("credit", n)>> ELSE <<>>

\* DATA: consumes both windows, and whatever happens to its stream the
\* connection gets the credit back.
ResponseData(s, n, end) ==
  LET con == [c EXCEPT !.receive = @ - n]
      q == [p EXCEPT !.received = @ + n, !.receive = @ - n] IN
  /\ Receives /\ c.ready /\ s # 0
  /\ IF ~ClosedStream(s) /\ ~ActiveStream(s) THEN Fatal(p)
     ELSE IF con.receive < 0 THEN Fatal(p)
     ELSE IF ClosedStream(s)
     THEN Queue(IF n > 0 THEN <<Control("credit", n)>> ELSE <<>>, con, p)
     ELSE IF p.done \/ ~p.headers \/ q.receive < 0 \/ (p.noBody /\ n > 0)
     THEN StreamFails(Restored(n), con, q)
     ELSE IF q.received > BodyMax \/ (end /\ Mismatch(q))
     THEN StreamFails(Restored(n), con, Terminated(q))
     ELSE Queue(IF n > 0 THEN <<Control("credit", n), Control("streamCredit", n)>> ELSE <<>>, con,
                IF end THEN Ended(q) ELSE q)
  /\ UNCHANGED Unread

\* The reader ends with the connection.
ReaderEnds ==
  /\ reader /\ c.err
  /\ reader' = FALSE
  /\ UNCHANGED <<c, p, snd, pump, ctl, wire, ctx, onWire, frames, bad>>

\* The peer hangs up, breaks the protocol outright or the lease is disposed of.
Disconnect ==
  /\ ~c.err /\ bad < MaxBad
  /\ bad' = bad + 1
  /\ c' = Dead /\ p' = ClosedP(p)
  /\ UNCHANGED <<snd, pump, reader, ctl, wire, ctx, onWire, frames>>

\* The context matters until the connection has failed.
Cancel ==
  /\ ~ctx /\ ~c.err /\ snd.pc # "idle"
  /\ ctx' = TRUE
  /\ UNCHANGED <<c, p, snd, pump, reader, ctl, wire, onWire, frames, bad>>

-----------------------------------------------------------------------------
SenderStep ==
  \/ PassGate \/ AwaitReady \/ WriteBegins \/ WriteEnds \/ WriteBreaks
  \/ Gives \/ Cancelled \/ Finish

PumpStep == PumpTakes \/ PumpWrites \/ PumpWritten \/ PumpEnds

Streams == 0..p.stream

Peer ==
  \/ Settings(0, TRUE, FALSE) \/ Settings(Initial, TRUE, FALSE)
  \/ Settings(Initial, FALSE, FALSE) \/ Settings(Initial, TRUE, TRUE)
  \/ Ping
  \/ \E s \in Streams : WindowUpdate(s, 1) \/ ResetStream(s) \/ GoAway(s)
  \/ \E s \in Streams, end \in BOOLEAN :
       \/ \E length \in {-1, 0, 1} : ResponseHeaders(s, TRUE, FALSE, length, end)
       \/ ResponseHeaders(s, TRUE, TRUE, -1, end) \/ ResponseHeaders(s, FALSE, FALSE, -1, end)
  \/ \E s \in Streams, n \in 0..2, end \in BOOLEAN : ResponseData(s, n, end)

Connected == SenderStep \/ PumpStep \/ Peer \/ ReaderEnds \/ Disconnect \/ Cancel

\* Some goroutine that can run does.  Nothing is assumed of the peer, which may
\* neither answer nor take what is written, so a write ends for certain only on
\* a closed socket.
Runs ==
  \/ PassGate \/ AwaitReady \/ WriteBegins \/ (c.err /\ WriteBreaks)
  \/ Gives \/ Cancelled \/ Finish \/ PumpTakes \/ PumpWrites \/ PumpEnds \/ ReaderEnds

-----------------------------------------------------------------------------
(* Properties *)

\* No control frame reaches the peer inside a header block, and the wire has
\* one writer: h2WriteWithRelease marks the block before it writes and
\* controlPump looks at the mark under the wire lock.
HeaderBlocksWhole ==
  /\ onWire => pump.pc # "writing"
  /\ ~(pump.pc = "writing" /\ snd.pc = "writing")

\* The credit the peer has been given, is about to be given or has queued for
\* it always adds up to the initial window: failed, reset and finished streams
\* lose none of it (responseData's restore).
CreditReturned ==
  c.err \/ c.receive + FoldLeft(LAMBDA a, f : IF f.kind = "credit" THEN a + f.n ELSE a, 0, ctl)
             + (IF pump.pc = "held" /\ pump.f.kind = "credit" THEN pump.f.n ELSE 0) = Initial

\* The completion hook runs at most once per request, exactly once when the
\* sender has returned, and a connection is free again only after a request
\* that was fully written and answered (completeLocked, h2Release).
CompletesOnce ==
  /\ p.calls <= 1
  /\ snd.pc = "idle" /\ p.stream > 0 => p.calls = 1
  /\ p.stream > 0 /\ ~c.active => p.done /\ p.written
=============================================================================
