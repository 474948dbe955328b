---------------------------- MODULE BatchAttempt ----------------------------
(***************************************************************************)
(* Batches sent one after the other on one HTTP/2 connection               *)
(* (src/tth2/readpump.go and the response half of src/tth2/conn.go).       *)
(*                                                                         *)
(* One read pump serves the connection for its whole life.  For each batch *)
(* http2conn.attempt registers a collector goroutine per stream, activates *)
(* the batch with the pump, flushes its records and then gathers one       *)
(* result per stream.  The pump hands each frame to a collector over an    *)
(* unbuffered channel, marks resets out of band, and on a fatal condition  *)
(* cancels the batch that is active.                                       *)
(*                                                                         *)
(* The peer opens with the streams it was sent, answers in any order, may  *)
(* reset a stream at any time, send GOAWAY or go away.  SETTINGS, PING and *)
(* send credit are left out.                                               *)
(***************************************************************************)
EXTENDS Integers, Sequences, FiniteSets

CONSTANTS
  Width,        \* the attempts made on this connection: requests in each batch
  HasBody,      \* TRUE iff the body is released by a record of its own
  MaxWire,      \* bound: frames on their way from the peer
  Cancellable   \* batches whose context may end

Batches == 1..Len(Width)
NoBatch == 0
Of(b) == {b} \X (1..Width[b])
Streams == UNION {Of(b) : b \in Batches}

ASSUME BatchAssumption ==
  /\ Width \in Seq(Nat \ {0}) /\ Width # << >>
  /\ MaxWire \in Nat \ {0}
  /\ HasBody \in BOOLEAN
  /\ Cancellable \subseteq Batches

VARIABLES
  peer,        \* how far the peer is with each stream
  wire,        \* frames sent by the peer and not yet read
  peerGone,    \* the peer closed its side
  tlsClosed,   \* this side closed the connection
  pump,        \* the read pump: where it is and the frame it works on
  pumpErr,     \* p.err
  response,    \* p.response, the active batch
  arrivals,    \* r.arrivals of each batch
  collectors,  \* streams in c.collectors
  rst,         \* streams whose collector was marked reset and closed
  coll,        \* collector goroutines: where each is, and its arrivalSeq
  cause,       \* the cause of each batch's context, none while it lives
  sendErr,     \* batches whose sendErr channel holds an error
  results,     \* resultsCh of the current batch
  main,        \* the goroutine in attempt
  order        \* history: streams in the order the peer sent final headers

vars == <<peer, wire, peerGone, tlsClosed, pump, pumpErr, response, arrivals,
          collectors, rst, coll, cause, sendErr, results, main, order>>

NoStream == <<0, 0>>
Frame == [kind : {"headers", "data", "rst", "goaway"},
          stream : Streams \cup {NoStream}, end : BOOLEAN]
NoFrame == [kind |-> "goaway", stream |-> NoStream, end |-> FALSE]

\* Why a batch's context is done: the caller's context or the batch timeout, the
\* body limit, the failed connection, a response without headers, an error of
\* the send, or simply the return of readResponses.
Causes == {"context", "limit", "conn", "malformed", "send", "returned"}

\* How an attempt ends; the first two keep the connection.
Endings == {"ok", "reset", "sendReset", "lost"} \cup Causes

NewMain(b, at, outcome) ==
  [at |-> at, batch |-> b, got |-> 0, streamErr |-> FALSE, fatal |-> "none",
   outcome |-> outcome]

TypeOK ==
  /\ peer \in [Streams -> {"idle", "open", "headers", "ended", "reset"}]
  /\ wire \in Seq(Frame) /\ Len(wire) <= MaxWire
  /\ peerGone \in BOOLEAN /\ tlsClosed \in BOOLEAN
  /\ pump \in [at : {"read", "dispatch", "select", "ack", "retire", "fail", "dead"},
               frame : Frame, resp : Batches \cup {NoBatch}, delivered : BOOLEAN]
  /\ pumpErr \in {"none", "eof", "goaway", "orphan"} \cup Causes
  /\ response \in Batches \cup {NoBatch}
  /\ arrivals \in [Batches -> Nat]
  /\ collectors \subseteq Streams /\ rst \subseteq Streams
  /\ coll \in [Streams -> [at : {"off", "run", "done"}, seq : Nat \cup {-1}]]
  /\ cause \in [Batches -> Causes \cup {"none"}]
  /\ sendErr \subseteq Batches
  /\ results \in Seq(Streams \X {"ok", "reset", "malformed", "cancelled"})
  /\ main \in [at : {"start", "activate", "headers", "body", "abort", "read",
                     "close", "closed"},
               batch : 1..Len(Width) + 1, got : Nat, streamErr : BOOLEAN,
               fatal : Causes \cup {"none"}, outcome : Endings \cup {"none"}]
  /\ order \in Seq(Streams)

Init ==
  /\ peer = [s \in Streams |-> "idle"]
  /\ wire = << >> /\ peerGone = FALSE /\ tlsClosed = FALSE
  /\ pump = [at |-> "read", frame |-> NoFrame, resp |-> NoBatch, delivered |-> FALSE]
  /\ pumpErr = "none" /\ response = NoBatch
  /\ arrivals = [b \in Batches |-> 0]
  /\ collectors = {} /\ rst = {}
  /\ coll = [s \in Streams |-> [at |-> "off", seq |-> -1]]
  /\ cause = [b \in Batches |-> "none"]
  /\ sendErr = {} /\ results = << >>
  /\ main = NewMain(1, "start", "none")
  /\ order = << >>

peerVars == <<peer, wire, peerGone, order>>
pumpVars == <<pump, pumpErr, arrivals>>
batchVars == <<collectors, cause>>
collVars == <<rst, coll, sendErr, results>>

-----------------------------------------------------------------------------
\* r.cancel: the first cause stays.
CancelBatch(b, v) ==
  cause' = IF cause[b] = "none" THEN [cause EXCEPT ![b] = v] ELSE cause

\* closeAll: cancel the batch and forget every collector of the connection.
CloseAll(b, v) ==
  /\ CancelBatch(b, v)
  /\ collectors' = {}

\* attempt: a connection whose pump failed is refused; otherwise
\* newResponseRead registers the collectors and starts them.
Start ==
  LET b == main.batch IN
  /\ main.at = "start"
  /\ b \in Batches
  /\ IF pumpErr # "none"
     THEN /\ main' = NewMain(b, "close", "lost")
          /\ UNCHANGED <<collectors, coll>>
     ELSE /\ main' = NewMain(b, "activate", "none")
          /\ collectors' = collectors \cup Of(b)
          /\ coll' = [s \in Streams |->
                        IF s \in Of(b) THEN [coll[s] EXCEPT !.at = "run"] ELSE coll[s]]
  /\ UNCHANGED <<peerVars, tlsClosed, pumpVars, response, rst, cause, sendErr,
                 results>>

\* activate, under the pump's mutex: a pump that failed since is noticed here.
Activate ==
  LET b == main.batch IN
  /\ main.at = "activate"
  /\ IF pumpErr # "none"
     THEN /\ main' = [main EXCEPT !.at = "abort", !.outcome = "lost"]
          /\ CloseAll(b, "conn")
          /\ UNCHANGED response
     ELSE /\ main' = [main EXCEPT !.at = "headers"]
          /\ response' = b
          /\ UNCHANGED batchVars
  /\ UNCHANGED <<peerVars, tlsClosed, pumpVars, collVars>>

\* The header record is flushed: the peer has every stream of the batch.
FlushHeaders ==
  /\ main.at = "headers"
  /\ pumpErr = "none" /\ ~tlsClosed
  /\ peer' = [s \in Streams |->
                IF s \in Of(main.batch) /\ ~peerGone THEN "open" ELSE peer[s]]
  /\ main' = [main EXCEPT !.at = IF HasBody THEN "body" ELSE "read"]
  /\ UNCHANGED <<wire, peerGone, order, tlsClosed, pumpVars, response, batchVars,
                 collVars>>

\* The final body record is flushed, unless a stream was reset before.
FlushBody ==
  /\ main.at = "body"
  /\ pumpErr = "none" /\ ~tlsClosed
  /\ main.batch \notin sendErr
  /\ main' = [main EXCEPT !.at = "read"]
  /\ UNCHANGED <<peerVars, tlsClosed, pumpVars, response, batchVars, collVars>>

\* A send phase fails: for the batch's context, for a reset of one of its
\* streams, for the failed pump or for a write error.  abort cancels the batch.
SendFail(why) ==
  LET b == main.batch IN
  /\ main.at \in {"headers", "body"}
  /\ \/ why = cause[b] /\ why # "none"
     \/ why = "sendReset" /\ main.at = "body" /\ b \in sendErr
     \/ why = "lost" /\ (pumpErr # "none" \/ peerGone)
  /\ main' = [main EXCEPT !.at = "abort", !.outcome = why]
  /\ CloseAll(b, "send")
  /\ sendErr' = IF why = "sendReset" THEN sendErr \ {b} ELSE sendErr
  /\ UNCHANGED <<peerVars, tlsClosed, pumpVars, response, rst, coll, results>>

\* retire: the pump no longer serves this batch.
Retire == response' = IF response = main.batch THEN NoBatch ELSE response

\* abort: drain one result per stream, then return without the connection.
AbortDrain ==
  /\ main.at = "abort"
  /\ \/ /\ main.got < Width[main.batch]
        /\ results # << >>
        /\ results' = Tail(results)
        /\ main' = [main EXCEPT !.got = @ + 1]
        /\ UNCHANGED response
     \/ /\ main.got = Width[main.batch]
        /\ main' = [main EXCEPT !.at = "close"]
        /\ Retire
        /\ UNCHANGED results
  /\ UNCHANGED <<peerVars, tlsClosed, pumpVars, batchVars, rst, coll, sendErr>>

\* readResponses: take one result.  The first fatal one cancels the batch and
\* closes the connection, a reset only counts.
ReadResult ==
  LET b == main.batch
      kind == Head(results)[2]
  IN
  /\ main.at = "read"
  /\ main.got < Width[main.batch]
  /\ results # << >>
  /\ results' = Tail(results)
  /\ IF kind \in {"ok", "reset"} \/ main.fatal # "none"
     THEN /\ main' = [main EXCEPT !.got = @ + 1,
                                  !.streamErr = @ \/ kind = "reset"]
          /\ UNCHANGED <<batchVars, tlsClosed>>
     ELSE /\ CloseAll(b, kind)
          /\ main' = [main EXCEPT !.got = @ + 1, !.fatal = cause'[b]]
          /\ tlsClosed' = TRUE
  /\ UNCHANGED <<peerVars, pumpVars, response, rst, coll, sendErr>>

Returns(b, outcome, kept) ==
  /\ main.at = "read"
  /\ main.got = Width[main.batch]
  /\ main' = IF kept THEN NewMain(b + 1, "start", outcome)
             ELSE [main EXCEPT !.at = "close", !.outcome = outcome]
  /\ CancelBatch(b, "returned")
  /\ Retire
  /\ UNCHANGED <<peerVars, tlsClosed, pumpVars, collectors, collVars>>

\* readResponses returns: a fatal error outranks a reset.  attempt retires the
\* batch, and the connection is kept for the next one or closed.
ReadDone ==
  Returns(main.batch,
          IF main.fatal # "none" THEN main.fatal
          ELSE IF main.streamErr THEN "reset" ELSE "ok",
          main.fatal = "none")

\* close, from discard (at "close") or when the pool drops an idle connection
\* (at "start"): close the socket, then wait for the pump.
Close(at) ==
  /\ main.at = at
  /\ main' = [main EXCEPT !.at = "closed"]
  /\ tlsClosed' = TRUE
  /\ UNCHANGED <<peerVars, pumpVars, response, batchVars, collVars>>

-----------------------------------------------------------------------------
\* run: read a frame, and let dispatch look up the active batch.
PumpRead ==
  /\ pump.at = "read"
  /\ ~tlsClosed
  /\ wire # << >>
  /\ pump' = [at |-> "dispatch", frame |-> Head(wire), resp |-> response,
              delivered |-> FALSE]
  /\ wire' = Tail(wire)
  /\ UNCHANGED <<peer, peerGone, order, tlsClosed, pumpErr, arrivals, response,
                 batchVars, collVars, main>>

\* fail: the first error stays, and the batch active at that moment is noted.
Fails(e) ==
  /\ pumpErr' = IF pumpErr = "none" THEN e ELSE pumpErr
  /\ pump' = [pump EXCEPT !.at = "fail", !.resp = response]

\* run: the connection is closed by either side.
PumpEOF ==
  /\ pump.at = "read"
  /\ tlsClosed \/ (peerGone /\ wire = << >>)
  /\ Fails("eof")
  /\ UNCHANGED <<peerVars, tlsClosed, arrivals, response, batchVars, collVars, main>>

\* dispatch: GOAWAY, or a response frame while no batch is active.
PumpFatal ==
  /\ pump.at = "dispatch"
  /\ \/ pump.frame.kind = "goaway" /\ Fails("goaway")
     \/ /\ pump.frame.kind \in {"headers", "data"}
        /\ pump.resp = NoBatch
        /\ Fails("orphan")
  /\ UNCHANGED <<peerVars, tlsClosed, arrivals, response, batchVars, collVars, main>>

\* dispatch: RST_STREAM.  A known stream is marked and its channel closed, and a
\* send in progress is told; otherwise the reset raced its stream's end.
PumpReset ==
  LET s == pump.frame.stream
      known == pump.resp # NoBatch /\ s \in collectors
  IN
  /\ pump.at = "dispatch"
  /\ pump.frame.kind = "rst"
  /\ pump' = [pump EXCEPT !.at = "read", !.frame = NoFrame, !.resp = NoBatch]
  /\ collectors' = IF known THEN collectors \ {s} ELSE collectors
  /\ rst' = IF known THEN rst \cup {s} ELSE rst
  /\ sendErr' = IF known THEN sendErr \cup {pump.resp} ELSE sendErr
  /\ UNCHANGED <<peerVars, tlsClosed, pumpErr, arrivals, response, coll, cause,
                 results, main>>

\* Fault: only headers that end their stream are counted.
CountArrivalEnded(delivered) ==
  IF pump.frame.kind = "headers"
  THEN /\ arrivals' = [arrivals EXCEPT ![pump.resp] =
                         IF pump.frame.end THEN @ + 1 ELSE @]
       /\ pump' = [pump EXCEPT !.at = "retire", !.delivered = delivered]
  ELSE /\ pump' = [pump EXCEPT !.at = "ack", !.delivered = delivered]
       /\ UNCHANGED arrivals

\* The number a header event carries is taken when its delivery is over.
CountArrival(delivered) ==
  IF pump.frame.kind = "headers"
  THEN /\ arrivals' = [arrivals EXCEPT ![pump.resp] = @ + 1]
       /\ pump' = [pump EXCEPT !.at = "retire", !.delivered = delivered]
  ELSE /\ pump' = [pump EXCEPT !.at = "ack", !.delivered = delivered]
       /\ UNCHANGED arrivals

\* sendFrame: find the collector; a frame for an unknown stream is dropped.
PumpLookup ==
  /\ pump.at = "dispatch"
  /\ pump.frame.kind \in {"headers", "data"}
  /\ pump.resp # NoBatch
  /\ IF pump.frame.stream \in collectors
     THEN pump' = [pump EXCEPT !.at = "select"] /\ UNCHANGED arrivals
     ELSE CountArrival(FALSE)
  /\ UNCHANGED <<peerVars, tlsClosed, pumpErr, response, batchVars, collVars, main>>

\* collectStream: the body limit is exceeded.
Overflow(b) == CloseAll(b, "limit")

\* sendFrame and collectStream: the collector receives the event.  It returns on
\* END_STREAM, with an error if no headers came, or when the body limit is
\* exceeded, which cancels the batch.
Deliver(overflow) ==
  LET s == pump.frame.stream
      seq == IF pump.frame.kind = "headers" THEN arrivals[pump.resp] ELSE coll[s].seq
      kind == IF overflow THEN "cancelled" ELSE IF seq >= 0 THEN "ok" ELSE "malformed"
      returns == overflow \/ pump.frame.end
  IN
  /\ pump.at = "select"
  /\ coll[s].at = "run" /\ s \notin rst
  /\ overflow => pump.frame.kind = "data"
  /\ coll' = [coll EXCEPT ![s] = [at |-> IF returns THEN "done" ELSE "run", seq |-> seq]]
  /\ results' = IF returns THEN Append(results, <<s, kind>>) ELSE results
  /\ CountArrival(TRUE)
  /\ IF overflow THEN Overflow(s[1]) ELSE UNCHANGED batchVars
  /\ UNCHANGED <<peerVars, tlsClosed, pumpErr, response, rst, sendErr, main>>

\* sendFrame: the batch's context is done.  Its cause becomes the pump's error.
PumpCancelled ==
  /\ pump.at = "select"
  /\ cause[pump.resp] # "none"
  /\ Fails(cause[pump.resp])
  /\ UNCHANGED <<peerVars, tlsClosed, arrivals, response, batchVars, collVars, main>>

\* dispatchFrame: WINDOW_UPDATE for a DATA frame, which may fail on a closed
\* connection; an empty frame is not acknowledged.
PumpAck ==
  /\ pump.at = "ack"
  /\ \/ pump' = [pump EXCEPT !.at = "retire"] /\ UNCHANGED pumpErr
     \/ (tlsClosed \/ peerGone) /\ Fails("eof")
  /\ UNCHANGED <<peerVars, tlsClosed, arrivals, response, batchVars, collVars, main>>

\* Fault: the end of one stream forgets every collector.
PumpRetireAll ==
  /\ pump.at = "retire"
  /\ pump' = [pump EXCEPT !.at = "read", !.frame = NoFrame, !.resp = NoBatch,
                          !.delivered = FALSE]
  /\ collectors' = IF pump.frame.end /\ pump.delivered THEN {} ELSE collectors
  /\ UNCHANGED <<peerVars, tlsClosed, pumpErr, arrivals, response, cause,
                 collVars, main>>

\* dispatchFrame: retireStream after an accepted END_STREAM.
PumpRetire ==
  /\ pump.at = "retire"
  /\ pump' = [pump EXCEPT !.at = "read", !.frame = NoFrame, !.resp = NoBatch,
                          !.delivered = FALSE]
  /\ collectors' = IF pump.frame.end /\ pump.delivered
                   THEN collectors \ {pump.frame.stream} ELSE collectors
  /\ UNCHANGED <<peerVars, tlsClosed, pumpErr, arrivals, response, cause,
                 collVars, main>>

\* Fault: the active batch is not told.
PumpFailedSilent ==
  /\ pump.at = "fail"
  /\ pump' = [pump EXCEPT !.at = "dead", !.frame = NoFrame, !.resp = NoBatch]
  /\ tlsClosed' = TRUE
  /\ UNCHANGED <<peerVars, pumpErr, arrivals, response, batchVars, collVars, main>>

\* fail, outside the mutex: cancel the noted batch; run then closes the
\* connection and ends.
PumpFailed ==
  /\ pump.at = "fail"
  /\ pump' = [pump EXCEPT !.at = "dead", !.frame = NoFrame, !.resp = NoBatch]
  /\ IF pump.resp # NoBatch THEN CloseAll(pump.resp, "conn") ELSE UNCHANGED batchVars
  /\ tlsClosed' = TRUE
  /\ UNCHANGED <<peerVars, pumpErr, arrivals, response, collVars, main>>

-----------------------------------------------------------------------------
\* collectStream: the channel was closed by a reset.
CollectReset(s) ==
  /\ coll[s].at = "run"
  /\ s \in rst
  /\ coll' = [coll EXCEPT ![s].at = "done"]
  /\ results' = Append(results, <<s, "reset">>)
  /\ UNCHANGED <<peerVars, tlsClosed, pumpVars, response, batchVars, rst, sendErr, main>>

\* collectStream: the batch's context is done.
CollectCancelled(s) ==
  /\ coll[s].at = "run"
  /\ cause[s[1]] # "none"
  /\ coll' = [coll EXCEPT ![s].at = "done"]
  /\ results' = Append(results, <<s, "cancelled">>)
  /\ UNCHANGED <<peerVars, tlsClosed, pumpVars, response, batchVars, rst, sendErr, main>>

\* The caller's context or the batch timeout ends a batch that is under way.
ContextEnds(b) ==
  /\ b \in Cancellable
  /\ main.batch = b /\ main.at \in {"activate", "headers", "body", "read"}
  /\ cause[b] = "none"
  /\ CancelBatch(b, "context")
  /\ UNCHANGED <<peerVars, tlsClosed, pumpVars, response, collectors, collVars, main>>

\* The peer answers a stream it knows, in any order, and may end or reset it.
PeerSend(s, kind, end) ==
  /\ ~peerGone /\ Len(wire) < MaxWire
  /\ CASE kind = "headers" -> peer[s] = "open"
       [] kind = "data"    -> peer[s] \in {"open", "headers"} /\ end
       [] kind = "rst"     -> peer[s] \in {"open", "headers", "ended"} /\ ~end
       [] OTHER            -> FALSE
  /\ peer' = [peer EXCEPT ![s] = IF kind = "rst" THEN "reset"
                                 ELSE IF end THEN "ended" ELSE "headers"]
  /\ wire' = Append(wire, [kind |-> kind, stream |-> s, end |-> end])
  /\ order' = IF kind = "headers" THEN Append(order, s) ELSE order
  /\ UNCHANGED <<peerGone, tlsClosed, pumpVars, response, batchVars, collVars, main>>

\* The peer leaves, with or without a GOAWAY.
PeerLeaves(goaway) ==
  /\ ~peerGone
  /\ goaway => Len(wire) < MaxWire
  /\ peerGone' = TRUE
  /\ wire' = IF goaway THEN Append(wire, NoFrame) ELSE wire
  /\ UNCHANGED <<peer, order, tlsClosed, pumpVars, response, batchVars, collVars, main>>

\* The connection is closed, and so is everything that served it.
Closed ==
  /\ main.at = "closed" /\ pump.at = "dead"
  /\ UNCHANGED vars

AttemptStep ==
  \/ Activate \/ FlushHeaders \/ FlushBody
  \/ \E why \in Endings : SendFail(why)
  \/ AbortDrain \/ ReadResult \/ ReadDone \/ Close("close")

PumpStep ==
  \/ PumpRead \/ PumpEOF \/ PumpFatal \/ PumpReset \/ PumpLookup
  \/ \E overflow \in BOOLEAN : Deliver(overflow)
  \/ PumpCancelled \/ PumpAck \/ PumpRetire \/ PumpFailed

CollectStep(s) == CollectReset(s) \/ CollectCancelled(s)

Next ==
  \/ Start \/ Close("start")
  \/ AttemptStep \/ PumpStep
  \/ \E s \in Streams : CollectStep(s)
  \/ \E b \in Batches : ContextEnds(b)
  \/ \E s \in Streams, kind \in {"headers", "data", "rst"}, end \in BOOLEAN :
       PeerSend(s, kind, end)
  \/ \E goaway \in BOOLEAN : PeerLeaves(goaway)
  \/ Closed

\* Goroutines keep running and a write ends.  Nothing is assumed of the peer, and
\* an idle connection need not be used again.
Fairness ==
  /\ WF_vars(AttemptStep) /\ WF_vars(PumpStep)
  /\ \A s \in Streams : WF_vars(CollectStep(s))

Spec == Init /\ [][Next]_vars
FairSpec == Spec /\ Fairness

-----------------------------------------------------------------------------
Before(s, t) == \E i, j \in 1..Len(order) : i < j /\ order[i] = s /\ order[j] = t

\* Batch b was the last to return, and it kept the connection.
Kept(b) == main.batch = b + 1 /\ main.outcome \in {"ok", "reset"}

\* Arrival ranks are the order in which the peer put final headers on the wire,
\* whatever order the collector goroutines ran in and whatever else the pump
\* handled in between.
RanksFollowWire ==
  \A s, t \in Streams :
    s[1] = t[1] /\ coll[s].seq >= 0 /\ coll[t].seq >= 0 =>
      (coll[s].seq < coll[t].seq <=> Before(s, t))

\* What ends a batch is its own.  A connection is kept only when every stream of
\* the batch is over on both sides, so no later frame of it can reach the next
\* batch; neither a reset of an earlier batch's stream nor the cancellation of an
\* earlier batch's context reaches a later batch, and the pump of a kept
\* connection is never failed by the end of a batch.
BatchesIsolated ==
  /\ \A b \in Batches : Kept(b) =>
       /\ \A s \in Of(b) : peer[s] \in {"ended", "reset"} /\ coll[s].at = "done"
       /\ main.outcome = "ok" => \A s \in Of(b) : coll[s].seq >= 0 /\ s \notin rst
       /\ main.outcome = "reset" => Of(b) \cap rst # {}
  /\ \A b \in sendErr : Of(b) \cap rst # {}
  /\ pumpErr # "returned"
  /\ main.at \in {"headers", "body", "read"} /\ cause[main.batch] = "none"
       => \A s \in Of(main.batch) : coll[s].at = "run" /\ s \notin rst => s \in collectors

\* A batch that was cancelled, or whose connection failed, ends: the pump never
\* stays with a collector that is gone, and a failure between two batches is
\* noticed by the next one.
CancelledEnds ==
  \A b \in Batches :
    main.batch = b /\ main.at \notin {"start", "closed"}
      /\ (cause[b] # "none" \/ pumpErr # "none")
      ~> main.batch # b \/ (main.at = "closed" /\ pump.at = "dead")
=============================================================================
