----------------------------- MODULE BodyRelease ----------------------------
(***************************************************************************)
(* One batch that carries request bodies, on its way out (the send half of *)
(* src/tth2/conn.go, with writer.go and the control plane of readpump.go). *)
(* The sending goroutine cuts the bodies into records and pays for each    *)
(* with send credit; the read pump adds credit and acknowledges SETTINGS   *)
(* and PING on the same socket; the write lock keeps their frames apart.   *)
(*                                                                         *)
(* The point of the library is the last record: it ends every stream at    *)
(* once.  The peer is arbitrary; its own view of the windows is kept too,  *)
(* and it takes a SETTINGS value into account when it is acknowledged.     *)
(* SETTINGS_MAX_FRAME_SIZE is at least Budget and so never limits a frame. *)
(***************************************************************************)
EXTENDS RecordPlan

CONSTANTS
  Body,        \* the lengths of the bodies, in stream order
  Withholds,   \* the values of WithBodyBytesWithheld
  ConnWindow,  \* the connection send window when the batch starts
  Windows,     \* values of SETTINGS_INITIAL_WINDOW_SIZE
  Window,      \* the one in force when the batch starts
  MaxWindow,   \* maxInitialWindowSize
  Grants,      \* increments of the peer's WINDOW_UPDATE frames
  MaxFrames,   \* bound: frames the peer sends
  MaxInbox,    \* bound: of them in flight
  MaxFaults    \* bound: resets, GOAWAY, cancellation, refused headers

ASSUME BodyAssumption ==
  /\ Body \in Seq(Nat) /\ Carrying(Body) # {}
  /\ Withholds \subseteq Nat
  /\ Windows \subseteq 0..MaxWindow /\ Window \in Windows
  /\ ConnWindow \in 0..MaxWindow
  /\ Grants \subseteq 1..MaxWindow
  \* maxBodyCarryingStreams: one byte of every body fits one record
  /\ Cardinality(Carrying(Body)) * (FrameHeader + 1) <= Budget

VARIABLES
  withheld,  \* bodyBytesWithheld of this batch
  pc,        \* where the sending goroutine is
  sent,      \* bytes of each prefix in flushed records
  plan,      \* the record being planned, reserved or written
  final,     \* whether that record ends the streams
  result,    \* how the send returned, else none
  conn,      \* peerConnSendWindow
  stream,    \* flowControl.stream
  initWin,   \* peerInitStreamWindow
  flow,      \* whether the pump knows the batch's flowControl
  changed,   \* tokens in flow.changed
  wire,      \* the holder of wireMu: none, send or pump
  broken,    \* writeBroken
  buf,       \* whether frames of a record wait in bw
  sendErr,   \* errors in responses.sendErr
  ctxDone,   \* whether the batch's context ended
  pumpErr,   \* whether the read pump failed (p.err, and responses.ctx done)
  pump,      \* reading, or acknowledging with the window it has applied
  inbox,     \* frames on their way to the pump
  opened,    \* whether the peer has the header record
  peerConn,  \* the peer's connection window
  peerWin,   \* and stream windows
  peerInit,  \* the last initial window acknowledged to it
  ended,     \* the streams it has seen END_STREAM on
  stalled,   \* whether it has stopped reading, so that a flush blocks
  frames,    \* frames the peer may still send
  faults     \* faults left

sender == <<withheld, pc, sent, plan, final, result>>
credit == <<conn, stream, initWin, flow, changed>>
writer == <<wire, broken, buf>>
signals == <<sendErr, ctxDone, pumpErr>>
peer == <<opened, peerConn, peerWin, peerInit, ended, stalled, frames, faults>>
vars == <<sender, credit, writer, signals, pump, inbox, peer>>

S == DOMAIN Body
Zero == Nothing(Body)
Add(f, g) == [i \in S |-> f[i] + g[i]]
Sub(f, g) == [i \in S |-> f[i] - g[i]]

\* The pivots of sendWithBody: what is sent before the tail, and the tail.
Prefix == [i \in S |-> IF withheld = 0 THEN Body[i]
                       ELSE Max({0, Body[i] - withheld})]
Tails == Sub(Body, Prefix)
Direct == withheld = 0
Left == Sub(Prefix, sent)

Init ==
  /\ withheld \in Withholds
  /\ pc = "start" /\ sent = Zero /\ plan = Zero /\ final = FALSE
  /\ result = "none"
  /\ conn = ConnWindow /\ stream = Zero /\ initWin = Window
  /\ flow = FALSE /\ changed = 0
  /\ wire = "none" /\ broken = FALSE /\ buf = FALSE
  /\ sendErr = 0 /\ ctxDone = FALSE /\ pumpErr = FALSE
  /\ pump = [pc |-> "read", window |-> Window] /\ inbox = << >>
  /\ opened = FALSE /\ peerConn = ConnWindow
  /\ peerWin = [i \in S |-> Window] /\ peerInit = Window /\ ended = {}
  /\ stalled = FALSE /\ frames = MaxFrames /\ faults = MaxFaults

-----------------------------------------------------------------------------
(* The sending goroutine.                                                  *)

Goto(from, to) == pc = from /\ pc' = to

\* Leaving a send: clearFlow, and recordWriter.close, for which a record that
\* is still open has broken the connection.
Leave(why) ==
  /\ pc' = "done" /\ result' = why
  /\ flow' = FALSE
  /\ IF wire = "send" THEN wire' = "none" /\ broken' = TRUE /\ buf' = FALSE
                      ELSE UNCHANGED writer
  /\ UNCHANGED <<withheld, sent, plan, final, conn, stream, initWin, changed,
                 pump, inbox, peer>>

\* sendFailure: take the error a reset left for the sender.
TakeSendErr == sendErr > 0 /\ sendErr' = 0 /\ UNCHANGED <<ctxDone, pumpErr>>

\* reserve: all credit of one record, or none.
Affordable(needs) ==
  /\ \A i \in S : needs[i] > 0 => needs[i] <= stream[i]
  /\ Payload(needs) <= conn

\* Fault: the connection window is checked and not charged.
DebitStreams(needs) ==
  /\ stream' = Sub(stream, needs)
  /\ UNCHANGED <<conn, initWin, flow, changed>>

Debit(needs) ==
  /\ stream' = Sub(stream, needs)
  /\ conn' = conn - Payload(needs)
  /\ UNCHANGED <<initWin, flow, changed>>

\* setFlow: the pump learns of the batch's windows, which start at the value in
\* force.
SetFlow == flow' = TRUE /\ stream' = [i \in S |-> initWin] /\ changed' = 0

\* tailReleaseNeeds refuses a tail that needs more than a record; beginSendFlow
\* gives every stream the initial window in force.
Start ==
  /\ pc = "start"
  /\ IF RecordBytes(Tails) > Budget \/ pumpErr
     THEN Leave(IF pumpErr THEN "error" ELSE "refused") /\ UNCHANGED signals
     ELSE /\ pc' = "headers" /\ SetFlow
          /\ UNCHANGED <<withheld, sent, plan, final, result, conn, initWin,
                         writer, signals, pump, inbox, peer>>

\* flushBodyHeaders: the header record is locked, written and flushed.
FlushHeaders ==
  /\ Goto("headers", "fit") /\ wire = "none" /\ ~broken /\ ~pumpErr /\ ~ctxDone
  /\ ~stalled
  /\ opened' = TRUE
  /\ UNCHANGED <<withheld, sent, plan, final, result, credit, writer, signals,
                 pump, inbox, peerConn, peerWin, peerInit, ended, stalled, frames,
                 faults>>

\* The pacing gate or the context ends the batch, or the connection is lost.
HeadersFail ==
  /\ pc = "headers" /\ (ctxDone \/ (wire = "none" /\ (broken \/ pumpErr)))
  /\ Leave(IF ctxDone THEN "ctx" ELSE "error") /\ UNCHANGED signals

\* A header block too large for the record leaves it open.
HeadersSplit ==
  /\ pc = "headers" /\ wire = "none" /\ ~broken /\ ~pumpErr /\ ~ctxDone
  /\ faults > 0 /\ faults' = faults - 1
  /\ pc' = "done" /\ result' = "refused" /\ flow' = FALSE /\ broken' = TRUE
  /\ UNCHANGED <<withheld, sent, plan, final, conn, stream, initWin, changed,
                 wire, buf, signals, pump, inbox, opened, peerConn, peerWin,
                 peerInit, ended, stalled, frames>>

\* The next phase after the prefixes or, in a direct send, the bodies.
AfterBodies == IF Direct THEN "return" ELSE "delay"

\* sendFittingBodyRecord: everything in one record when it fits and is paid for.
Fit ==
  /\ pc = "fit"
  /\ IF Payload(Prefix) = 0
     THEN pc' = AfterBodies /\ UNCHANGED <<plan, final, credit>>
     ELSE IF RecordBytes(Prefix) <= Budget /\ Affordable(Prefix)
     THEN pc' = "lock" /\ plan' = Prefix /\ final' = Direct /\ Debit(Prefix)
     ELSE pc' = "greedy" /\ UNCHANGED <<plan, final, credit>>
  /\ UNCHANGED <<withheld, sent, result, writer, signals, pump, inbox, peer>>

\* Fault: no byte is kept back.
CapsAll == [i \in S |-> Max({0, Min({Left[i], Budget - FrameHeader, stream[i]})})]

\* The caps of an intermediate record: a direct send keeps a byte of each body
\* for the shared final record.
Caps ==
  [i \in S |->
     Max({0, Min({Left[i] - (IF Direct THEN 1 ELSE 0),
                  Budget - FrameHeader, stream[i]})})]

FinalFits ==
  /\ Direct /\ Payload(Left) + FrameHeader * Cardinality(Carrying(Body)) <= Budget
  /\ Affordable(Left)

\* sendGreedyBodyPhase, the head of the loop: finish, plan the next record from
\* a snapshot of the credit, or wait for more.
Greedy ==
  /\ pc = "greedy" /\ sendErr = 0 /\ ~ctxDone
  /\ \E len \in {Prefix}, caps \in {Caps} :
     \E next \in {PlanRecord(len, sent, caps, conn)} :
         \/ /\ ~Direct /\ Payload(Left) = 0
            /\ pc' = "delay" /\ UNCHANGED <<plan, final, credit>>
         \/ /\ FinalFits
            /\ pc' = "lock" /\ plan' = Left /\ final' = TRUE /\ Debit(Left)
         \/ /\ ~FinalFits /\ (Direct \/ Payload(Left) > 0)
            /\ pc' = IF Payload(next) = 0 THEN "drain" ELSE "reserve"
            /\ plan' = next /\ final' = FALSE /\ UNCHANGED credit
  /\ UNCHANGED <<withheld, sent, result, writer, signals, pump, inbox, peer>>

GreedyFail ==
  /\ pc = "greedy"
  /\ \/ TakeSendErr /\ Leave("reset")
     \/ sendErr = 0 /\ ctxDone /\ Leave("ctx") /\ UNCHANGED signals

\* The plan is charged, or made again because SETTINGS changed the credit.
Reserve ==
  /\ pc = "reserve"
  /\ IF Affordable(plan) THEN pc' = "lock" /\ Debit(plan)
                         ELSE pc' = "greedy" /\ UNCHANGED credit
  /\ UNCHANGED <<withheld, sent, plan, final, result, writer, signals, pump,
                 inbox, peer>>

\* waitReleaseDelay, and then the check in front of the tail.
Delay ==
  /\ Goto("delay", "tail") /\ sendErr = 0
  /\ UNCHANGED <<withheld, sent, plan, final, result, credit, writer, signals,
                 pump, inbox, peer>>

DelayFail ==
  /\ pc = "delay"
  /\ \/ ctxDone /\ Leave("ctx") /\ UNCHANGED signals
     \/ TakeSendErr /\ Leave("reset")

\* writeTailReleaseFrames: every withheld tail is paid for at once.
ReserveTail ==
  /\ pc = "tail"
  /\ IF Affordable(Tails)
     THEN pc' = "lock" /\ plan' = Tails /\ final' = TRUE /\ Debit(Tails)
     ELSE pc' = "drain" /\ UNCHANGED <<plan, final, credit>>
  /\ UNCHANGED <<withheld, sent, result, writer, signals, pump, inbox, peer>>

\* drainForSendCredit: the select.
InTail == ~Direct /\ Payload(Left) = 0
Drained ==
  /\ Goto("drain", IF InTail THEN "tail" ELSE "greedy")
  /\ changed > 0 /\ changed' = 0
  /\ UNCHANGED <<withheld, sent, plan, final, result, conn, stream, initWin,
                 flow, writer, signals, pump, inbox, peer>>

\* Fault: the wait has no timeout of its own.
DrainFailUnbounded ==
  /\ pc = "drain"
  /\ \/ TakeSendErr /\ Leave("reset")
     \/ pumpErr /\ Leave("error") /\ UNCHANGED signals
     \/ ctxDone /\ Leave("ctx") /\ UNCHANGED signals

\* A reset, a failed pump, the caller's context, or defaultDrainTimeout.
DrainFail ==
  /\ pc = "drain"
  /\ \/ TakeSendErr /\ Leave("reset")
     \/ pumpErr /\ Leave("error") /\ UNCHANGED signals
     \/ ctxDone /\ Leave("ctx") /\ UNCHANGED signals
     \/ Leave("wedged") /\ UNCHANGED signals

\* recordWriter.begin, and the frames of the record in the buffer.
Lock ==
  /\ Goto("lock", "flush") /\ wire = "none" /\ ~broken /\ ~pumpErr
  /\ wire' = "send" /\ buf' = TRUE
  /\ UNCHANGED <<withheld, sent, plan, final, result, credit, broken, signals,
                 pump, inbox, peer>>

LockFail ==
  /\ pc = "lock"
  /\ \/ TakeSendErr /\ Leave("reset")
     \/ wire = "none" /\ (broken \/ pumpErr) /\ Leave("error") /\ UNCHANGED signals

\* flushOneRecordUnlocked: the record reaches the peer whole.
Flush ==
  /\ pc = "flush" /\ sendErr = 0 /\ RecordBytes(plan) <= Budget /\ ~pumpErr
  /\ ~stalled
  /\ wire' = "none" /\ buf' = FALSE /\ UNCHANGED broken
  /\ sent' = [i \in S |-> Min({Prefix[i], sent[i] + plan[i]})]
  /\ pc' = IF final THEN "return"
           ELSE IF Add(sent, plan) = Prefix THEN AfterBodies ELSE "greedy"
  /\ plan' = Zero
  /\ peerConn' = peerConn - Payload(plan)
  /\ peerWin' = Sub(peerWin, plan)
  /\ ended' = IF final THEN Carrying(plan) ELSE ended
  /\ UNCHANGED <<withheld, final, result, credit, signals, pump, inbox, opened,
                 peerInit, stalled, frames, faults>>

\* A reset noticed late, an oversized record, or a socket the pump has closed.
FlushFail ==
  /\ pc = "flush"
  /\ \/ TakeSendErr /\ Leave("reset")
     \/ sendErr = 0 /\ RecordBytes(plan) > Budget /\ Leave("split") /\ UNCHANGED signals
     \/ sendErr = 0 /\ pumpErr /\ Leave("error") /\ UNCHANGED signals

Return == pc = "return" /\ Leave("ok") /\ UNCHANGED signals

SenderStep ==
  \/ Start \/ FlushHeaders \/ HeadersFail \/ Fit \/ Greedy
  \/ GreedyFail \/ Reserve \/ Delay \/ DelayFail \/ ReserveTail \/ Drained
  \/ DrainFail \/ Lock \/ LockFail \/ Flush \/ FlushFail \/ Return

-----------------------------------------------------------------------------
(* The read pump, for the frames that concern the send side.               *)

Next1(kind) == pump.pc = "read" /\ ~pumpErr /\ inbox # << >> /\ Head(inbox).kind = kind
Consume == inbox' = Tail(inbox) \* the frame is read

\* fail: p.err is set and the batch's context cancelled; the pump is over.
PumpFails == pumpErr' = TRUE /\ UNCHANGED <<sendErr, ctxDone>>

\* notify: the channel has one slot.
Notify == changed' = IF flow THEN 1 ELSE changed

\* Fault: connection credit arrives without waking the sender.
PumpConnUpdateSilent ==
  /\ Next1("conn") /\ Consume
  /\ IF conn + Head(inbox).n > MaxWindow
     THEN PumpFails /\ UNCHANGED credit
     ELSE /\ conn' = conn + Head(inbox).n
          /\ UNCHANGED <<stream, initWin, flow, changed, signals>>
  /\ UNCHANGED <<sender, writer, pump, peer>>

\* WINDOW_UPDATE on the connection, as a compare-and-swap.
PumpConnUpdate ==
  /\ Next1("conn") /\ Consume
  /\ IF conn + Head(inbox).n > MaxWindow
     THEN PumpFails /\ UNCHANGED credit
     ELSE /\ conn' = conn + Head(inbox).n /\ Notify
          /\ UNCHANGED <<stream, initWin, flow, signals>>
  /\ UNCHANGED <<sender, writer, pump, peer>>

\* WINDOW_UPDATE on a stream: addStream while the batch sends.
PumpStreamUpdate ==
  /\ Next1("stream") /\ Consume
  /\ LET f == Head(inbox)
     IN  IF ~flow THEN UNCHANGED <<credit, signals>>
         ELSE IF stream[f.i] + f.n > MaxWindow THEN PumpFails /\ UNCHANGED credit
         ELSE /\ stream' = [stream EXCEPT ![f.i] = @ + f.n] /\ Notify
              /\ UNCHANGED <<conn, initWin, flow, signals>>
  /\ UNCHANGED <<sender, writer, pump, peer>>

\* applyInitDelta: every stream of the batch moves by the difference.
Moved(w) == [i \in S |-> stream[i] + w - initWin]

\* applySettings: the new initial window is published and every stream of the
\* batch moves by the difference, in one section of p.mu.
PumpSettings ==
  /\ Next1("settings") /\ Consume
  /\ LET w == Head(inbox).n
     IN  /\ initWin' = w /\ UNCHANGED <<conn, flow>>
         /\ IF flow /\ w # initWin /\ \E i \in S : Moved(w)[i] > MaxWindow
            THEN PumpFails /\ UNCHANGED <<stream, changed, pump>>
            ELSE /\ pump' = [pc |-> "ack", window |-> w]
                 /\ stream' = IF flow THEN Moved(w) ELSE stream
                 /\ changed' = IF flow /\ w # initWin THEN 1 ELSE changed
                 /\ UNCHANGED signals
  /\ UNCHANGED <<sender, writer, peer>>

\* PING from the peer.
PumpPing ==
  /\ Next1("ping") /\ Consume
  /\ pump' = [pc |-> "ack", window |-> peerInit]
  /\ UNCHANGED <<sender, credit, writer, signals, peer>>

\* writeControl: the acknowledgement is flushed under the write lock.
PumpAck ==
  /\ pump.pc = "ack" /\ wire = "none" /\ (broken \/ ~stalled)
  /\ pump' = [pump EXCEPT !.pc = "read"]
  /\ IF broken THEN PumpFails /\ UNCHANGED <<peerWin, peerInit>>
     ELSE /\ peerInit' = pump.window
          /\ peerWin' = [i \in S |-> peerWin[i] + pump.window - peerInit]
          /\ UNCHANGED signals
  /\ UNCHANGED <<sender, credit, writer, inbox, opened, peerConn, ended,
                 stalled, frames, faults>>

\* RST_STREAM of a stream of the batch: failSend keeps the first error.
PumpReset ==
  /\ Next1("reset") /\ Consume
  /\ sendErr' = 1 /\ UNCHANGED <<ctxDone, pumpErr>>
  /\ UNCHANGED <<sender, credit, writer, pump, peer>>

\* GOAWAY, end of file or a malformed frame.
PumpLost ==
  /\ Next1("lost") /\ Consume /\ PumpFails
  /\ UNCHANGED <<sender, credit, writer, pump, peer>>

PumpStep ==
  \/ PumpConnUpdate \/ PumpStreamUpdate \/ PumpSettings \/ PumpPing \/ PumpAck
  \/ PumpReset \/ PumpLost

-----------------------------------------------------------------------------
(* The peer and the caller.                                                *)

Send(f) ==
  /\ frames > 0 /\ frames' = frames - 1
  /\ Len(inbox) < MaxInbox /\ inbox' = Append(inbox, f)
  /\ UNCHANGED <<sender, credit, writer, signals, pump, opened, peerInit, ended, stalled>>

PeerGrant ==
  /\ \E n \in Grants :
       \/ /\ Send([kind |-> "conn", n |-> n])
          /\ peerConn' = peerConn + n /\ UNCHANGED <<peerWin, faults>>
       \/ \E i \in S : /\ opened /\ Send([kind |-> "stream", i |-> i, n |-> n])
                       /\ peerWin' = [peerWin EXCEPT ![i] = @ + n]
                       /\ UNCHANGED <<peerConn, faults>>

PeerControl ==
  /\ \/ \E w \in Windows : Send([kind |-> "settings", n |-> w])
     \/ Send([kind |-> "ping"])
  /\ UNCHANGED <<peerConn, peerWin, faults>>

PeerFault ==
  /\ faults > 0 /\ faults' = faults - 1
  /\ \/ opened /\ Send([kind |-> "reset"])
     \/ Send([kind |-> "lost"])
  /\ UNCHANGED <<peerConn, peerWin>>

Cancel ==
  /\ faults > 0 /\ faults' = faults - 1 /\ ~ctxDone /\ pc # "done"
  /\ ctxDone' = TRUE /\ UNCHANGED <<sendErr, pumpErr>>
  /\ UNCHANGED <<sender, credit, writer, pump, inbox, opened, peerConn, peerWin,
                 peerInit, ended, stalled, frames>>

\* TCP back-pressure: the peer stops reading and may resume.
PeerStalls ==
  /\ ~stalled /\ faults > 0 /\ faults' = faults - 1 /\ stalled' = TRUE
  /\ UNCHANGED <<sender, credit, writer, signals, pump, inbox, opened, peerConn,
                 peerWin, peerInit, ended, frames>>
PeerResumes ==
  /\ stalled /\ stalled' = FALSE
  /\ UNCHANGED <<sender, credit, writer, signals, pump, inbox, opened, peerConn,
                 peerWin, peerInit, ended, frames, faults>>

\* The send has returned, or waits for a peer that stays silent.
Done == pc \in {"done", "drain"} /\ UNCHANGED vars

Next ==
  \/ SenderStep \/ HeadersSplit \/ PumpStep \/ PeerGrant \/ PeerControl
  \/ PeerFault \/ PeerStalls \/ PeerResumes \/ Cancel \/ Done

\* When the sending goroutine can take a step: its ENABLED, written out because
\* the plans make it expensive to evaluate.
SenderReady ==
  /\ pc # "done"
  /\ pc = "drain" => ENABLED (Drained \/ DrainFail)
  /\ (pc = "flush" /\ stalled) => sendErr > 0 \/ pumpErr \/ RecordBytes(plan) > Budget
  /\ (pc = "headers" /\ stalled) => ctxDone \/ pumpErr \/ broken

\* Both goroutines keep running (weak fairness of the sender and of the pump);
\* nothing is assumed of the peer.
SpecStall ==
  /\ Init /\ [][Next]_vars
  /\ []<>~SenderReady \/ []<><<SenderStep>>_vars
  /\ WF_vars(PumpStep)

\* The same with a peer that resumes reading.
Spec == SpecStall /\ WF_vars(PeerResumes)

-----------------------------------------------------------------------------
Windowed == -2 * MaxWindow .. 2 * MaxWindow

\* The state of a send is well formed.
TypeOK ==
  /\ withheld \in Withholds
  /\ pc \in {"start", "headers", "fit", "greedy", "reserve", "drain", "delay",
             "tail", "lock", "flush", "return", "done"}
  /\ sent \in [S -> Nat] /\ plan \in [S -> Nat] /\ final \in BOOLEAN
  /\ result \in {"none", "ok", "refused", "reset", "ctx", "error", "wedged", "split"}
  /\ conn \in 0..MaxWindow /\ stream \in [S -> Windowed]
  /\ changed \in 0..1 /\ wire \in {"none", "send", "pump"}
  /\ \A i \in S : sent[i] <= Prefix[i]

Reserved == IF pc \in {"lock", "flush"} THEN plan ELSE Zero

InFlight(kind, i) ==
  LET f == SelectSeq(inbox, LAMBDA g : g.kind = kind /\ (kind = "stream" => g.i = i))
  IN  FoldLeft(LAMBDA a, g : a + g.n, 0, f)

\* The credit the sender believes in, the record it has paid for and the grants
\* on their way are together what the peer has granted: flow control neither
\* loses nor invents a byte, whatever SETTINGS, WINDOW_UPDATE and flushes do, and
\* the connection window the peer enforces is never overrun.
CreditConserved ==
  ~pumpErr =>
    /\ peerConn >= 0
    /\ peerConn = conn + Payload(IF flow THEN Reserved ELSE Zero)
                       + InFlight("conn", 0)
       \/ ~flow
    /\ flow => \A i \in S :
         peerWin[i] = stream[i] + Reserved[i] + InFlight("stream", i)
                      - (IF pump.pc = "ack" THEN pump.window - peerInit ELSE 0)

\* END_STREAM reaches the peer on all body-carrying streams in one record, each
\* frame with at least a byte, after everything else of every body.
SharedRelease ==
  [][ended' # ended =>
       /\ ended = {} /\ ended' = Carrying(Body)
       /\ \A i \in ended' : plan[i] > 0 /\ sent[i] + plan[i] >= Prefix[i]]_vars

\* The sender does not wait for credit that is already there: no update of a
\* window is lost between the plan and the wait.
NoLostCredit ==
  (pc = "drain" /\ changed = 0 /\ ~ctxDone) =>
    IF InTail THEN ~Affordable(Tails)
    ELSE ~FinalFits /\ \A i \in S : Caps[i] = 0 \/ conn = 0

\* Every send returns, even when the peer never grants a byte.
SendReturns == <>(pc = "done")

=============================================================================
