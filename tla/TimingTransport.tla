-------------------------- MODULE TimingTransport ---------------------------
(***************************************************************************)
(* A timing connection from acquisition to its last exchange (src/internal *)
(* /timing: acquisition.go, and acquireTransport of transport.go).         *)
(*                                                                         *)
(* acquireSocket dials, secures and sets the connection up under one       *)
(* budget, which Plan.RequestTimeout limits unless it is zero; a watcher   *)
(* closes the raw socket when the budget ends and must                     *)
(* be stopped before the lease is returned, because returning ends the     *)
(* budget too.  The lease is then an HTTP/2 connection (TimingH2, whose    *)
(* pumps start during setup) or an HTTP/1.1 one (TimingH1).                *)
(***************************************************************************)
EXTENDS TimingH2

CONSTANTS H1Records, H1Held, H1Runs, H1Bytes

VARIABLES a, l, obs, w, r, h1ctx, h1bad

H1 == INSTANCE TimingH1 WITH
  Records <- H1Records, Held <- H1Held, MaxRuns <- H1Runs, MaxBytes <- H1Bytes,
  ctx <- h1ctx, bad <- h1bad

tvars == <<vars, a, l, obs, w, r, h1ctx, h1bad>>
h1vars == <<l, obs, w, r, h1ctx, h1bad>>

TransportInit ==
  /\ Init /\ H1!Init
  /\ a \in {[pc |-> "dial", proto |-> proto, limited |-> limited, ended |-> FALSE, watcher |-> "none"] :
            proto \in {"h1", "h2"}, limited \in BOOLEAN}

H2Lease == a.proto = "h2"
Acquiring == a.pc \in {"dial", "tls", "setup"}

\* The raw socket was closed: by the watcher, the setup or the peer.
SocketClosed == a.watcher = "fired" \/ (IF H2Lease THEN c.err ELSE l.closed)

\* fail: the socket is closed and the budget cancelled.
Fails == [a EXCEPT !.pc = "failing", !.ended = TRUE,
                   !.watcher = IF @ = "armed" THEN "stopped" ELSE @]

\* DialContext: the watcher starts with the socket.
Dial(refused) ==
  /\ a.pc = "dial"
  /\ a' = IF a.ended \/ refused THEN [a EXCEPT !.pc = "failed", !.ended = TRUE]
          ELSE [a EXCEPT !.pc = "tls", !.watcher = "armed"]
  /\ UNCHANGED <<vars, h1vars>>

\* HandshakeContext, which plain HTTP skips.
Handshake(refused) ==
  /\ a.pc = "tls"
  /\ a' = IF SocketClosed \/ a.ended \/ refused THEN Fails ELSE [a EXCEPT !.pc = "setup"]
  /\ UNCHANGED <<vars, h1vars>>

\* h2Acquire waits for the first SETTINGS; HTTP/1.1 checks what was negotiated.
Setup ==
  /\ a.pc = "setup"
  /\ SocketClosed \/ a.ended \/ ~H2Lease \/ c.ready
  /\ a' = IF SocketClosed \/ a.ended THEN Fails ELSE [a EXCEPT !.pc = "check"]
  /\ UNCHANGED <<vars, h1vars>>

\* stop() and the budget decide; the deferred cancel ends the budget.
Return ==
  /\ a.pc = "check"
  /\ a' = IF a.watcher # "armed" \/ a.ended THEN Fails
          ELSE [a EXCEPT !.pc = "leased", !.watcher = "stopped", !.ended = TRUE]
  /\ UNCHANGED <<vars, h1vars>>

\* acquireTransport closes an HTTP/2 connection that failed and joins its pumps.
Abandon ==
  /\ a.pc = "failing"
  /\ IF H2Lease /\ ~c.err
     THEN c' = Dead /\ UNCHANGED <<a, p, snd, pump, reader, ctl, wire, ctx, onWire, frames, bad>>
     ELSE /\ H2Lease => pump.pc = "done" /\ ~reader
          /\ a' = [a EXCEPT !.pc = "failed"]
          /\ UNCHANGED vars
  /\ UNCHANGED h1vars

\* The time is up, if it is limited, or the run that acquires is cancelled.
BudgetEnds ==
  /\ Acquiring /\ ~a.ended
  /\ a' = [a EXCEPT !.ended = TRUE]
  /\ UNCHANGED <<vars, h1vars>>

\* The watcher closes the raw socket.
WatcherFires ==
  /\ a.ended /\ a.watcher = "armed"
  /\ a' = [a EXCEPT !.watcher = "fired"]
  /\ IF H2Lease THEN c' = Dead /\ p' = ClosedP(p) ELSE UNCHANGED <<c, p>>
  /\ l' = IF H2Lease THEN l ELSE H1!Closed
  /\ UNCHANGED <<snd, pump, reader, ctl, wire, ctx, onWire, frames, bad, obs, w, r, h1ctx, h1bad>>

Acquisition ==
  \/ \E refused \in BOOLEAN : Dial(refused) \/ Handshake(refused)
  \/ Setup \/ Return \/ Abandon \/ BudgetEnds \/ WatcherFires

\* The pumps of HTTP/2 run from setup on, its senders once it is leased.
H2Steps ==
  /\ H2Lease /\ a.pc \notin {"dial", "tls"}
  /\ Connected \/ (a.pc = "leased" /\ Prepare)
  /\ UNCHANGED <<a, h1vars>>

H1Steps ==
  /\ ~H2Lease /\ a.pc = "leased"
  /\ H1!Next
  /\ UNCHANGED <<a, vars>>

TransportNext == Acquisition \/ H2Steps \/ H1Steps

\* Goroutines and timers run; the peer need not answer or take what is written.
\* A plan without a request timeout starts no timer: then nothing promises that a
\* budget ends or a request is cancelled.
TransportRuns ==
  \/ Setup \/ Return \/ Abandon \/ WatcherFires
  \/ ((a.ended \/ SocketClosed) /\ (Dial(TRUE) \/ Handshake(TRUE)))
  \/ (a.limited /\ BudgetEnds)
  \/ (H2Lease /\ a.pc \notin {"dial", "tls"} /\ (Runs \/ (a.limited /\ Cancel)) /\ UNCHANGED <<a, h1vars>>)
  \/ (~H2Lease /\ a.pc = "leased" /\ (H1!Runs \/ (a.limited /\ H1!Cancel)) /\ UNCHANGED <<a, vars>>)

Spec == TransportInit /\ [][TransportNext]_tvars /\ WF_tvars(TransportRuns)

-----------------------------------------------------------------------------
(* Properties *)

\* On either protocol the completion hook runs exactly once per exchange, and a
\* connection serves another request only after one that was fully written and
\* answered.  No control frame lands inside a header block, and the end of the
\* acquisition budget, which returning the lease brings about, never closes a
\* leased socket (the order of stop, the check and cancel).
ExchangesComplete ==
  /\ CompletesOnce /\ H1!CompletesOnce
  /\ HeaderBlocksWhole
  /\ a.pc = "leased" => a.watcher = "stopped"

\* Whatever the peer does, an acquisition ends and every sender returns that has a
\* timeout or, having none, is cancelled or loses its connection; and the pumps of
\* a failed connection end, so that join returns.
EverythingReturns ==
  /\ a.limited \/ a.ended ~> a.pc \in {"leased", "failed"}
  /\ snd.pc # "idle" /\ (a.limited \/ ctx \/ c.err) ~> snd.pc = "idle"
  /\ w.pc # "idle" /\ (a.limited \/ h1ctx \/ l.closed) ~> w.pc = "idle"
  /\ c.err ~> pump.pc = "done" /\ ~reader
=============================================================================
