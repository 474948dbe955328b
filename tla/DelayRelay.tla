----------------------------- MODULE DelayRelay -----------------------------
(***************************************************************************)
(* The propagation model of the demo server (src/internal/netdelay):       *)
(* one accepted connection bridged through an in-memory pipe.              *)
(*                                                                         *)
(* Each direction has a reader, which stamps every chunk with its delivery *)
(* time and queues it, and a copier, which waits for that time and writes  *)
(* the chunk on.  The first copier to end closes both sockets.  Delivery   *)
(* times are counted from now.                                             *)
(***************************************************************************)
EXTENDS Integers, Sequences

CONSTANTS
  QueueDepth,       \* queueDepth
  MaximumDuration   \* the largest time.Duration

ASSUME RelayAssumption ==
  /\ QueueDepth \in Nat \ {0}
  /\ MaximumDuration \in Nat

VARIABLES
  way,      \* the two directions of the connection, "up" towards the server
  stopped,  \* which copier ran stop first, or "no"
  net       \* the Config of the wrapper

relayVars == <<way, stopped, net>>

Ways == {"up", "down"}
Delayed == net.delay > 0 \/ net.variation > 0
Other(d) == IF d = "up" THEN "down" ELSE "up"

Direction ==
  [sent |-> 0,        \* chunks the source's writer has handed over
   src |-> <<>>,      \* chunks in the source socket
   eof |-> FALSE,     \* the source's writer has closed
   rd |-> "read", hold |-> <<>>, last |-> 0,
   chunks |-> <<>>, closed |-> FALSE,
   cp |-> "range", item |-> <<>>,
   refused |-> FALSE, \* the destination no longer takes writes
   out |-> <<>>]      \* what was delivered, and how long after it was read

RelayInit ==
  /\ way = [d \in Ways |-> Direction]
  /\ stopped = "no"
  /\ net = [delay |-> 0, variation |-> 0]

\* NewListenerWrapper: "invalid", "identity" or "delayed".
NewListenerWrapper(delay, variation) ==
  IF \/ delay < 0 \/ variation < 0
     \/ variation > MaximumDuration - 1
     \/ variation > MaximumDuration - delay
  THEN "invalid"
  ELSE IF delay = 0 /\ variation = 0 THEN "identity"
  ELSE "delayed"

\* stop, run once by the first copier that ends: done, peer and relay close.
StoppedBy(d) == IF stopped = "no" THEN d ELSE stopped

\* A writer hands a chunk to its socket; the chunk is known by its number.
Sent(rec) == [rec EXCEPT !.sent = @ + 1, !.src = Append(@, rec.sent + 1)]

\* sampleDelay and scheduleDelivery: at least the delay, never before the chunk
\* ahead of it.
sampleDelay_Around == {net.delay - v : v \in 0..net.variation} \cup {net.delay + v : v \in 0..net.variation}
sampleDelay == {net.delay + v : v \in 0..net.variation}
scheduleDelivery(last, delay) == IF delay < last THEN last ELSE delay

\* readChunks: one Read, stamped on arrival.
ReadChunk(d) ==
  /\ Delayed
  /\ way[d].rd = "read" /\ stopped = "no" /\ way[d].src # <<>>
  /\ \E delay \in sampleDelay :
       LET at == scheduleDelivery(way[d].last, delay)
       IN way' = [way EXCEPT ![d] =
                    [@ EXCEPT !.src = Tail(way[d].src), !.rd = "push", !.last = at,
                              !.hold = [n |-> Head(way[d].src), age |-> 0, deliverAt |-> at]]]
  /\ UNCHANGED <<stopped, net>>

\* The queue takes the chunk when it has room; done ends the reader, which
\* closes the channel.
PushChunk(d) ==
  /\ way[d].rd = "push"
  /\ \/ /\ Len(way[d].chunks) < QueueDepth
        /\ way' = [way EXCEPT ![d] = [@ EXCEPT !.chunks = Append(way[d].chunks, way[d].hold),
                                                  !.rd = "read", !.hold = <<>>]]
     \/ /\ stopped # "no"
        /\ way' = [way EXCEPT ![d] = [@ EXCEPT !.rd = "end", !.closed = TRUE]]
  /\ UNCHANGED <<stopped, net>>

\* Read fails: the source closed, or stop closed the sockets.
ReadEnds(d) ==
  /\ Delayed
  /\ way[d].rd = "read"
  /\ stopped # "no" \/ (way[d].src = <<>> /\ way[d].eof)
  /\ way' = [way EXCEPT ![d] = [@ EXCEPT !.rd = "end", !.closed = TRUE]]
  /\ UNCHANGED <<stopped, net>>

\* delayedCopy takes the next chunk, or ends with the closed channel and stops.
TakeChunk(d) ==
  /\ way[d].cp = "range" /\ way[d].chunks # <<>>
  /\ way' = [way EXCEPT ![d] = [@ EXCEPT !.cp = "wait", !.item = Head(way[d].chunks),
                                         !.chunks = Tail(way[d].chunks)]]
  /\ UNCHANGED <<stopped, net>>

CopyEnds(d) ==
  /\ way[d].cp = "range" /\ way[d].chunks = <<>> /\ way[d].closed
  /\ way' = [way EXCEPT ![d].cp = "end"]
  /\ stopped' = StoppedBy(d)
  /\ UNCHANGED net

\* waitUntil: the deadline lets the write through; done ends the copy.
Deliver(d) ==
  /\ way[d].cp = "wait" /\ way[d].item.deliverAt = 0
  /\ IF stopped # "no" \/ way[d].refused
     THEN /\ way' = [way EXCEPT ![d].cp = "end"]
          /\ stopped' = StoppedBy(d)
     ELSE /\ way' = [way EXCEPT ![d] =
                       [@ EXCEPT !.cp = "range", !.item = <<>>,
                                 !.out = Append(way[d].out, [n |-> way[d].item.n, age |-> way[d].item.age])]]
          /\ stopped' = stopped
  /\ UNCHANGED net

WaitCut(d) ==
  /\ way[d].cp = "wait" /\ way[d].item.deliverAt > 0 /\ stopped # "no"
  /\ way' = [way EXCEPT ![d].cp = "end"]
  /\ stopped' = StoppedBy(d)
  /\ UNCHANGED net

\* A writer closes its socket: the relay sees the end of the stream, and its
\* own writes towards that socket fail.
Closing(w, d) == [w EXCEPT ![d].eof = TRUE, ![Other(d)].refused = TRUE]

\* Time passes while some chunk is waiting.  An age counts up to the delay.
Aged(c) == [c EXCEPT !.age = IF c.age < net.delay THEN c.age + 1 ELSE c.age,
                     !.deliverAt = IF c.deliverAt > 0 THEN c.deliverAt - 1 ELSE 0]
Later(rec) ==
  [rec EXCEPT !.last = IF rec.last > 0 THEN rec.last - 1 ELSE 0,
              !.hold = IF rec.rd = "push" THEN Aged(rec.hold) ELSE <<>>,
              !.item = IF rec.cp = "wait" THEN Aged(rec.item) ELSE <<>>,
              !.chunks = [i \in DOMAIN rec.chunks |-> Aged(rec.chunks[i])]]
Tick ==
  /\ \E d \in Ways : way[d].last > 0
  /\ way' = [d \in Ways |-> Later(way[d])]
  /\ UNCHANGED <<stopped, net>>

RelayStep ==
  \/ Tick
  \/ \E d \in Ways : \/ ReadChunk(d) \/ PushChunk(d) \/ ReadEnds(d) \/ TakeChunk(d)
                     \/ CopyEnds(d) \/ Deliver(d) \/ WaitCut(d)

-----------------------------------------------------------------------------
(* Property *)

\* The relay delays and never reorders, loses or invents: a direction delivers
\* a prefix of what was read, each chunk no sooner than the one-way delay after
\* it was read, and a direction that ran to the end of its source before
\* anything else stopped the relay has delivered all of it.
RelayFaithful ==
  Delayed =>
    \A d \in Ways :
      /\ \A i \in DOMAIN way[d].out :
           /\ way[d].out[i].n = i
           /\ way[d].out[i].age = net.delay
      /\ (stopped = d /\ way[d].closed /\ ~way[d].refused)
           => Len(way[d].out) = way[d].sent
=============================================================================
