---------------------------- MODULE ProgramProofs ---------------------------
(***************************************************************************)
(* Proofs about Program, the demo server and its propagation delay, for    *)
(* every number of handlers, capacity of the quota store, delay, work      *)
(* limit and measured benchmark.                                           *)
(***************************************************************************)
EXTENDS Program, FiniteSetTheorems, SequenceTheorems, WellFoundedInduction, TLAPS

-----------------------------------------------------------------------------
(* The relay.                                                              *)

Chunk == [n : Nat, age : Nat, deliverAt : Nat]
Delivered == [n : Nat, age : Nat]

WayRec ==
  [sent : Nat, src : Seq(Nat), eof : BOOLEAN,
   rd : {"read", "push", "end"}, hold : Chunk \cup {<<>>}, last : Nat,
   chunks : Seq(Chunk), closed : BOOLEAN,
   cp : {"range", "wait", "end"}, item : Chunk \cup {<<>>},
   refused : BOOLEAN, out : Seq(Delivered)]

\* How far a direction has come: the chunks delivered or being delivered, and
\* with them those in the queue, and with them the one the reader holds.
InHand(held) == IF held THEN 1 ELSE 0
Taken(r) == Len(r.out) + InHand(r.cp = "wait")
Passed(r) == Taken(r) + Len(r.chunks)
Read(r) == Passed(r) + InHand(r.rd = "push")

\* A chunk will not be delivered before the delay is over.
Timed(c, delay) == c.age <= delay /\ c.age + c.deliverAt >= delay

\* What is between the reader and the copier is numbered as it was sent.
Numbered(r) ==
  /\ r.cp = "wait" => r.item.n = Taken(r)
  /\ \A i \in 1..Len(r.chunks) : r.chunks[i].n = Taken(r) + i
  /\ r.rd = "push" => r.hold.n = Read(r)
  /\ r.rd # "end" => /\ r.sent = Read(r) + Len(r.src)
                     /\ \A i \in 1..Len(r.src) : r.src[i] = Read(r) + i

\* What is waiting has been waiting for as long as its age says.
Waiting(r, delay) ==
  /\ r.cp = "wait" => r.item \in Chunk /\ Timed(r.item, delay)
  /\ r.rd = "push" => r.hold \in Chunk /\ Timed(r.hold, delay)
  /\ \A i \in 1..Len(r.chunks) : Timed(r.chunks[i], delay)

\* How a direction ended.
Ended(d, r, by) ==
  /\ r.closed <=> r.rd = "end"
  /\ r.cp = "end" => by # "no"
  /\ r.rd = "end" /\ by = "no" => r.eof /\ r.sent = Passed(r)
  /\ by = d => r.cp = "end" /\ (r.refused \/ Len(r.out) = r.sent)

\* What has been delivered.
Arrived(r, delay) == \A i \in 1..Len(r.out) : r.out[i].n = i /\ r.out[i].age = delay

Faithful(d, r, by, delay) ==
  /\ Arrived(r, delay) /\ Waiting(r, delay) /\ Ended(d, r, by)
  /\ r.cp # "end" => Numbered(r)

RelayTyped ==
  /\ way \in [Ways -> WayRec]
  /\ stopped \in Ways \cup {"no"}
  /\ net \in [delay : Nat, variation : Nat]

RelayInv == RelayTyped /\ \A d \in Ways : Faithful(d, way[d], stopped, net.delay)

\* The parts of a direction are of their types.
LEMMA WayFields ==
  ASSUME NEW r \in WayRec
  PROVE  /\ r.sent \in Nat /\ r.src \in Seq(Nat) /\ r.eof \in BOOLEAN /\ r.last \in Nat
         /\ r.chunks \in Seq(Chunk) /\ r.closed \in BOOLEAN /\ r.refused \in BOOLEAN
         /\ r.out \in Seq(Delivered)
         /\ Len(r.src) \in Nat /\ Len(r.chunks) \in Nat /\ Len(r.out) \in Nat
         /\ Taken(r) \in Nat /\ Passed(r) \in Nat /\ Read(r) \in Nat
<1>1. /\ r.sent \in Nat /\ r.src \in Seq(Nat) /\ r.eof \in BOOLEAN /\ r.last \in Nat
      /\ r.chunks \in Seq(Chunk) /\ r.closed \in BOOLEAN /\ r.refused \in BOOLEAN
      /\ r.out \in Seq(Delivered)
  BY DEF WayRec
<1>2. Len(r.src) \in Nat /\ Len(r.chunks) \in Nat /\ Len(r.out) \in Nat
  BY <1>1, LenProperties
<1>. InHand(r.cp = "wait") \in Nat /\ InHand(r.rd = "push") \in Nat
  BY DEF InHand
<1>3. Taken(r) \in Nat
  BY <1>2 DEF Taken
<1>4. Passed(r) \in Nat
  BY <1>2, <1>3 DEF Passed
<1>5. Read(r) \in Nat
  BY <1>4 DEF Read, InHand
<1> QED
  BY <1>1, <1>2, <1>3, <1>4, <1>5

\* A step of one direction.  The other notices at most that the relay has been
\* stopped.
LEMMA OneWay ==
  ASSUME RelayInv, NEW d \in Ways, NEW r \in WayRec,
         way' = [way EXCEPT ![d] = r],
         stopped' \in {stopped, StoppedBy(d)}, net' = net,
         Faithful(d, r, stopped', net.delay)
  PROVE  RelayInv'
<1>1. RelayTyped'
  BY DEF RelayInv, RelayTyped, StoppedBy
<1>2. way'[d] = r /\ \A e \in Ways \ {d} : way'[e] = way[e]
  BY DEF RelayInv, RelayTyped
<1>3. ASSUME NEW e \in Ways \ {d} PROVE Faithful(e, way[e], stopped', net.delay)
  <2>1. Faithful(e, way[e], stopped, net.delay)
    BY DEF RelayInv
  <2>2. /\ stopped' = e => stopped = e
        /\ stopped' = "no" => stopped = "no"
        /\ stopped # "no" => stopped' # "no"
    BY DEF StoppedBy, Ways
  <2>3. Ended(e, way[e], stopped')
    BY <2>1, <2>2 DEF Faithful, Ended
  <2> QED
    BY <2>1, <2>3 DEF Faithful
<1>4. \A e \in Ways : Faithful(e, way'[e], stopped', net'.delay)
  BY <1>2, <1>3
<1> QED
  BY <1>1, <1>4 DEF RelayInv

\* Reading a chunk moves it from the socket to the reader's hand.
LEMMA RelayRead == ASSUME RelayInv, NEW d \in Ways, ReadChunk(d) PROVE RelayInv'
<1>1. /\ way[d] \in WayRec /\ Faithful(d, way[d], stopped, net.delay)
      /\ net.delay \in Nat /\ net.variation \in Nat
      /\ way[d].src \in Seq(Nat) /\ way[d].src # <<>> /\ way[d].last \in Nat
  BY DEF RelayInv, RelayTyped, ReadChunk, WayRec
<1>2. PICK delay \in sampleDelay :
        way' = [way EXCEPT ![d] =
                  [@ EXCEPT !.src = Tail(way[d].src), !.rd = "push",
                            !.last = scheduleDelivery(way[d].last, delay),
                            !.hold = [n |-> Head(way[d].src), age |-> 0,
                                      deliverAt |-> scheduleDelivery(way[d].last, delay)]]]
  BY DEF ReadChunk
<1> DEFINE due == scheduleDelivery(way[d].last, delay)
           c == [n |-> Head(way[d].src), age |-> 0, deliverAt |-> due]
           r == [way[d] EXCEPT !.src = Tail(way[d].src), !.rd = "push", !.last = due, !.hold = c]
<1>3. due \in Nat /\ due >= net.delay
  BY <1>1, <1>2 DEF sampleDelay, scheduleDelivery
<1>4. /\ Tail(way[d].src) \in Seq(Nat) /\ Head(way[d].src) \in Nat
      /\ Head(way[d].src) = way[d].src[1]
      /\ Len(Tail(way[d].src)) = Len(way[d].src) - 1
      /\ \A i \in 1..Len(Tail(way[d].src)) : Tail(way[d].src)[i] = way[d].src[i + 1]
      /\ Len(way[d].src) \in Nat \ {0}
  BY <1>1, HeadTailProperties, LenProperties, EmptySeq
<1>5. c \in Chunk
  BY <1>3, <1>4 DEF Chunk
<1> HIDE DEF due, c
<1>6. /\ r \in WayRec /\ r.src = Tail(way[d].src) /\ r.hold = c /\ r.rd = "push"
      /\ r.out = way[d].out /\ r.cp = way[d].cp /\ r.item = way[d].item
      /\ r.chunks = way[d].chunks /\ r.closed = way[d].closed /\ r.sent = way[d].sent
      /\ r.eof = way[d].eof /\ r.refused = way[d].refused
  BY <1>1, <1>3, <1>4, <1>5 DEF WayRec
<1> HIDE DEF r
<1>7. /\ stopped' = stopped /\ net' = net
      /\ way[d].rd = "read" /\ stopped = "no"
  BY DEF ReadChunk
<1>11. way' = [way EXCEPT ![d] = r]
  BY <1>2 DEF r, c, due
<1>8. Timed(c, net.delay) /\ c.n = way[d].src[1]
  BY <1>1, <1>3, <1>4 DEF Timed, c
<1>9. Arrived(r, net.delay) /\ Waiting(r, net.delay) /\ Ended(d, r, stopped)
  BY <1>1, <1>5, <1>6, <1>7, <1>8 DEF Faithful, Arrived, Waiting, Ended, Timed, Taken, Passed
<1>10. ASSUME r.cp # "end" PROVE Numbered(r)
  <2>1. Numbered(way[d])
    BY <1>1, <1>6, <1>10 DEF Faithful
  <2>2. /\ Taken(r) = Taken(way[d]) /\ Passed(r) = Passed(way[d])
        /\ Read(r) = Read(way[d]) + 1 /\ Read(way[d]) \in Nat
    <3>1. Taken(r) = Taken(way[d])
      BY <1>6 DEF Taken
    <3>2. Passed(r) = Passed(way[d])
      BY <1>6, <3>1 DEF Passed
    <3> QED
      BY <1>1, <1>6, <1>7, <3>1, <3>2, WayFields DEF Read, InHand
  <2>3. /\ way[d].sent = Read(way[d]) + Len(way[d].src)
        /\ \A i \in 1..Len(way[d].src) : way[d].src[i] = Read(way[d]) + i
    BY <1>7, <2>1 DEF Numbered
  <2>4. c.n = Read(r)
    BY <1>8, <1>4, <2>2, <2>3
  <2>5. r.sent = Read(r) + Len(r.src)
    BY <1>4, <1>6, <2>2, <2>3
  <2>6. ASSUME NEW i \in 1..Len(r.src) PROVE r.src[i] = Read(r) + i
    BY <1>4, <1>6, <2>2, <2>3, <2>6
  <2> QED
    BY <1>6, <2>1, <2>2, <2>4, <2>5, <2>6 DEF Numbered
<1> QED
  BY <1>6, <1>7, <1>9, <1>10, <1>11, OneWay DEF Faithful

\* Pushing a chunk moves it to the queue; a stopped reader drops it and ends.
LEMMA RelayPush == ASSUME RelayInv, NEW d \in Ways, PushChunk(d) PROVE RelayInv'
<1>1. /\ way[d] \in WayRec /\ Faithful(d, way[d], stopped, net.delay) /\ way[d].rd = "push"
      /\ way[d].chunks \in Seq(Chunk) /\ way[d].hold \in Chunk /\ Timed(way[d].hold, net.delay)
      /\ stopped' = stopped /\ net' = net
  BY DEF RelayInv, RelayTyped, PushChunk, WayRec, Faithful, Waiting
<1>2. CASE way' = [way EXCEPT ![d] = [@ EXCEPT !.chunks = Append(way[d].chunks, way[d].hold),
                                              !.rd = "read", !.hold = <<>>]]
  <2> DEFINE q == Append(way[d].chunks, way[d].hold)
             r == [way[d] EXCEPT !.chunks = q, !.rd = "read", !.hold = <<>>]
  <2>1. /\ q \in Seq(Chunk) /\ Len(q) = Len(way[d].chunks) + 1
        /\ \A i \in 1..Len(way[d].chunks) : q[i] = way[d].chunks[i]
        /\ q[Len(way[d].chunks) + 1] = way[d].hold /\ Len(way[d].chunks) \in Nat
    BY <1>1, AppendProperties, LenProperties
  <2> HIDE DEF q
  <2>2. /\ r \in WayRec /\ r.src = way[d].src /\ r.rd = "read"
        /\ r.out = way[d].out /\ r.cp = way[d].cp /\ r.item = way[d].item
        /\ r.chunks = q /\ r.closed = way[d].closed /\ r.sent = way[d].sent
        /\ r.eof = way[d].eof /\ r.refused = way[d].refused
    BY <1>1, <2>1 DEF WayRec
  <2>3. way' = [way EXCEPT ![d] = r]
    BY <1>2 DEF q, r
  <2> HIDE DEF r
  <2>4. \A i \in 1..Len(q) : i \in 1..Len(way[d].chunks) \/ i = Len(way[d].chunks) + 1
    BY <2>1
  <2>5. \A i \in 1..Len(q) : Timed(q[i], net.delay)
    BY <1>1, <2>1, <2>4 DEF Faithful, Waiting
  <2>6. Arrived(r, net.delay) /\ Waiting(r, net.delay) /\ Ended(d, r, stopped)
    BY <1>1, <2>2, <2>5 DEF Faithful, Arrived, Waiting, Ended, Timed, Taken, Passed
  <2>7. ASSUME r.cp # "end" PROVE Numbered(r)
    <3>1. Numbered(way[d])
      BY <1>1, <2>2, <2>7 DEF Faithful
    <3>2. /\ Taken(r) = Taken(way[d]) /\ Read(r) = Read(way[d])
          /\ Read(way[d]) = Taken(way[d]) + Len(way[d].chunks) + 1
      <4>1. Taken(r) = Taken(way[d])
        BY <2>2 DEF Taken
      <4>2. Read(r) = Taken(r) + (Len(way[d].chunks) + 1)
        BY <2>1, <2>2, <4>1, WayFields DEF Passed, Read, InHand
      <4>3. Read(way[d]) = Taken(way[d]) + Len(way[d].chunks) + 1
        BY <1>1 DEF Passed, Read, InHand
      <4>4. Taken(way[d]) \in Nat /\ Len(way[d].chunks) \in Nat
        BY <1>1, WayFields
      <4> QED
        BY <4>1, <4>2, <4>3, <4>4
    <3>3. ASSUME NEW i \in 1..Len(q) PROVE q[i].n = Taken(way[d]) + i
      <4>1. CASE i \in 1..Len(way[d].chunks)
        BY <2>1, <3>1, <4>1 DEF Numbered
      <4>2. CASE i = Len(way[d].chunks) + 1
        <5>1. way[d].hold.n = Read(way[d]) /\ Taken(way[d]) \in Nat /\ Len(way[d].chunks) \in Nat
          BY <1>1, <3>1, WayFields DEF Numbered
        <5>2. q[i] = way[d].hold
          BY <2>1, <4>2
        <5>3. Taken(way[d]) + Len(way[d].chunks) + 1 = Taken(way[d]) + i
          BY <4>2, <5>1
        <5> QED
          BY <3>2, <5>1, <5>2, <5>3
      <4> QED
        BY <2>4, <4>1, <4>2
    <3> QED
      BY <1>1, <2>2, <3>1, <3>2, <3>3 DEF Numbered
  <2> QED
    BY <1>1, <2>2, <2>3, <2>6, <2>7, OneWay DEF Faithful
<1>3. CASE /\ stopped # "no"
           /\ way' = [way EXCEPT ![d] = [@ EXCEPT !.rd = "end", !.closed = TRUE]]
  <2> DEFINE r == [way[d] EXCEPT !.rd = "end", !.closed = TRUE]
  <2>1. /\ r \in WayRec /\ r.rd = "end" /\ r.closed
        /\ r.out = way[d].out /\ r.cp = way[d].cp /\ r.item = way[d].item
        /\ r.chunks = way[d].chunks /\ r.sent = way[d].sent
        /\ r.eof = way[d].eof /\ r.refused = way[d].refused
    BY <1>1 DEF WayRec
  <2>2. way' = [way EXCEPT ![d] = r]
    BY <1>3
  <2> HIDE DEF r
  <2>3. Taken(r) = Taken(way[d]) /\ Passed(r) = Passed(way[d])
    BY <2>1 DEF Taken, Passed
  <2>4. Arrived(r, net.delay) /\ Waiting(r, net.delay)
    BY <1>1, <2>1 DEF Faithful, Arrived, Waiting
  <2>5. Ended(d, r, stopped)
    BY <1>1, <1>3, <2>1, <2>3 DEF Faithful, Ended
  <2>6. r.cp # "end" => Numbered(r)
    BY <1>1, <2>1, <2>3 DEF Faithful, Numbered
  <2> QED
    BY <1>1, <2>1, <2>2, <2>4, <2>5, <2>6, OneWay DEF Faithful
<1> QED
  BY <1>2, <1>3 DEF PushChunk

\* The reader ends at the end of its source, unless the relay was stopped first.
LEMMA RelayReadEnds == ASSUME RelayInv, NEW d \in Ways, ReadEnds(d) PROVE RelayInv'
<1> DEFINE r == [way[d] EXCEPT !.rd = "end", !.closed = TRUE]
<1>1. /\ way[d] \in WayRec /\ Faithful(d, way[d], stopped, net.delay) /\ way[d].rd = "read"
      /\ stopped # "no" \/ (way[d].src = <<>> /\ way[d].eof)
      /\ stopped' = stopped /\ net' = net /\ way' = [way EXCEPT ![d] = r]
  BY DEF RelayInv, RelayTyped, ReadEnds
<1>2. /\ r \in WayRec /\ r.rd = "end" /\ r.closed
      /\ r.out = way[d].out /\ r.cp = way[d].cp /\ r.item = way[d].item
      /\ r.chunks = way[d].chunks /\ r.sent = way[d].sent
      /\ r.eof = way[d].eof /\ r.refused = way[d].refused
  BY <1>1 DEF WayRec
<1> HIDE DEF r
<1>3. ASSUME stopped = "no" PROVE way[d].sent = Passed(way[d])
  <2>1. Numbered(way[d]) /\ Len(way[d].src) = 0
    BY <1>1, <1>3, EmptySeq DEF Faithful, Ended
  <2>2. way[d].sent = Read(way[d]) + Len(way[d].src)
    BY <1>1, <2>1 DEF Numbered
  <2>3. Read(way[d]) = Passed(way[d])
    BY <1>1, WayFields DEF Read, InHand
  <2> QED
    BY <1>1, <2>1, <2>2, <2>3, WayFields
<1>4. Taken(r) = Taken(way[d]) /\ Passed(r) = Passed(way[d])
  BY <1>2 DEF Taken, Passed
<1>5. Arrived(r, net.delay) /\ Waiting(r, net.delay)
  BY <1>1, <1>2 DEF Faithful, Arrived, Waiting
<1>6. Ended(d, r, stopped)
  BY <1>1, <1>2, <1>3, <1>4 DEF Faithful, Ended
<1>7. r.cp # "end" => Numbered(r)
  BY <1>1, <1>2, <1>4 DEF Faithful, Numbered
<1>8. Faithful(d, r, stopped, net.delay)
  BY <1>5, <1>6, <1>7 DEF Faithful
<1> QED
  BY <1>1, <1>2, <1>8, OneWay

\* The copier takes the chunk at the head of the queue.
LEMMA RelayTake == ASSUME RelayInv, NEW d \in Ways, TakeChunk(d) PROVE RelayInv'
<1> DEFINE r == [way[d] EXCEPT !.cp = "wait", !.item = Head(way[d].chunks),
                               !.chunks = Tail(way[d].chunks)]
<1>1. /\ way[d] \in WayRec /\ Faithful(d, way[d], stopped, net.delay)
      /\ way[d].cp = "range" /\ way[d].chunks # <<>>
      /\ stopped' = stopped /\ net' = net /\ way' = [way EXCEPT ![d] = r]
  BY DEF RelayInv, RelayTyped, TakeChunk
<1>2. way[d].chunks \in Seq(Chunk)
  BY <1>1, WayFields
<1>3. /\ Head(way[d].chunks) = way[d].chunks[1] /\ Head(way[d].chunks) \in Chunk
      /\ Tail(way[d].chunks) \in Seq(Chunk)
      /\ Len(Tail(way[d].chunks)) = Len(way[d].chunks) - 1
      /\ \A i \in 1..Len(Tail(way[d].chunks)) : Tail(way[d].chunks)[i] = way[d].chunks[i + 1]
      /\ Len(way[d].chunks) \in Nat \ {0}
  BY <1>1, <1>2, HeadTailProperties, LenProperties, EmptySeq
<1>4. /\ r \in WayRec /\ r.cp = "wait" /\ r.item = way[d].chunks[1]
      /\ r.chunks = Tail(way[d].chunks)
      /\ r.rd = way[d].rd /\ r.closed = way[d].closed /\ r.sent = way[d].sent
      /\ r.src = way[d].src /\ r.hold = way[d].hold
      /\ r.out = way[d].out /\ r.eof = way[d].eof /\ r.refused = way[d].refused
  BY <1>1, <1>3 DEF WayRec
<1> HIDE DEF r
<1>5. /\ Taken(way[d]) \in Nat /\ Taken(r) = Taken(way[d]) + 1
      /\ Passed(r) = Passed(way[d]) /\ Read(r) = Read(way[d])
  <2>1. Taken(way[d]) \in Nat /\ Len(way[d].out) \in Nat
    BY <1>1, WayFields
  <2>2. Taken(r) = Taken(way[d]) + 1
    BY <1>1, <1>4, <2>1 DEF Taken, InHand
  <2>4. Len(r.chunks) = Len(way[d].chunks) - 1 /\ Len(way[d].chunks) \in Nat
    BY <1>3, <1>4
  <2>3. Passed(r) = Passed(way[d])
    <3>1. Passed(r) = (Taken(way[d]) + 1) + (Len(way[d].chunks) - 1)
      BY <2>2, <2>4 DEF Passed
    <3>2. Passed(way[d]) = Taken(way[d]) + Len(way[d].chunks)
      BY DEF Passed
    <3>3. \A t, u \in Nat : (t + 1) + (u - 1) = t + u
      OBVIOUS
    <3>4. (Taken(way[d]) + 1) + (Len(way[d].chunks) - 1) = Taken(way[d]) + Len(way[d].chunks)
      BY <2>1, <2>4, <3>3
    <3> QED
      BY <3>1, <3>2, <3>4
  <2> QED
    BY <1>4, <2>1, <2>2, <2>3 DEF Read
<1>6. Arrived(r, net.delay)
  BY <1>1, <1>4 DEF Faithful, Arrived
<1>7. Waiting(r, net.delay)
  <2>1. Timed(way[d].chunks[1], net.delay) /\ way[d].chunks[1] \in Chunk
    BY <1>1, <1>3 DEF Faithful, Waiting
  <2>2. \A i \in 1..Len(r.chunks) : Timed(r.chunks[i], net.delay)
    BY <1>1, <1>3, <1>4 DEF Faithful, Waiting
  <2> QED
    BY <1>1, <1>4, <2>1, <2>2 DEF Faithful, Waiting
<1>8. Ended(d, r, stopped)
  BY <1>1, <1>4, <1>5 DEF Faithful, Ended
<1>9. Numbered(r)
  <2>1. Numbered(way[d])
    BY <1>1 DEF Faithful
  <2>2. r.item.n = Taken(r)
    BY <1>3, <1>4, <1>5, <2>1 DEF Numbered
  <2>3. ASSUME NEW i \in 1..Len(r.chunks) PROVE r.chunks[i].n = Taken(r) + i
    <3>1. i + 1 \in 1..Len(way[d].chunks) /\ r.chunks[i] = way[d].chunks[i + 1]
      BY <1>3, <1>4
    <3>2. way[d].chunks[i + 1].n = Taken(way[d]) + (i + 1)
      BY <2>1, <3>1 DEF Numbered
    <3> QED
      BY <1>5, <3>1, <3>2
  <2> QED
    BY <1>4, <1>5, <2>1, <2>2, <2>3 DEF Numbered
<1> QED
  BY <1>1, <1>4, <1>6, <1>7, <1>8, <1>9, OneWay DEF Faithful

\* The copier ends when its queue is closed and empty: it has passed on
\* everything, unless the relay was stopped before.
LEMMA RelayCopyEnds == ASSUME RelayInv, NEW d \in Ways, CopyEnds(d) PROVE RelayInv'
<1> DEFINE r == [way[d] EXCEPT !.cp = "end"]
<1>1. /\ way[d] \in WayRec /\ Faithful(d, way[d], stopped, net.delay)
      /\ way[d].cp = "range" /\ way[d].chunks = <<>> /\ way[d].closed
      /\ stopped' = StoppedBy(d) /\ net' = net /\ way' = [way EXCEPT ![d] = r]
      /\ stopped \in Ways \cup {"no"} /\ d # "no"
  BY DEF RelayInv, RelayTyped, CopyEnds, Ways
<1>2. /\ r \in WayRec /\ r.cp = "end" /\ r.item = way[d].item
      /\ r.chunks = way[d].chunks
      /\ r.rd = way[d].rd /\ r.closed = way[d].closed /\ r.sent = way[d].sent
      /\ r.src = way[d].src /\ r.hold = way[d].hold
      /\ r.out = way[d].out /\ r.eof = way[d].eof /\ r.refused = way[d].refused
  BY <1>1 DEF WayRec
<1> HIDE DEF r
<1>3. Len(way[d].chunks) = 0 /\ Passed(way[d]) = Len(way[d].out)
  <2>1. Len(way[d].chunks) = 0
    BY <1>1, EmptySeq
  <2>2. Taken(way[d]) \in Nat /\ Taken(way[d]) = Len(way[d].out)
    BY <1>1, WayFields DEF Taken, InHand
  <2> QED
    BY <2>1, <2>2 DEF Passed
<1>4. way[d].rd = "end"
  BY <1>1 DEF Faithful, Ended
<1>5. stopped # d
  BY <1>1 DEF Faithful, Ended
<1>6. stopped = "no" => r.sent = Len(r.out)
  BY <1>1, <1>2, <1>3, <1>4 DEF Faithful, Ended
<1>7. stopped' = d => stopped = "no"
  BY <1>1, <1>5 DEF StoppedBy
<1>8. stopped' # "no"
  BY <1>1 DEF StoppedBy
<1>9. Ended(d, r, stopped')
  BY <1>1, <1>2, <1>4, <1>6, <1>7, <1>8 DEF Faithful, Ended
<1>10. Arrived(r, net.delay) /\ Waiting(r, net.delay)
  BY <1>1, <1>2 DEF Faithful, Arrived, Waiting
<1> QED
  BY <1>1, <1>2, <1>9, <1>10, OneWay DEF Faithful

\* A copier that ends early ends a stopped relay, or one whose destination is
\* gone.
LEMMA RelayCut ==
  ASSUME RelayInv, NEW d \in Ways, way[d].cp = "wait",
         way' = [way EXCEPT ![d].cp = "end"], stopped' = StoppedBy(d), net' = net,
         stopped # "no" \/ way[d].refused
  PROVE  RelayInv'
<1> DEFINE r == [way[d] EXCEPT !.cp = "end"]
<1>1. /\ way[d] \in WayRec /\ Faithful(d, way[d], stopped, net.delay)
      /\ way' = [way EXCEPT ![d] = r]
      /\ stopped \in Ways \cup {"no"} /\ d # "no"
  BY DEF RelayInv, RelayTyped, Ways
<1>2. /\ r \in WayRec /\ r.cp = "end" /\ r.item = way[d].item
      /\ r.chunks = way[d].chunks
      /\ r.rd = way[d].rd /\ r.closed = way[d].closed /\ r.sent = way[d].sent
      /\ r.src = way[d].src /\ r.hold = way[d].hold
      /\ r.out = way[d].out /\ r.eof = way[d].eof /\ r.refused = way[d].refused
  BY <1>1 DEF WayRec
<1> HIDE DEF r
<1>3. stopped # d
  BY <1>1 DEF Faithful, Ended
<1>4. /\ stopped' = d => way[d].refused
      /\ stopped' # "no"
  BY <1>1, <1>3 DEF StoppedBy
<1>5. Ended(d, r, stopped')
  BY <1>1, <1>2, <1>4 DEF Faithful, Ended
<1>6. Arrived(r, net.delay) /\ Waiting(r, net.delay)
  BY <1>1, <1>2 DEF Faithful, Arrived, Waiting
<1> QED
  BY <1>1, <1>2, <1>5, <1>6, OneWay DEF Faithful

\* A delivered chunk is the next one in number, and has waited for the delay.
LEMMA RelayDeliver == ASSUME RelayInv, NEW d \in Ways, Deliver(d) PROVE RelayInv'
<1> DEFINE x == [n |-> way[d].item.n, age |-> way[d].item.age]
           r == [way[d] EXCEPT !.cp = "range", !.item = <<>>, !.out = Append(way[d].out, x)]
<1>1. /\ way[d] \in WayRec /\ Faithful(d, way[d], stopped, net.delay)
      /\ way[d].cp = "wait" /\ way[d].item.deliverAt = 0
      /\ net' = net /\ net.delay \in Nat
  BY DEF RelayInv, RelayTyped, Deliver
<1>2. CASE stopped # "no" \/ way[d].refused
  BY <1>1, <1>2, RelayCut DEF Deliver
<1>3. CASE ~(stopped # "no" \/ way[d].refused)
  <2>1. way' = [way EXCEPT ![d] = r] /\ stopped' = stopped /\ stopped = "no"
    BY <1>3 DEF Deliver
  <2>2. way[d].item \in Chunk /\ Timed(way[d].item, net.delay) /\ way[d].item.n = Taken(way[d])
    BY <1>1 DEF Faithful, Waiting, Numbered
  <2>3. x \in Delivered /\ x.n = Taken(way[d]) /\ x.age = net.delay
    BY <1>1, <2>2 DEF Chunk, Delivered, Timed
  <2> HIDE DEF x
  <2>4. way[d].out \in Seq(Delivered)
    BY <1>1, WayFields
  <2>5. /\ Append(way[d].out, x) \in Seq(Delivered)
        /\ Len(Append(way[d].out, x)) = Len(way[d].out) + 1
        /\ \A i \in 1..Len(way[d].out) : Append(way[d].out, x)[i] = way[d].out[i]
        /\ Append(way[d].out, x)[Len(way[d].out) + 1] = x
        /\ Len(way[d].out) \in Nat
    BY <2>3, <2>4, AppendProperties, LenProperties
  <2>6. /\ r \in WayRec /\ r.cp = "range" /\ r.out = Append(way[d].out, x)
        /\ r.chunks = way[d].chunks
        /\ r.rd = way[d].rd /\ r.closed = way[d].closed /\ r.sent = way[d].sent
        /\ r.src = way[d].src /\ r.hold = way[d].hold
        /\ r.eof = way[d].eof /\ r.refused = way[d].refused
    BY <1>1, <2>5 DEF WayRec
  <2> HIDE DEF r
  <2>7. Taken(way[d]) = Len(way[d].out) + 1
    BY <1>1, <2>5 DEF Taken, InHand
  <2>8. /\ Taken(r) = Taken(way[d]) /\ Passed(r) = Passed(way[d]) /\ Read(r) = Read(way[d])
    <3>1. Len(r.out) = Len(way[d].out) + 1 /\ Len(way[d].out) \in Nat
      BY <2>5, <2>6
    <3>4. InHand(r.cp = "wait") = 0
      BY <2>6 DEF InHand
    <3>2. Taken(r) = Taken(way[d])
      BY <2>7, <3>1, <3>4 DEF Taken
    <3>3. Passed(r) = Passed(way[d])
      BY <2>6, <3>2 DEF Passed
    <3> QED
      BY <2>6, <3>2, <3>3 DEF Read
  <2>9. Arrived(r, net.delay)
    <3>1. ASSUME NEW i \in 1..Len(r.out) PROVE r.out[i].n = i /\ r.out[i].age = net.delay
      <4>1. CASE i \in 1..Len(way[d].out)
        BY <1>1, <2>5, <2>6, <4>1 DEF Faithful, Arrived
      <4>2. CASE i = Len(way[d].out) + 1
        BY <2>3, <2>5, <2>6, <2>7, <4>2
      <4> QED
        BY <2>5, <2>6, <4>1, <4>2
    <3> QED
      BY <3>1 DEF Arrived
  <2>10. Waiting(r, net.delay)
    BY <1>1, <2>6 DEF Faithful, Waiting
  <2>11. Ended(d, r, stopped)
    BY <1>1, <2>1, <2>6, <2>8 DEF Faithful, Ended, Ways
  <2>12. Numbered(r)
    BY <1>1, <2>6, <2>8 DEF Faithful, Numbered
  <2> QED
    BY <1>1, <2>1, <2>6, <2>9, <2>10, <2>11, <2>12, OneWay DEF Faithful
<1> QED
  BY <1>2, <1>3

\* A copier whose wait is cut short ends.
LEMMA RelayWaitCut == ASSUME RelayInv, NEW d \in Ways, WaitCut(d) PROVE RelayInv'
BY RelayCut DEF WaitCut

\* Time passing keeps the sum of a chunk's age and its remaining wait at the
\* delay or above.
LEMMA RelayAged ==
  ASSUME net.delay \in Nat, NEW c \in Chunk
  PROVE  /\ Aged(c) \in Chunk /\ Aged(c).n = c.n
         /\ Timed(c, net.delay) => Timed(Aged(c), net.delay)
<1> DEFINE a == IF c.age < net.delay THEN c.age + 1 ELSE c.age
           w == IF c.deliverAt > 0 THEN c.deliverAt - 1 ELSE 0
<1>1. c.n \in Nat /\ c.age \in Nat /\ c.deliverAt \in Nat
  BY DEF Chunk
<1>2. Aged(c) = [c EXCEPT !.age = a, !.deliverAt = w]
  BY DEF Aged
<1>3. a \in Nat /\ w \in Nat
  BY <1>1
<1>4. Timed(c, net.delay) => a <= net.delay /\ a + w >= net.delay
  BY <1>1 DEF Timed
<1> HIDE DEF a, w
<1>5. Aged(c) \in Chunk /\ Aged(c).n = c.n /\ Aged(c).age = a /\ Aged(c).deliverAt = w
  BY <1>2, <1>3 DEF Chunk
<1> QED
  BY <1>4, <1>5 DEF Timed

\* Time passing keeps the relay as it should be.
LEMMA RelayTick == ASSUME RelayInv, Tick PROVE RelayInv'
<1>1. /\ stopped' = stopped /\ net' = net /\ way' = [d \in Ways |-> Later(way[d])]
      /\ way \in [Ways -> WayRec] /\ net.delay \in Nat
      /\ RelayTyped
  BY DEF Tick, RelayInv, RelayTyped
<1>2. ASSUME NEW d \in Ways
      PROVE  Later(way[d]) \in WayRec /\ Faithful(d, Later(way[d]), stopped, net.delay)
  <2> DEFINE r == Later(way[d])
             q == [i \in DOMAIN way[d].chunks |-> Aged(way[d].chunks[i])]
             h == IF way[d].rd = "push" THEN Aged(way[d].hold) ELSE <<>>
             m == IF way[d].cp = "wait" THEN Aged(way[d].item) ELSE <<>>
             l == IF way[d].last > 0 THEN way[d].last - 1 ELSE 0
  <2>1. way[d] \in WayRec /\ Faithful(d, way[d], stopped, net.delay)
    BY <1>1 DEF RelayInv
  <2>2. way[d].chunks \in Seq(Chunk) /\ Len(way[d].chunks) \in Nat /\ way[d].last \in Nat
    BY <2>1, WayFields
  <2>3. /\ q \in Seq(Chunk) /\ Len(q) = Len(way[d].chunks)
        /\ \A i \in 1..Len(q) : q[i] = Aged(way[d].chunks[i]) /\ way[d].chunks[i] \in Chunk
    BY <1>1, <2>2, RelayAged
  <2>4. /\ way[d].rd = "push" => way[d].hold \in Chunk /\ h = Aged(way[d].hold) /\ h \in Chunk
        /\ way[d].rd # "push" => h = <<>>
        /\ way[d].cp = "wait" => way[d].item \in Chunk /\ m = Aged(way[d].item) /\ m \in Chunk
        /\ way[d].cp # "wait" => m = <<>>
    BY <1>1, <2>1, RelayAged DEF Faithful, Waiting
  <2>5. l \in Nat
    BY <2>2
  <2>6. r = [way[d] EXCEPT !.last = l, !.hold = h, !.item = m, !.chunks = q]
    BY DEF Later
  <2> HIDE DEF r, q, h, m, l
  <2>7. /\ r \in WayRec /\ r.cp = way[d].cp /\ r.item = m /\ r.hold = h /\ r.chunks = q
        /\ r.rd = way[d].rd /\ r.closed = way[d].closed /\ r.sent = way[d].sent
        /\ r.src = way[d].src /\ r.out = way[d].out
        /\ r.eof = way[d].eof /\ r.refused = way[d].refused
    BY <2>1, <2>3, <2>4, <2>5, <2>6 DEF WayRec
  <2>8. Taken(r) = Taken(way[d]) /\ Passed(r) = Passed(way[d]) /\ Read(r) = Read(way[d])
    BY <2>3, <2>7 DEF Taken, Passed, Read
  <2>9. Arrived(r, net.delay)
    BY <2>1, <2>7 DEF Faithful, Arrived
  <2>10. Waiting(r, net.delay)
    <3>1. \A i \in 1..Len(q) : Timed(q[i], net.delay)
      BY <1>1, <2>1, <2>3, RelayAged DEF Faithful, Waiting
    <3>2. way[d].rd = "push" => Timed(h, net.delay)
      BY <1>1, <2>1, <2>4, RelayAged DEF Faithful, Waiting
    <3>3. way[d].cp = "wait" => Timed(m, net.delay)
      BY <1>1, <2>1, <2>4, RelayAged DEF Faithful, Waiting
    <3> QED
      BY <2>4, <2>7, <3>1, <3>2, <3>3 DEF Waiting
  <2>11. Ended(d, r, stopped)
    BY <2>1, <2>7, <2>8 DEF Faithful, Ended
  <2>12. ASSUME way[d].cp # "end" PROVE Numbered(r)
    <3>1. Numbered(way[d])
      BY <2>1, <2>12 DEF Faithful
    <3>2. \A i \in 1..Len(q) : q[i].n = way[d].chunks[i].n
      BY <1>1, <2>3, RelayAged
    <3>3. way[d].rd = "push" => h.n = way[d].hold.n
      BY <1>1, <2>4, RelayAged
    <3>4. way[d].cp = "wait" => m.n = way[d].item.n
      BY <1>1, <2>4, RelayAged
    <3> QED
      BY <2>3, <2>7, <2>8, <3>1, <3>2, <3>3, <3>4 DEF Numbered
  <2> QED
    BY <2>7, <2>9, <2>10, <2>11, <2>12 DEF r, Faithful
<1>3. RelayTyped'
  BY <1>1, <1>2 DEF RelayTyped
<1>4. \A d \in Ways : Faithful(d, way'[d], stopped', net'.delay)
  BY <1>1, <1>2
<1> QED
  BY <1>3, <1>4 DEF RelayInv

\* So does every step of the relay.
LEMMA RelayStepKeeps == ASSUME RelayInv, RelayStep PROVE RelayInv'
BY RelayRead, RelayPush, RelayReadEnds, RelayTake, RelayCopyEnds, RelayDeliver, RelayWaitCut,
   RelayTick DEF RelayStep

\* The two ends of the connection: a chunk is written before its writer closes
\* and before the relay is stopped.
LEMMA RelaySent ==
  ASSUME RelayInv, NEW d \in Ways, stopped = "no", ~way[d].eof,
         way' = [way EXCEPT ![d] = Sent(way[d])], stopped' = stopped, net' = net
  PROVE  RelayInv'
<1> DEFINE q == Append(way[d].src, way[d].sent + 1)
           n == way[d].sent + 1
           r == [way[d] EXCEPT !.sent = n, !.src = q]
<1>1. way[d] \in WayRec /\ Faithful(d, way[d], stopped, net.delay)
  BY DEF RelayInv, RelayTyped
<1>2. way[d].src \in Seq(Nat) /\ way[d].sent \in Nat
  BY <1>1, WayFields
<1>3. /\ q \in Seq(Nat) /\ Len(q) = Len(way[d].src) + 1 /\ Len(way[d].src) \in Nat
      /\ \A i \in 1..Len(way[d].src) : q[i] = way[d].src[i]
      /\ q[Len(way[d].src) + 1] = way[d].sent + 1
  BY <1>2, AppendProperties, LenProperties
<1>4. way' = [way EXCEPT ![d] = r]
  BY DEF Sent
<1>15. n \in Nat /\ \A i \in 1..Len(q) : i \in 1..Len(way[d].src) \/ i = Len(way[d].src) + 1
  BY <1>2, <1>3
<1> HIDE DEF q, n
<1>5. /\ r \in WayRec /\ r.cp = way[d].cp /\ r.item = way[d].item /\ r.hold = way[d].hold
      /\ r.chunks = way[d].chunks /\ r.src = q
      /\ r.rd = way[d].rd /\ r.closed = way[d].closed /\ r.sent = n
      /\ r.out = way[d].out /\ r.eof = way[d].eof /\ r.refused = way[d].refused
  BY <1>1, <1>2, <1>3, <1>15 DEF WayRec
<1> HIDE DEF r
<1>6. Taken(r) = Taken(way[d]) /\ Passed(r) = Passed(way[d]) /\ Read(r) = Read(way[d])
  BY <1>5 DEF Taken, Passed, Read
<1>7. Arrived(r, net.delay) /\ Waiting(r, net.delay)
  BY <1>1, <1>5 DEF Faithful, Arrived, Waiting
<1>8. way[d].cp # "end" /\ way[d].rd # "end" /\ stopped # d
  BY <1>1 DEF Faithful, Ended, Ways
<1>9. Ended(d, r, stopped)
  BY <1>1, <1>5, <1>8 DEF Faithful, Ended
<1>10. Numbered(way[d])
  BY <1>1, <1>8 DEF Faithful
<1>11. way[d].sent = Read(way[d]) + Len(way[d].src) /\ Read(way[d]) \in Nat
  BY <1>1, <1>8, <1>10, WayFields DEF Numbered
<1>12. r.sent = Read(r) + Len(r.src)
  <2>1. r.sent = way[d].sent + 1 /\ Len(r.src) = Len(way[d].src) + 1 /\ Read(r) = Read(way[d])
    BY <1>3, <1>5, <1>6 DEF n
  <2> QED
    BY <1>3, <1>11, <2>1
<1>13. ASSUME NEW i \in 1..Len(r.src) PROVE r.src[i] = Read(r) + i
  <2>1. CASE i \in 1..Len(way[d].src)
    BY <1>3, <1>5, <1>6, <1>8, <1>10, <2>1 DEF Numbered
  <2>2. CASE i = Len(way[d].src) + 1
    <3>1. r.src[i] = way[d].sent + 1 /\ Read(r) = Read(way[d])
      BY <1>3, <1>5, <1>6, <2>2
    <3> QED
      BY <1>3, <1>11, <2>2, <3>1
  <2> QED
    BY <1>5, <1>15, <2>1, <2>2
<1>14. Numbered(r)
  BY <1>5, <1>6, <1>10, <1>12, <1>13 DEF Numbered
<1> QED
  BY <1>1, <1>4, <1>5, <1>7, <1>9, <1>14, OneWay DEF Faithful

\* An end of the connection that closes lets what is underway arrive.
LEMMA RelayClosing ==
  ASSUME RelayInv, NEW d \in Ways,
         way' = Closing(way, d), stopped' = stopped, net' = net
  PROVE  RelayInv'
<1>1. ASSUME NEW e \in Ways
      PROVE  way'[e] \in WayRec /\ Faithful(e, way'[e], stopped, net.delay)
  <2>1. way[e] \in WayRec /\ Faithful(e, way[e], stopped, net.delay) /\ way \in [Ways -> WayRec]
    BY DEF RelayInv, RelayTyped
  <2>2. PICK f \in BOOLEAN, g \in BOOLEAN :
          way'[e] = [way[e] EXCEPT !.eof = f, !.refused = g]
          /\ (way[e].eof => f) /\ (way[e].refused => g)
    <3>1. CASE e = d
      <4>1. way'[e] = [way[e] EXCEPT !.eof = TRUE]
        BY <2>1, <3>1 DEF Closing, Ways, Other
      <4>2. [way[e] EXCEPT !.eof = TRUE]
              = [way[e] EXCEPT !.eof = TRUE, !.refused = way[e].refused]
        BY <2>1 DEF WayRec
      <4> QED
        BY <2>1, <4>1, <4>2, WayFields
    <3>2. CASE e # d
      <4>1. way'[e] = [way[e] EXCEPT !.refused = TRUE]
        BY <2>1, <3>2 DEF Closing, Ways, Other
      <4>2. [way[e] EXCEPT !.refused = TRUE]
              = [way[e] EXCEPT !.eof = way[e].eof, !.refused = TRUE]
        BY <2>1 DEF WayRec
      <4> QED
        BY <2>1, <4>1, <4>2, WayFields
    <3> QED
      BY <3>1, <3>2
  <2> DEFINE r == [way[e] EXCEPT !.eof = f, !.refused = g]
  <2>3. /\ r \in WayRec /\ r.cp = way[e].cp /\ r.item = way[e].item /\ r.hold = way[e].hold
        /\ r.chunks = way[e].chunks /\ r.src = way[e].src
        /\ r.rd = way[e].rd /\ r.closed = way[e].closed /\ r.sent = way[e].sent
        /\ r.out = way[e].out /\ r.eof = f /\ r.refused = g
    BY <2>1 DEF WayRec
  <2> HIDE DEF r
  <2>4. Taken(r) = Taken(way[e]) /\ Passed(r) = Passed(way[e]) /\ Read(r) = Read(way[e])
    BY <2>3 DEF Taken, Passed, Read
  <2>5. Arrived(r, net.delay) /\ Waiting(r, net.delay)
    BY <2>1, <2>3 DEF Faithful, Arrived, Waiting
  <2>6. Ended(e, r, stopped)
    BY <2>1, <2>2, <2>3, <2>4 DEF Faithful, Ended
  <2>7. r.cp # "end" => Numbered(r)
    BY <2>1, <2>3, <2>4 DEF Faithful, Numbered
  <2> QED
    BY <2>2, <2>3, <2>5, <2>6, <2>7 DEF r, Faithful
<1>2. way' \in [Ways -> WayRec]
  <2>1. DOMAIN way' = Ways /\ way' = [e \in DOMAIN way' |-> way'[e]]
    BY DEF Closing, RelayInv, RelayTyped
  <2> QED
    BY <1>1, <2>1
<1>3. RelayTyped'
  BY <1>2 DEF RelayInv, RelayTyped
<1> QED
  BY <1>1, <1>3 DEF RelayInv

\* Nothing has crossed a new connection.
LEMMA RelayInvInit ==
  ASSUME way = [d \in Ways |-> Direction], stopped = "no", net \in [delay : Nat, variation : Nat]
  PROVE  RelayInv
<1>1. Direction \in WayRec
  BY DEF Direction, WayRec, Chunk, Delivered
<1>2. RelayTyped
  BY <1>1 DEF RelayTyped
<1>3. ASSUME NEW d \in Ways PROVE Faithful(d, Direction, "no", net.delay)
  BY DEF Faithful, Arrived, Waiting, Ended, Numbered, Read, Passed, Taken, InHand, Direction, Ways
<1> QED
  BY <1>2, <1>3 DEF RelayInv

\* What the invariant says of a run.
LEMMA RelayInvFaithful == ASSUME RelayInv PROVE RelayFaithful
<1>1. ASSUME NEW d \in Ways
      PROVE  /\ \A i \in DOMAIN way[d].out : way[d].out[i].n = i /\ way[d].out[i].age = net.delay
             /\ (stopped = d /\ way[d].closed /\ ~way[d].refused) => Len(way[d].out) = way[d].sent
  <2>1. way[d] \in WayRec /\ Faithful(d, way[d], stopped, net.delay)
    BY DEF RelayInv, RelayTyped
  <2>2. DOMAIN way[d].out = 1..Len(way[d].out)
    BY <2>1, WayFields
  <2> QED
    BY <2>1, <2>2 DEF Faithful, Arrived, Ended
<1> QED
  BY <1>1 DEF RelayFaithful

-----------------------------------------------------------------------------
(* The handlers of the demo server.                                        *)

ScenarioRequest == UNION {sc.requests : sc \in Scenarios}
AnyRequest == ScenarioRequest \cup {[route |-> "none"]}
Bodies == Nat \cup [accepted : Nat, overrun : Nat]
CallRec ==
  [pc : {"idle", "enter", "spin", "insert", "status", "use", "answered"},
   req : AnyRequest, tries : Nat, token : Tokens \cup {"none"}, quota : Nat, n : Int,
   status : Nat, body : Bodies, sent : BOOLEAN, earlier : SUBSET Nat]

Receipt(c) == c.pc = "answered" /\ c.req.route = "use" /\ c.status = 200

\* What a handler knows of the quota it holds.
CallOk(c, counts, given) ==
  /\ c.pc \in {"status", "use"} => c.req.route = c.pc /\ c.quota \in DOMAIN counts
  /\ c.earlier \subseteq given
  /\ c.pc = "spin" /\ c.req.route = "use" => c.quota \in DOMAIN counts \ c.earlier
  /\ Receipt(c) => /\ c.quota \in DOMAIN counts \ c.earlier
                   /\ c.body \in Nat /\ c.body <= counts[c.quota]

\* What a handler may be made to do.
Limit(c, f, b) ==
  /\ (c.pc = "spin" /\ c.req.route = "work" /\ limited(f.timing))
       => c.n <= 1 \/ c.n * b.elapsed <= f.timing.maximum * b.iterations
  /\ (c.pc = "spin" /\ c.req.route = "sleep" /\ ~f.timing.unlimited)
       => c.n <= f.timing.maximum
  /\ (c.pc = "spin" /\ c.req.route \in {"sleep", "work"}) => ~disabled(f.timing)
  /\ (c.pc = "spin" /\ c.req.route = "use" /\ f.quota > 0)
       => c.n > 0 /\ c.n * b.elapsed >= f.quota * b.iterations
  /\ (c.pc = "answered" /\ c.status = 400 /\ c.req.route = "sleep" /\ OneValue(c.req))
       => c.req.value < 0 \/ c.req.value > f.timing.maximum

Apart(c, d) == Receipt(c) /\ Receipt(d) /\ c.quota = d.quota => c.body # d.body

CallsOk ==
  /\ call \in [Slots -> CallRec]
  /\ \A s \in Slots : CallOk(call[s], quotas, spent) /\ Limit(call[s], scen.flags, bench)
  /\ \A s, o \in Slots : s # o => Apart(call[s], call[o])

\* Receipts have been given out for the quotas in spent.
Counted ==
  /\ quotas \in Seq(Nat)
  /\ spent \subseteq DOMAIN quotas
  /\ \A q \in spent : quotas[q] >= 1

\* A step of one handler, while the counts only grow.
LEMMA OneCall ==
  ASSUME CallsOk, quotas \in Seq(Nat), NEW s \in Slots, NEW c \in CallRec,
         call' = [call EXCEPT ![s] = c], scen' = scen, bench' = bench,
         quotas' \in Seq(Nat), DOMAIN quotas \subseteq DOMAIN quotas',
         \A q \in DOMAIN quotas : quotas[q] <= quotas'[q],
         spent \subseteq spent',
         CallOk(c, quotas', spent'), Limit(c, scen.flags, bench),
         \A o \in Slots \ {s} : Apart(c, call[o])
  PROVE  CallsOk'
<1>1. call' \in [Slots -> CallRec]
  BY DEF CallsOk
<1>2. call'[s] = c /\ \A o \in Slots \ {s} : call'[o] = call[o]
  BY DEF CallsOk
<1>3. ASSUME NEW o \in Slots
      PROVE  CallOk(call'[o], quotas', spent') /\ Limit(call'[o], scen.flags, bench)
  <2>1. CASE o = s
    BY <1>2, <2>1
  <2>2. CASE o # s
    <3>1. CallOk(call[o], quotas, spent) /\ Limit(call[o], scen.flags, bench)
      BY DEF CallsOk
    <3>2. Receipt(call[o]) => call[o].body \in Nat /\ call[o].body <= quotas'[call[o].quota]
      <4>1. ASSUME Receipt(call[o]) PROVE call[o].body \in Nat /\ call[o].body <= quotas'[call[o].quota]
        <5>1. /\ call[o].quota \in DOMAIN quotas /\ call[o].body \in Nat
              /\ call[o].body <= quotas[call[o].quota]
          BY <3>1, <4>1 DEF CallOk
        <5>2. quotas[call[o].quota] \in Nat /\ quotas'[call[o].quota] \in Nat
          BY <5>1, ElementOfSeq
        <5>3. quotas[call[o].quota] <= quotas'[call[o].quota]
          BY <5>1
        <5> QED
          BY <5>1, <5>2, <5>3
      <4> QED
        BY <4>1
    <3>3. CallOk(call[o], quotas', spent')
      BY <3>1, <3>2 DEF CallOk
    <3> QED
      BY <1>2, <2>2, <3>1, <3>3
  <2> QED
    BY <2>1, <2>2
<1>4. ASSUME NEW o \in Slots, NEW p \in Slots, o # p PROVE Apart(call'[o], call'[p])
  <2>1. CASE o = s
    BY <1>2, <1>4, <2>1
  <2>2. CASE p = s
    <3>1. Apart(c, call[o])
      BY <1>4, <2>2
    <3> QED
      BY <1>2, <1>4, <2>2, <3>1 DEF Apart
  <2>3. CASE o # s /\ p # s
    BY <1>2, <1>4, <2>3 DEF CallsOk
  <2> QED
    BY <2>1, <2>2, <2>3
<1> QED
  BY <1>1, <1>3, <1>4 DEF CallsOk

\* A step that leaves the counts alone and gives no receipt.
LEMMA PlainCall ==
  ASSUME CallsOk, Counted, NEW s \in Slots, NEW c \in CallRec,
         call' = [call EXCEPT ![s] = c], scen' = scen, bench' = bench,
         quotas' = quotas, spent' = spent,
         CallOk(c, quotas, spent), Limit(c, scen.flags, bench), ~Receipt(c)
  PROVE  CallsOk' /\ Counted'
<1>1. Counted'
  BY DEF Counted
<1>2. quotas \in Seq(Nat) /\ \A q \in DOMAIN quotas : quotas[q] <= quotas[q]
  BY ElementOfSeq DEF Counted
<1>3. \A o \in Slots \ {s} : Apart(c, call[o])
  BY DEF Apart
<1> QED
  BY <1>1, <1>2, <1>3, OneCall

\* What the derived counts are worth once the server has been configured.
Calibrated ==
  /\ validateDemoServerConfig(scen.flags)
  /\ eff \in [work : Int, quota : Int] /\ bench \in [iterations : Int, elapsed : Int]
  /\ limited(scen.flags.timing) =>
       /\ eff.work > 0 /\ bench.elapsed > 0
       /\ eff.work = 1 \/ eff.work * bench.elapsed <= scen.flags.timing.maximum * bench.iterations
  /\ scen.flags.quota > 0 =>
       /\ eff.quota > 0
       /\ eff.quota * bench.elapsed >= scen.flags.quota * bench.iterations

\* The store only names quotas that exist.
Named == \A t \in DOMAIN byID : byID[t] \in DOMAIN quotas

\* A running handler may rely on all of it.
Serving ==
  /\ scen \in Scenarios
  /\ Running => Calibrated
  /\ CallsOk /\ Counted /\ Named

\* The parts of a call are of their types.
LEMMA CallFields ==
  ASSUME NEW c \in CallRec
  PROVE  /\ c.pc \in {"idle", "enter", "spin", "insert", "status", "use", "answered"}
         /\ c.req \in AnyRequest /\ c.tries \in Nat /\ c.token \in Tokens \cup {"none"}
         /\ c.quota \in Nat /\ c.n \in Int /\ c.status \in Nat /\ c.body \in Bodies
         /\ c.sent \in BOOLEAN /\ c.earlier \in SUBSET Nat
BY DEF CallRec

\* Any answer but a receipt.
LEMMA Refusal ==
  ASSUME Serving, NEW s \in Slots, NEW code \in Nat, NEW body \in Bodies,
         Answer(s, code, body), scen' = scen, bench' = bench, quotas' = quotas, spent' = spent,
         code # 200 \/ call[s].req.route # "use",
         (code = 400 /\ call[s].req.route = "sleep" /\ OneValue(call[s].req))
            => call[s].req.value < 0 \/ call[s].req.value > scen.flags.timing.maximum
  PROVE  CallsOk' /\ Counted'
<1> DEFINE c == [call[s] EXCEPT !.pc = "answered", !.status = code, !.body = body]
<1>1. /\ CallsOk /\ Counted /\ call[s] \in CallRec /\ CallOk(call[s], quotas, spent)
      /\ call' = [call EXCEPT ![s] = c]
  BY DEF Serving, CallsOk, Answer, Step
<1>2. /\ c \in CallRec /\ c.pc = "answered" /\ c.req = call[s].req /\ c.status = code
      /\ c.earlier = call[s].earlier
  BY <1>1 DEF CallRec
<1> HIDE DEF c
<1>3. ~Receipt(c)
  BY <1>2 DEF Receipt
<1>4. CallOk(c, quotas, spent)
  BY <1>1, <1>2, <1>3 DEF CallOk
<1>5. Limit(c, scen.flags, bench)
  BY <1>2 DEF Limit
<1> QED
  BY <1>1, <1>2, <1>3, <1>4, <1>5, PlainCall

\* An idle slot is a call.
LEMMA IdleRec == Idle \in CallRec
<1>1. [route |-> "none"] \in AnyRequest
  BY DEF AnyRequest
<1>2. 0 \in Bodies
  BY DEF Bodies
<1> QED
  BY <1>1, <1>2 DEF Idle, CallRec

\* A request arrives.
LEMMA CallArrive == ASSUME Serving, NEW s \in Slots, Arrive(s) PROVE CallsOk' /\ Counted'
<1>1. PICK r \in Requests :
        call' = [call EXCEPT ![s] = [Idle EXCEPT !.pc = "enter", !.req = r, !.earlier = spent]]
  BY DEF Arrive
<1> DEFINE c == [Idle EXCEPT !.pc = "enter", !.req = r, !.earlier = spent]
<1>2. scen' = scen /\ bench' = bench /\ quotas' = quotas /\ spent' = spent
  BY DEF Arrive, startVars, storeVars
<1>3. r \in AnyRequest
  <2>1. r \in scen.requests /\ scen \in Scenarios
    BY DEF Requests, Serving
  <2>2. scen.requests \in {sc.requests : sc \in Scenarios}
    BY <2>1
  <2>3. r \in ScenarioRequest
    BY <2>1, <2>2, Zenon DEF ScenarioRequest
  <2> QED
    BY <2>3 DEF AnyRequest
<1>4. spent \subseteq Nat
  BY DEF Serving, Counted
<1>5. c \in CallRec /\ c.pc = "enter" /\ c.earlier = spent
  BY <1>3, <1>4, IdleRec DEF CallRec
<1> HIDE DEF c
<1>6. CallOk(c, quotas, spent) /\ Limit(c, scen.flags, bench) /\ ~Receipt(c)
  BY <1>5 DEF CallOk, Limit, Receipt
<1> QED
  BY <1>1, <1>2, <1>5, <1>6, PlainCall DEF Serving, c

\* A larger count makes the server do more.
LEMMA Scaled ==
  ASSUME NEW a \in Int, NEW b \in Int, NEW e \in Int, a <= b, e >= 0
  PROVE  a * e <= b * e
<1>1. (b - a) * e >= 0
  OBVIOUS
<1>2. (b - a) * e = b * e - a * e
  OBVIOUS
<1>3. a * e \in Int /\ b * e \in Int
  OBVIOUS
<1> QED
  BY <1>1, <1>2, <1>3

\* The value of a timing request is an integer, and so is its limit.
LEMMA TimingValue ==
  ASSUME Serving, NEW s \in Slots, call[s].req.route \in {"sleep", "work"}
  PROVE  /\ call[s].req.value \in Int /\ scen.flags.timing.maximum \in Int
         /\ scen.flags.timing.unlimited \in BOOLEAN
<1>1. call[s] \in CallRec /\ scen \in Scenarios
  BY DEF Serving, CallsOk
<1>2. call[s].req \in AnyRequest
  BY <1>1, CallFields
<1>3. call[s].req \in ScenarioRequest
  BY <1>2 DEF AnyRequest
<1>4. PICK sc \in Scenarios : call[s].req \in sc.requests
  BY <1>3, Zenon DEF ScenarioRequest
<1> QED
  BY <1>1, <1>4, ScenarioAssumption

\* A timing route: a value within the limit spins.
LEMMA CallTiming == ASSUME Serving, NEW s \in Slots, EnterTiming(s) PROVE CallsOk' /\ Counted'
<1> DEFINE r == call[s].req
           f == scen.flags
<1>1. /\ Calibrated /\ CallsOk /\ Counted /\ call[s] \in CallRec
      /\ CallOk(call[s], quotas, spent) /\ scen \in Scenarios
      /\ call[s].pc = "enter" /\ r.route \in {"sleep", "work"}
      /\ scen' = scen /\ bench' = bench /\ quotas' = quotas /\ spent' = spent
  <2>1. Calibrated /\ CallsOk /\ Counted /\ scen \in Scenarios
    BY DEF EnterTiming, Serving
  <2>2. call[s] \in CallRec /\ CallOk(call[s], quotas, spent)
    BY <2>1 DEF CallsOk
  <2>3. /\ call[s].pc = "enter" /\ r.route \in {"sleep", "work"}
        /\ scen' = scen /\ bench' = bench /\ quotas' = quotas /\ spent' = spent
    BY DEF EnterTiming, startVars, storeVars
  <2> QED
    BY <2>1, <2>2, <2>3
<1>2. 0 \in Bodies
  BY DEF Bodies
<1>3. CASE disabled(f.timing)
  <2>1. Answer(s, 403, 0)
    BY <1>3 DEF EnterTiming
  <2> QED
    BY <1>1, <1>2, <2>1, Refusal
<1>4. CASE ~disabled(f.timing) /\ (~OneValue(r) \/ ~parseDemoValue(r.value, MaximumOf(r.route)))
  <2>1. Answer(s, 400, 0)
    BY <1>4 DEF EnterTiming
  <2>2. (r.route = "sleep" /\ OneValue(r)) => r.value < 0 \/ r.value > f.timing.maximum
    <3>1. ASSUME r.route = "sleep", OneValue(r) PROVE r.value < 0 \/ r.value > f.timing.maximum
      <4>1. ~parseDemoValue(r.value, f.timing.maximum)
        BY <1>4, <3>1 DEF MaximumOf
      <4>2. r.value \in Int /\ f.timing.maximum \in Int
        BY <1>1, TimingValue
      <4> QED
        BY <4>1, <4>2 DEF parseDemoValue
    <3> QED
      BY <3>1
  <2> QED
    BY <1>1, <1>2, <2>1, <2>2, Refusal
<1>5. CASE ~disabled(f.timing) /\ OneValue(r) /\ parseDemoValue(r.value, MaximumOf(r.route))
  <2> DEFINE c == [call[s] EXCEPT !.pc = "spin", !.n = r.value]
  <2>1. call' = [call EXCEPT ![s] = c]
    BY <1>5 DEF EnterTiming, Step
  <2>2. r.value \in Int /\ f.timing.maximum \in Int /\ f.timing.unlimited \in BOOLEAN
    BY <1>1, TimingValue
  <2>3. /\ c \in CallRec /\ c.pc = "spin" /\ c.req = r /\ c.n = r.value
        /\ c.earlier = call[s].earlier
    BY <1>1, <2>2 DEF CallRec
  <2> HIDE DEF c
  <2>4. CallOk(c, quotas, spent) /\ ~Receipt(c)
    BY <1>1, <2>3 DEF CallOk, Receipt
  <2>5. ASSUME r.route = "work", limited(f.timing)
        PROVE  c.n <= 1 \/ c.n * bench.elapsed <= f.timing.maximum * bench.iterations
    <3>1. /\ eff.work > 0 /\ bench.elapsed > 0 /\ eff.work \in Int /\ bench.elapsed \in Int
          /\ bench.iterations \in Int
          /\ eff.work = 1 \/ eff.work * bench.elapsed <= f.timing.maximum * bench.iterations
      BY <1>1, <2>5 DEF Calibrated
    <3>2. c.n <= eff.work /\ c.n \in Int
      BY <1>5, <2>2, <2>3, <2>5, <3>1 DEF MaximumOf, parseDemoValue
    <3>3. c.n * bench.elapsed <= eff.work * bench.elapsed
      BY <3>1, <3>2, Scaled
    <3>4. /\ c.n * bench.elapsed \in Int /\ eff.work * bench.elapsed \in Int
          /\ f.timing.maximum * bench.iterations \in Int
      BY <2>2, <3>1, <3>2
    <3>5. CASE eff.work = 1
      BY <3>2, <3>5
    <3>6. CASE eff.work * bench.elapsed <= f.timing.maximum * bench.iterations
      <4>1. \A x, y, z \in Int : x <= y /\ y <= z => x <= z
        OBVIOUS
      <4> QED
        BY <3>3, <3>4, <3>6, <4>1
    <3> QED
      BY <3>1, <3>5, <3>6
  <2>6. ASSUME r.route = "sleep", ~f.timing.unlimited PROVE c.n <= f.timing.maximum
    <3>1. f.timing.maximum > 0
      BY <1>1, <1>5, <2>2, <2>6 DEF Calibrated, validateDemoServerConfig, validate, disabled
    <3> QED
      BY <1>5, <2>2, <2>3, <2>6, <3>1 DEF MaximumOf, parseDemoValue
  <2>7. Limit(c, f, bench)
    BY <1>1, <1>5, <2>3, <2>5, <2>6 DEF Limit
  <2> QED
    BY <1>1, <2>1, <2>3, <2>4, <2>7, PlainCall
<1> QED
  BY <1>3, <1>4, <1>5

\* A request without fixed work or quota is answered.
LEMMA CallPlain == ASSUME Serving, NEW s \in Slots, EnterPlain(s) PROVE CallsOk' /\ Counted'
<1>1. /\ call[s].req.route \in {"index", "now", "sha256"}
      /\ scen' = scen /\ bench' = bench /\ quotas' = quotas /\ spent' = spent
      /\ Answer(s, 400, 0) \/ Answer(s, 200, 0)
  BY DEF EnterPlain, startVars, storeVars
<1>2. 0 \in Bodies
  BY DEF Bodies
<1> QED
  BY <1>1, <1>2, Refusal

\* Creating a quota: the new one starts at zero, and its number is new.
LEMMA CallDraw == ASSUME Serving, NEW s \in Slots, DrawToken(s) PROVE CallsOk' /\ Counted'
<1>1. /\ call[s].req.route = "create"
      /\ scen' = scen /\ bench' = bench /\ quotas' = quotas /\ spent' = spent
      /\ call[s] \in CallRec /\ CallOk(call[s], quotas, spent) /\ call[s].pc = "enter"
  BY DEF DrawToken, startVars, storeVars, Serving, CallsOk
<1>2. CASE scen.faults /\ Answer(s, 500, 0)
  <2>1. 0 \in Bodies
    BY DEF Bodies
  <2> QED
    BY <1>1, <1>2, <2>1, Refusal
<1>3. CASE \E t \in Tokens : Step(s, [call[s] EXCEPT !.pc = "insert", !.token = t,
                                                    !.tries = call[s].tries + 1])
  <2>1. PICK t \in Tokens : call' = [call EXCEPT ![s] =
                              [call[s] EXCEPT !.pc = "insert", !.token = t, !.tries = call[s].tries + 1]]
    BY <1>3 DEF Step
  <2> DEFINE more == call[s].tries + 1
             c == [call[s] EXCEPT !.pc = "insert", !.token = t, !.tries = more]
  <2>4. more \in Nat
    BY <1>1, CallFields
  <2> HIDE DEF more
  <2>2. c \in CallRec /\ c.pc = "insert" /\ c.earlier = call[s].earlier
    BY <1>1, <2>4 DEF CallRec
  <2> HIDE DEF c
  <2>3. CallOk(c, quotas, spent) /\ Limit(c, scen.flags, bench) /\ ~Receipt(c)
    BY <1>1, <2>2 DEF CallOk, Limit, Receipt
  <2> QED
    BY <1>1, <2>1, <2>2, <2>3, PlainCall DEF Serving, c, more
<1> QED
  BY <1>2, <1>3 DEF DrawToken

\* Inserting a token charges no quota.
LEMMA CallInsert ==
  ASSUME Serving, NEW s \in Slots, InsertToken(s), call[s].pc = "insert" => call[s].req.route = "create"
  PROVE  CallsOk' /\ Counted'
<1>1. /\ call[s].pc = "insert" /\ call[s].req.route = "create"
      /\ scen' = scen /\ bench' = bench /\ spent' = spent
      /\ call[s] \in CallRec /\ CallOk(call[s], quotas, spent)
  BY DEF InsertToken, startVars, Serving, CallsOk
<1>2. CASE /\ IF call[s].tries = TokenAttempts THEN Answer(s, 500, 0)
              ELSE Step(s, [call[s] EXCEPT !.pc = "enter"])
           /\ UNCHANGED storeVars
  <2>1. quotas' = quotas
    BY <1>2 DEF storeVars
  <2>2. CASE Answer(s, 500, 0)
    <3>1. 0 \in Bodies
      BY DEF Bodies
    <3> QED
      BY <1>1, <2>1, <2>2, <3>1, Refusal
  <2>3. CASE Step(s, [call[s] EXCEPT !.pc = "enter"])
    <3> DEFINE c == [call[s] EXCEPT !.pc = "enter"]
    <3>1. c \in CallRec /\ c.pc = "enter" /\ c.earlier = call[s].earlier
      BY <1>1 DEF CallRec
    <3>2. call' = [call EXCEPT ![s] = c]
      BY <2>3 DEF Step
    <3> HIDE DEF c
    <3>3. CallOk(c, quotas, spent) /\ Limit(c, scen.flags, bench) /\ ~Receipt(c)
      BY <1>1, <3>1 DEF CallOk, Limit, Receipt
    <3> QED
      BY <1>1, <2>1, <3>1, <3>2, <3>3, PlainCall DEF Serving
  <2> QED
    BY <1>2, <2>2, <2>3
<1>3. CASE /\ Insert(call[s].token)
           /\ Step(s, [call[s] EXCEPT !.pc = "answered", !.status = 201, !.quota = Len(quotas) + 1])
  <2> DEFINE id == Len(quotas) + 1
             created == 201
             c == [call[s] EXCEPT !.pc = "answered", !.status = created, !.quota = id]
  <2>1. quotas' = Append(quotas, 0) /\ quotas \in Seq(Nat) /\ Len(quotas) \in Nat
    BY <1>3, LenProperties DEF Insert, Serving, Counted
  <2>2. /\ quotas' \in Seq(Nat) /\ DOMAIN quotas \subseteq DOMAIN quotas'
        /\ \A q \in DOMAIN quotas : quotas'[q] = quotas[q]
    <3>1. /\ DOMAIN quotas = 1..Len(quotas) /\ DOMAIN quotas' = 1..Len(quotas')
          /\ quotas' \in Seq(Nat) /\ Len(quotas') = Len(quotas) + 1
          /\ \A q \in 1..Len(quotas) : quotas'[q] = quotas[q]
      BY <2>1, AppendProperties, LenProperties
    <3> QED
      BY <2>1, <3>1
  <2>3. \A q \in DOMAIN quotas : quotas[q] <= quotas'[q]
    BY <2>1, <2>2, ElementOfSeq
  <2>5. call' = [call EXCEPT ![s] = c]
    BY <1>3 DEF Step
  <2>9. id \in Nat /\ created \in Nat /\ created # 200 /\ created # 400
    BY <2>1
  <2> HIDE DEF id, created
  <2>10. c = [call[s] EXCEPT !.pc = "answered", !.status = created, !.quota = id]
    OBVIOUS
  <2> HIDE DEF c
  <2>4. c \in CallRec /\ c.pc = "answered" /\ c.status = created /\ c.earlier = call[s].earlier
    <3>1. call[s] \in CallRec
      BY <1>1
    <3> QED
      BY <2>9, <2>10, <3>1 DEF CallRec
  <2> HIDE DEF c
  <2>6. CallOk(c, quotas', spent) /\ Limit(c, scen.flags, bench) /\ ~Receipt(c)
    BY <1>1, <2>4, <2>9 DEF CallOk, Limit, Receipt
  <2>7. \A o \in Slots \ {s} : Apart(c, call[o])
    BY <2>6 DEF Apart
  <2>8. Counted'
    BY <1>1, <2>2 DEF Serving, Counted
  <2> QED
    BY <1>1, <2>1, <2>2, <2>3, <2>4, <2>5, <2>6, <2>7, <2>8, OneCall DEF Serving
<1> QED
  BY <1>2, <1>3 DEF InsertToken

\* A handler that finds its quota keeps it, whatever the store does next.
LEMMA CallGet == ASSUME Serving, NEW s \in Slots, GetQuota(s) PROVE CallsOk' /\ Counted'
<1>1. /\ call[s].pc = "enter" /\ call[s].req.route \in {"status", "use"}
      /\ scen' = scen /\ bench' = bench /\ spent' = spent
      /\ call[s] \in CallRec /\ CallOk(call[s], quotas, spent) /\ Counted /\ CallsOk
  BY DEF GetQuota, startVars, Serving, CallsOk
<1> DEFINE t == call[s].req.token
<1>2. CASE t \notin DOMAIN byID
  <2>1. Answer(s, 404, 0) /\ quotas' = quotas /\ 0 \in Bodies
    BY <1>2 DEF GetQuota, storeVars, Bodies
  <2> QED
    BY <1>1, <2>1, Refusal
<1>3. CASE t \in DOMAIN byID
  <2> DEFINE c == [call[s] EXCEPT !.pc = call[s].req.route, !.quota = byID[t]]
  <2>1. /\ call' = [call EXCEPT ![s] = c] /\ quotas' = quotas
    BY <1>3 DEF GetQuota, Step
  <2>2. byID[t] \in DOMAIN quotas /\ byID[t] \in Nat
    BY <1>1, <1>3, LenProperties DEF Serving, Named, Counted
  <2>3. /\ c \in CallRec /\ c.pc = call[s].req.route /\ c.req = call[s].req
        /\ c.quota = byID[t] /\ c.earlier = call[s].earlier
    BY <1>1, <2>2 DEF CallRec
  <2> HIDE DEF c
  <2>4. CallOk(c, quotas, spent) /\ Limit(c, scen.flags, bench) /\ ~Receipt(c)
    BY <1>1, <2>2, <2>3 DEF CallOk, Limit, Receipt
  <2> QED
    BY <1>1, <2>1, <2>3, <2>4, PlainCall
<1> QED
  BY <1>2, <1>3

\* The status of a quota does not change it.
LEMMA CallStatus == ASSUME Serving, NEW s \in Slots, QuotaStatus(s) PROVE CallsOk' /\ Counted'
<1>1. /\ call[s].pc = "status"
      /\ scen' = scen /\ bench' = bench /\ spent' = spent /\ quotas' = quotas
      /\ call[s] \in CallRec /\ CallOk(call[s], quotas, spent) /\ Counted
      /\ Answer(s, 200, snapshot(call[s].quota))
  BY DEF QuotaStatus, startVars, storeVars, Serving, CallsOk
<1>2. call[s].req.route = "status" /\ quotas[call[s].quota] \in Nat
  BY <1>1, ElementOfSeq DEF CallOk, Counted
<1>3. snapshot(call[s].quota) \in Bodies
  BY <1>2 DEF snapshot, Bodies, demoQuotaLimit
<1> QED
  BY <1>1, <1>2, <1>3, Refusal

\* A quota found available has given no receipt, so none was given before the
\* request arrived.
LEMMA CallCheck == ASSUME Serving, NEW s \in Slots, CheckAvailable(s) PROVE CallsOk' /\ Counted'
<1>1. /\ call[s].pc = "use"
      /\ scen' = scen /\ bench' = bench /\ spent' = spent /\ quotas' = quotas
      /\ call[s] \in CallRec /\ CallOk(call[s], quotas, spent) /\ Counted /\ CallsOk
      /\ Calibrated
  BY DEF CheckAvailable, startVars, storeVars, Serving, CallsOk
<1>2. /\ call[s].req.route = "use" /\ call[s].quota \in DOMAIN quotas
      /\ call[s].earlier \subseteq spent
  BY <1>1 DEF CallOk
<1>3. CASE quotas[call[s].quota] < demoQuotaLimit
  <2> DEFINE c == [call[s] EXCEPT !.pc = "spin", !.n = eff.quota]
  <2>1. call' = [call EXCEPT ![s] = c]
    BY <1>3 DEF CheckAvailable, Step
  <2>2. eff.quota \in Int
    BY <1>1 DEF Calibrated
  <2>3. /\ c \in CallRec /\ c.pc = "spin" /\ c.req = call[s].req /\ c.quota = call[s].quota
        /\ c.earlier = call[s].earlier /\ c.n = eff.quota
    BY <1>1, <2>2 DEF CallRec
  <2> HIDE DEF c
  <2>4. call[s].quota \notin spent
    BY <1>2, <1>3, ElementOfSeq, <1>1 DEF Counted, demoQuotaLimit
  <2>5. CallOk(c, quotas, spent) /\ ~Receipt(c)
    BY <1>1, <1>2, <2>3, <2>4 DEF CallOk, Receipt
  <2>6. Limit(c, scen.flags, bench)
    BY <1>1, <1>2, <2>3 DEF Limit, Calibrated
  <2> QED
    BY <1>1, <2>1, <2>3, <2>5, <2>6, PlainCall
<1>4. CASE ~(quotas[call[s].quota] < demoQuotaLimit)
  <2>1. Answer(s, 409, 0) /\ 0 \in Bodies
    BY <1>4 DEF CheckAvailable, Bodies
  <2> QED
    BY <1>1, <2>1, Refusal
<1> QED
  BY <1>3, <1>4

\* Accepting a use gives out the next receipt: no other handler has it.
LEMMA CallSpin == ASSUME Serving, NEW s \in Slots, SpinEnds(s) PROVE CallsOk' /\ Counted'
<1>1. /\ call[s].pc = "spin" /\ scen' = scen /\ bench' = bench
      /\ call[s] \in CallRec /\ CallOk(call[s], quotas, spent) /\ Counted /\ CallsOk
  BY DEF SpinEnds, startVars, Serving, CallsOk
<1>2. CASE call[s].req.route # "use"
  <2>1. Answer(s, 204, 0) /\ quotas' = quotas /\ spent' = spent /\ 0 \in Bodies
    BY <1>2 DEF SpinEnds, storeVars, Bodies
  <2> QED
    BY <1>1, <1>2, <2>1, Refusal
<1>3. CASE call[s].req.route = "use"
  <2> DEFINE q == call[s].quota
             next == quotas[q] + 1
             given == 200
             c == [call[s] EXCEPT !.pc = "answered", !.status = given, !.body = next]
  <2>1. /\ quotas' = [quotas EXCEPT ![q] = next] /\ spent' = spent \cup {q}
        /\ call' = [call EXCEPT ![s] = c]
    BY <1>3 DEF SpinEnds, Answer, Step
  <2>2. q \in DOMAIN quotas /\ q \notin call[s].earlier /\ call[s].earlier \subseteq spent
    BY <1>1, <1>3 DEF CallOk
  <2>3. quotas \in Seq(Nat) /\ quotas[q] \in Nat /\ next \in Nat /\ quotas[q] < next
    BY <1>1, <2>2, ElementOfSeq DEF Counted
  <2>4. /\ quotas' \in Seq(Nat) /\ DOMAIN quotas' = DOMAIN quotas /\ quotas'[q] = next
        /\ \A p \in DOMAIN quotas : p # q => quotas'[p] = quotas[p]
    BY <2>1, <2>2, <2>3, ExceptSeq
  <2>5. ASSUME NEW p \in DOMAIN quotas PROVE quotas[p] <= quotas'[p]
    <3>1. quotas[p] \in Nat
      BY <2>3, ElementOfSeq
    <3> HIDE DEF next, q
    <3>2. CASE p = q
      BY <2>3, <2>4, <3>2
    <3>3. CASE p # q
      <4>1. quotas'[p] = quotas[p]
        BY <2>4, <3>3
      <4> QED
        BY <3>1, <4>1
    <3> QED
      BY <3>2, <3>3
  <2>6. next \in Bodies /\ given \in Nat /\ given # 400
    BY <2>3 DEF Bodies
  <2> HIDE DEF next, given
  <2>12. c = [call[s] EXCEPT !.pc = "answered", !.status = given, !.body = next]
    OBVIOUS
  <2> HIDE DEF c
  <2>7. /\ c \in CallRec /\ c.pc = "answered" /\ c.status = given /\ c.body = next
        /\ c.req = call[s].req /\ c.quota = q /\ c.earlier = call[s].earlier
    <3>1. call[s] \in CallRec
      BY <1>1
    <3> QED
      BY <2>6, <2>12, <3>1 DEF CallRec
  <2>8. CallOk(c, quotas', spent')
    BY <1>3, <2>1, <2>2, <2>3, <2>4, <2>7 DEF CallOk, Receipt
  <2>9. Limit(c, scen.flags, bench)
    BY <1>3, <2>6, <2>7 DEF Limit
  <2>10. ASSUME NEW o \in Slots \ {s} PROVE Apart(c, call[o])
    <3>1. CASE Receipt(call[o]) /\ call[o].quota = q
      <4>1. call[o].body \in Nat /\ call[o].body <= quotas[q]
        BY <1>1, <3>1 DEF CallsOk, CallOk
      <4>2. call[o].body # next
        BY <2>3, <4>1
      <4> QED
        BY <2>7, <4>2 DEF Apart
    <3> QED
      BY <2>7, <3>1 DEF Apart
  <2>11. Counted'
    <3>1. \A p \in spent' : p \in DOMAIN quotas' /\ quotas'[p] >= 1
      <4>1. ASSUME NEW p \in spent' PROVE p \in DOMAIN quotas' /\ quotas'[p] >= 1
        <5>1. CASE p = q
          BY <2>2, <2>3, <2>4, <5>1 DEF next
        <5>2. CASE p # q
          BY <1>1, <2>1, <2>4, <5>2 DEF Counted
        <5> QED
          BY <5>1, <5>2
      <4> QED
        BY <4>1
    <3> QED
      BY <2>4, <3>1 DEF Counted
  <2> QED
    BY <1>1, <2>1, <2>3, <2>4, <2>5, <2>7, <2>8, <2>9, <2>10, <2>11, OneCall
<1> QED
  BY <1>2, <1>3

\* The server's side hands an answer on.
LEMMA CallWritten == ASSUME Serving, NEW s \in Slots, ServerWrites(s) PROVE CallsOk' /\ Counted'
<1> DEFINE c == [call[s] EXCEPT !.sent = TRUE]
<1>1. /\ scen' = scen /\ bench' = bench /\ quotas' = quotas /\ spent' = spent
      /\ call' = [call EXCEPT ![s] = c]
      /\ call[s] \in CallRec /\ Counted /\ CallsOk
      /\ CallOk(call[s], quotas, spent) /\ Limit(call[s], scen.flags, bench)
  BY DEF ServerWrites, Step, startVars, storeVars, Serving, CallsOk
<1>2. /\ c \in CallRec /\ c.pc = call[s].pc /\ c.req = call[s].req /\ c.n = call[s].n
      /\ c.status = call[s].status /\ c.body = call[s].body /\ c.quota = call[s].quota
      /\ c.earlier = call[s].earlier
  BY <1>1 DEF CallRec
<1> HIDE DEF c
<1>3. CallOk(c, quotas, spent) /\ Limit(c, scen.flags, bench)
  BY <1>1, <1>2 DEF CallOk, Limit, Receipt
<1>4. \A o \in Slots \ {s} : Apart(c, call[o])
  <2>1. \A o \in Slots \ {s} : Apart(call[s], call[o])
    BY <1>1 DEF CallsOk
  <2>2. Receipt(c) = Receipt(call[s])
    BY <1>2 DEF Receipt
  <2> QED
    BY <1>2, <2>1, <2>2 DEF Apart
<1>5. quotas \in Seq(Nat) /\ \A q \in DOMAIN quotas : quotas[q] <= quotas[q]
  BY <1>1, ElementOfSeq DEF Counted
<1>6. Counted'
  BY <1>1 DEF Counted
<1> QED
  BY <1>1, <1>2, <1>3, <1>4, <1>5, <1>6, OneCall

-----------------------------------------------------------------------------
(* The quota store.                                                        *)

Entry == [token : Tokens \cup {"none"}, quota : Nat]
Kept == {recent[i].quota : i \in DOMAIN recent}

\* The list is in the order of the quotas' last uses, its map agrees with it, and
\* what it no longer holds has been followed by a store of others.
Listed ==
  /\ recent \in Seq(Entry) /\ Len(recent) <= QuotaStoreSize
  /\ DOMAIN byID = {recent[i].token : i \in DOMAIN recent}
  /\ \A i \in DOMAIN recent : byID[recent[i].token] = recent[i].quota
  /\ \A i, j \in DOMAIN recent : recent[i].token = recent[j].token => i = j
  /\ \A i, j \in DOMAIN recent : recent[i].quota = recent[j].quota => i = j
  /\ \A i \in DOMAIN recent : recent[i].quota \in 1..Len(quotas)

Followed ==
  /\ since \in Seq(SUBSET (1..Len(quotas))) /\ Len(since) = Len(quotas)
  /\ \A i, j \in DOMAIN recent : i < j => recent[i].quota \in since[recent[j].quota]
  /\ \A q \in DOMAIN quotas : q \notin Kept => Cardinality(since[q]) >= QuotaStoreSize

StoreInv == quotas \in Seq(Nat) /\ Listed /\ Followed

\* What the index names is a quota of the store.
LEMMA StoreInvNamed == ASSUME StoreInv PROVE Named
<1>1. DOMAIN quotas = 1..Len(quotas)
  BY LenProperties DEF StoreInv
<1>2. ASSUME NEW t \in DOMAIN byID PROVE byID[t] \in 1..Len(quotas)
  <2>1. PICK i \in DOMAIN recent : t = recent[i].token
    BY <1>2 DEF StoreInv, Listed
  <2> QED
    BY <2>1 DEF StoreInv, Listed
<1> QED
  BY <1>1, <1>2 DEF Named

\* The store keeps within its capacity.
LEMMA StoreInvBounded == ASSUME StoreInv PROVE StoreBounded
BY DEF StoreInv, Listed, Followed, StoreBounded, Kept

\* Using a quota only adds to what followed the others.
LEMMA TouchedGrows ==
  ASSUME StoreInv, NEW q \in Nat, NEW p \in 1..Len(quotas)
  PROVE  /\ DOMAIN Touched(q) = 1..Len(quotas)
         /\ p = q => Touched(q)[p] = {}
         /\ p # q => Touched(q)[p] = since[p] \cup {q}
         /\ since[p] \subseteq 1..Len(quotas) /\ IsFiniteSet(since[p])
         /\ p # q => Cardinality(Touched(q)[p]) >= Cardinality(since[p])
<1>1. DOMAIN since = 1..Len(quotas) /\ since[p] \in SUBSET (1..Len(quotas))
  BY LenProperties, ElementOfSeq DEF StoreInv, Followed
<1>2. IsFiniteSet(since[p])
  <2>1. IsFiniteSet(1..Len(quotas))
    BY FS_Interval, LenProperties DEF StoreInv
  <2> QED
    BY <1>1, <2>1, FS_Subset
<1>3. /\ DOMAIN Touched(q) = 1..Len(quotas)
      /\ p = q => Touched(q)[p] = {}
      /\ p # q => Touched(q)[p] = since[p] \cup {q}
  BY <1>1 DEF Touched
<1>4. IsFiniteSet(since[p] \cup {q}) /\ Cardinality(since[p] \cup {q}) >= Cardinality(since[p])
  BY <1>2, FS_AddElement, FS_CardinalityType
<1> QED
  BY <1>1, <1>2, <1>3, <1>4

\* The list with its entry h moved to the front.
Fronted(s, h) == <<s[h]>> \o RemoveAt(s, h)
\* Moving an entry to the front keeps every other entry and its order.
LEMMA MovedToFront ==
  ASSUME NEW S, NEW s \in Seq(S), NEW h \in 1..Len(s)
  PROVE  /\ Fronted(s, h) \in Seq(S) /\ Len(Fronted(s, h)) = Len(s)
         /\ Fronted(s, h)[1] = s[h]
         /\ \A i \in 2..h : Fronted(s, h)[i] = s[i - 1]
         /\ \A i \in (h + 1)..Len(s) : Fronted(s, h)[i] = s[i]
<1> DEFINE m == Fronted(s, h)
<1>0. m = <<s[h]>> \o RemoveAt(s, h)
  BY DEF Fronted
<1> HIDE DEF m
<1> DEFINE a == SubSeq(s, 1, h - 1)
           b == SubSeq(s, h + 1, Len(s))
<1>1. Len(s) \in Nat /\ h \in Nat /\ h >= 1 /\ h <= Len(s) /\ s[h] \in S
  BY LenProperties, ElementOfSeq
<1>2. \A i \in 1..(h - 1) : i \in 1..Len(s) /\ s[i] \in S
  BY <1>1, ElementOfSeq
<1>3. a \in Seq(S) /\ Len(a) = h - 1 /\ \A i \in 1..(h - 1) : a[i] = s[i]
  BY <1>1, <1>2, SubSeqProperties
<1>4. b \in Seq(S) /\ Len(b) = Len(s) - h /\ \A i \in 1..(Len(s) - h) : b[i] = s[h + i]
  BY <1>1, SubSeqProperties
<1>5. RemoveAt(s, h) = a \o b
  BY DEF RemoveAt
<1> HIDE DEF a, b
<1> DEFINE c == a \o b
<1>6. /\ c \in Seq(S) /\ Len(c) = Len(s) - 1
      /\ \A i \in 1..(h - 1) : c[i] = s[i]
      /\ \A i \in h..(Len(s) - 1) : c[i] = s[i + 1]
  <2>5. a \in Seq(S) /\ b \in Seq(S)
    BY <1>3, <1>4
  <2>1. /\ c \in Seq(S) /\ Len(c) = Len(a) + Len(b)
        /\ \A i \in 1..Len(a) + Len(b) : c[i] = IF i <= Len(a) THEN a[i] ELSE b[i - Len(a)]
    BY <2>5, ConcatProperties
  <2>6. Len(a) = h - 1 /\ Len(b) = Len(s) - h
    BY <1>3, <1>4
  <2>7. (h - 1) + (Len(s) - h) = Len(s) - 1
    BY <1>1
  <2> HIDE DEF c
  <2>3. Len(c) = Len(s) - 1
    BY <2>1, <2>6, <2>7
  <2>2. \A i \in 1..Len(c) : c[i] = IF i <= h - 1 THEN a[i] ELSE b[i - (h - 1)]
    BY <2>1, <2>6
  <2>4. ASSUME NEW i \in h..(Len(s) - 1) PROVE c[i] = s[i + 1]
    <3>1. /\ i \in 1..(Len(s) - 1) /\ ~(i <= h - 1)
          /\ i - (h - 1) \in 1..(Len(s) - h) /\ h + (i - (h - 1)) = i + 1
      BY <1>1
    <3>2. c[i] = b[i - (h - 1)]
      BY <2>2, <2>3, <3>1
    <3> QED
      BY <1>4, <3>1, <3>2
  <2>8. ASSUME NEW i \in 1..(h - 1) PROVE c[i] = s[i]
    <3>1. i \in 1..(Len(s) - 1) /\ i <= h - 1
      BY <1>1
    <3> QED
      BY <1>3, <2>2, <2>3, <3>1
  <2> QED
    BY <2>1, <2>3, <2>4, <2>8
<1> HIDE DEF c
<1> DEFINE u == <<s[h]>>
<1>7. m = u \o c
  BY <1>0, <1>5 DEF c
<1>8. u \in Seq(S) /\ Len(u) = 1 /\ u[1] = s[h]
  BY <1>1
<1> HIDE DEF u
<1>9. /\ m \in Seq(S) /\ Len(m) = 1 + (Len(s) - 1)
      /\ \A i \in 1..Len(m) : m[i] = IF i <= 1 THEN u[i] ELSE c[i - 1]
  <2>1. c \in Seq(S) /\ Len(c) = Len(s) - 1
    BY <1>6
  <2>4. u \in Seq(S) /\ c \in Seq(S)
    BY <1>8, <2>1
  <2>5. /\ u \o c \in Seq(S) /\ Len(u \o c) = Len(u) + Len(c)
        /\ \A i \in 1..Len(u) + Len(c) : (u \o c)[i] = IF i <= Len(u) THEN u[i] ELSE c[i - Len(u)]
    BY <2>4, ConcatProperties
  <2>2. /\ m \in Seq(S) /\ Len(m) = Len(u) + Len(c)
        /\ \A i \in 1..Len(u) + Len(c) : m[i] = IF i <= Len(u) THEN u[i] ELSE c[i - Len(u)]
    BY <1>7, <2>5, Zenon
  <2>3. Len(u) = 1 /\ 1 + (Len(s) - 1) = Len(s)
    BY <1>1, <1>8
  <2> QED
    BY <2>1, <2>2, <2>3
<1>10. Len(m) = Len(s)
  BY <1>1, <1>9
<1>11. m[1] = s[h]
  BY <1>1, <1>8, <1>9, <1>10
<1>12. ASSUME NEW i \in 2..h PROVE m[i] = s[i - 1]
  <2>1. m[i] = c[i - 1] /\ i - 1 \in 1..(h - 1)
    BY <1>1, <1>9, <1>10
  <2> QED
    BY <1>6, <2>1
<1>13. ASSUME NEW i \in (h + 1)..Len(s) PROVE m[i] = s[i]
  <2>1. m[i] = c[i - 1] /\ i - 1 \in h..(Len(s) - 1) /\ (i - 1) + 1 = i
    BY <1>1, <1>9, <1>10
  <2> QED
    BY <1>6, <2>1
<1> QED
  BY <1>9, <1>10, <1>11, <1>12, <1>13 DEF m

\* Lists with the same entries name the same tokens and quotas.
TokensOf(s, n) == {s[i].token : i \in 1..n}
QuotasOf(s, n) == {s[i].quota : i \in 1..n}
\* Lists with the same entries name the same tokens and quotas.
LEMMA SameEntries ==
  ASSUME NEW n, NEW a, NEW b,
         \A i \in 1..n : \E j \in 1..n : a[i] = b[j],
         \A j \in 1..n : \E i \in 1..n : a[i] = b[j]
  PROVE  TokensOf(a, n) = TokensOf(b, n) /\ QuotasOf(a, n) = QuotasOf(b, n)
<1>1. \A x : x \in TokensOf(a, n) <=> x \in TokensOf(b, n)
  BY SMT DEF TokensOf
<1>2. \A x : x \in QuotasOf(a, n) <=> x \in QuotasOf(b, n)
  BY SMT DEF QuotasOf
<1> QED
  BY <1>1, <1>2, Zenon

\* A hit: the list is permuted, in front the quota just used.
LEMMA StoreMove ==
  ASSUME StoreInv, NEW t \in DOMAIN byID,
         recent' = MoveToFront(byID[t]), since' = Touched(byID[t]), byID' = byID, quotas' = quotas
  PROVE  StoreInv'
<1> DEFINE q == byID[t]
           n == Len(recent)
           h == Position(q)
           p == [i \in 1..n |-> IF i = 1 THEN h ELSE IF i <= h THEN i - 1 ELSE i]
<1>1. /\ quotas \in Seq(Nat) /\ Listed /\ Followed /\ recent \in Seq(Entry)
      /\ n \in Nat /\ DOMAIN recent = 1..n
  BY LenProperties DEF StoreInv, Listed
<1>2. PICK x \in DOMAIN recent : recent[x].token = t /\ recent[x].quota = q
  BY <1>1 DEF Listed
<1>3. h \in 1..n /\ recent[h].quota = q
  BY <1>1, <1>2 DEF Position
<1>4. q \in 1..Len(quotas) /\ q \in Nat
  BY <1>1, <1>2, LenProperties DEF Listed
<1>5. recent' = Fronted(recent, h)
  BY Zenon DEF MoveToFront, Fronted
<1>6. since' = Touched(q)
  OBVIOUS
<1> HIDE DEF h, q
<1>7. /\ recent' \in Seq(Entry) /\ Len(recent') = n
      /\ recent'[1] = recent[h]
      /\ \A i \in 2..h : recent'[i] = recent[i - 1]
      /\ \A i \in (h + 1)..n : recent'[i] = recent[i]
  <2>1. recent \in Seq(Entry) /\ h \in 1..Len(recent)
    BY <1>1, <1>3
  <2> QED
    BY <1>5, <2>1, MovedToFront
<1>8. DOMAIN recent' = 1..n
  BY <1>7, LenProperties
<1>9. ASSUME NEW i \in 1..n PROVE p[i] \in 1..n /\ recent'[i] = recent[p[i]]
  <2>1. CASE i = 1
    BY <1>3, <1>7, <2>1
  <2>2. CASE i \in 2..h
    BY <1>1, <1>3, <1>7, <2>2
  <2>3. CASE i \in (h + 1)..n
    BY <1>1, <1>3, <1>7, <2>3
  <2> QED
    BY <1>1, <1>3, <2>1, <2>2, <2>3
<1>10. ASSUME NEW j \in 1..n PROVE \E i \in 1..n : p[i] = j
  <2>1. CASE j = h
    <3>1. 1 \in 1..n /\ p[1] = j
      BY <1>1, <2>1
    <3> QED
      BY <3>1
  <2>2. CASE j < h
    <3>1. j + 1 \in 1..n /\ p[j + 1] = j
      BY <1>1, <1>3, <2>2
    <3> QED
      BY <3>1
  <2>3. CASE j > h
    <3>1. p[j] = j
      BY <1>1, <1>3, <2>3
    <3> QED
      BY <3>1
  <2> QED
    BY <1>1, <1>3, <2>1, <2>2, <2>3
<1>11. ASSUME NEW i \in 1..n, NEW j \in 1..n, i < j
       PROVE  p[j] # h /\ p[i] # p[j] /\ (i # 1 => p[i] < p[j]) /\ (i = 1 => p[i] = h)
  BY <1>1, <1>3, <1>11
<1> HIDE DEF p
<1>12. \A i, j \in 1..n : p[i] = p[j] => i = j
  <2>1. \A i, j \in 1..n : i = j \/ i < j \/ j < i
    BY <1>1
  <2> QED
    BY <1>11, <2>1
<1>14. /\ \A i \in 1..n : \E j \in 1..n : recent'[i] = recent[j]
       /\ \A j \in 1..n : \E i \in 1..n : recent'[i] = recent[j]
  <2>1. ASSUME NEW i \in 1..n PROVE \E j \in 1..n : recent'[i] = recent[j]
    BY <1>9
  <2>2. ASSUME NEW j \in 1..n PROVE \E i \in 1..n : recent'[i] = recent[j]
    <3>1. PICK i \in 1..n : p[i] = j
      BY <1>10
    <3> QED
      BY <1>9, <3>1
  <2> QED
    BY <2>1, <2>2
<1>13. TokensOf(recent', n) = TokensOf(recent, n) /\ QuotasOf(recent', n) = QuotasOf(recent, n)
  BY <1>14, SameEntries
<1>15. Listed'
  <2>1. DOMAIN byID' = {recent'[i].token : i \in DOMAIN recent'}
    BY <1>1, <1>8, <1>13, Zenon DEF Listed, TokensOf
  <2>2. ASSUME NEW i \in 1..n PROVE byID'[recent'[i].token] = recent'[i].quota
    <3>1. p[i] \in DOMAIN recent /\ recent'[i] = recent[p[i]]
      BY <1>1, <1>9
    <3>2. byID[recent[p[i]].token] = recent[p[i]].quota
      BY <1>1, <3>1 DEF Listed
    <3> QED
      BY <3>1, <3>2
  <2>3. ASSUME NEW i \in 1..n, NEW j \in 1..n, recent'[i].token = recent'[j].token PROVE i = j
    <3>2. p[i] \in DOMAIN recent /\ p[j] \in DOMAIN recent /\ recent[p[i]].token = recent[p[j]].token
      BY <1>1, <1>9, <2>3
    <3>1. p[i] = p[j]
      BY <1>1, <3>2 DEF Listed
    <3> QED
      BY <1>12, <3>1
  <2>4. ASSUME NEW i \in 1..n, NEW j \in 1..n, recent'[i].quota = recent'[j].quota PROVE i = j
    <3>2. p[i] \in DOMAIN recent /\ p[j] \in DOMAIN recent /\ recent[p[i]].quota = recent[p[j]].quota
      BY <1>1, <1>9, <2>4
    <3>1. p[i] = p[j]
      BY <1>1, <3>2 DEF Listed
    <3> QED
      BY <1>12, <3>1
  <2>5. \A i \in 1..n : recent'[i].quota \in 1..Len(quotas')
    BY <1>1, <1>9 DEF Listed
  <2>6. Len(recent') <= QuotaStoreSize
    BY <1>1, <1>7 DEF Listed
  <2> QED
    BY <1>7, <1>8, <2>1, <2>2, <2>3, <2>4, <2>5, <2>6 DEF Listed
<1>16. /\ since' \in Seq(SUBSET (1..Len(quotas))) /\ Len(since') = Len(quotas)
  <2>1. Len(quotas) \in Nat
    BY <1>1, LenProperties
  <2>2. ASSUME NEW g \in 1..Len(quotas) PROVE since'[g] \in SUBSET (1..Len(quotas))
    BY <1>4, <1>6, <2>2, TouchedGrows
  <2>3. DOMAIN since' = 1..Len(quotas) /\ since' = [g \in 1..Len(quotas) |-> since'[g]]
    <3>1. DOMAIN since = 1..Len(quotas)
      BY <1>1, LenProperties DEF Followed
    <3> QED
      BY <1>6, <3>1 DEF Touched
  <2> QED
    BY <2>1, <2>2, <2>3
<1>17. ASSUME NEW i \in 1..n, NEW j \in 1..n, i < j
       PROVE  recent'[i].quota \in since'[recent'[j].quota]
  <2> DEFINE a == recent[p[i]].quota
             b == recent[p[j]].quota
  <2>1. /\ p[i] \in 1..n /\ p[j] \in 1..n /\ recent'[i].quota = a /\ recent'[j].quota = b
    BY <1>9
  <2>2. b \in 1..Len(quotas) /\ b # q
    BY <1>1, <1>3, <1>11, <1>17, <2>1 DEF Listed
  <2>3. since'[b] = since[b] \cup {q}
    BY <1>4, <1>6, <2>2, TouchedGrows
  <2>4. a = q \/ a \in since[b]
    BY <1>1, <1>3, <1>11, <1>17, <2>1 DEF Followed
  <2> QED
    BY <2>1, <2>3, <2>4
<1>18. ASSUME NEW g \in 1..Len(quotas), g \notin {recent'[i].quota : i \in 1..n}
       PROVE  Cardinality(since'[g]) >= QuotaStoreSize
  <2>1. g \notin Kept /\ g # q
    BY <1>1, <1>3, <1>13, <1>18 DEF Kept, QuotasOf
  <2>2. Cardinality(since[g]) >= QuotaStoreSize
    BY <1>1, <2>1, LenProperties DEF Followed
  <2>3. /\ Cardinality(since'[g]) >= Cardinality(since[g])
        /\ IsFiniteSet(since[g]) /\ since'[g] = since[g] \cup {q}
    BY <1>4, <1>6, <2>1, TouchedGrows
  <2>4. Cardinality(since'[g]) \in Nat /\ Cardinality(since[g]) \in Nat
    BY <2>3, FS_CardinalityType, FS_AddElement
  <2> QED
    BY <2>2, <2>3, <2>4, DemoAssumption
<1>19. Followed'
  <2>1. DOMAIN quotas' = 1..Len(quotas)
    BY <1>1, LenProperties
  <2> QED
    BY <1>8, <1>16, <1>17, <1>18, <2>1 DEF Followed, Kept
<1> QED
  BY <1>1, <1>15, <1>19 DEF StoreInv

\* A list with an entry put before it.
Put(e, s) == <<e>> \o s
\* An entry put before a list moves every other by one place.
LEMMA PutBefore ==
  ASSUME NEW S, NEW s \in Seq(S), NEW e \in S
  PROVE  /\ Put(e, s) \in Seq(S) /\ Len(Put(e, s)) = Len(s) + 1
         /\ Put(e, s)[1] = e
         /\ \A i \in 1..Len(s) : Put(e, s)[i + 1] = s[i]
<1> DEFINE u == <<e>>
           m == Put(e, s)
<1>1. m = u \o s
  BY DEF Put
<1>2. u \in Seq(S) /\ Len(u) = 1 /\ u[1] = e /\ Len(s) \in Nat
  BY LenProperties
<1> HIDE DEF u, m
<1>3. /\ u \o s \in Seq(S) /\ Len(u \o s) = Len(u) + Len(s)
      /\ \A i \in 1..Len(u) + Len(s) : (u \o s)[i] = IF i <= Len(u) THEN u[i] ELSE s[i - Len(u)]
  BY <1>2, ConcatProperties
<1>4. /\ m \in Seq(S) /\ Len(m) = 1 + Len(s)
      /\ \A i \in 1..1 + Len(s) : m[i] = IF i <= 1 THEN u[i] ELSE s[i - 1]
  BY <1>1, <1>2, <1>3
<1>5. m[1] = e
  BY <1>2, <1>4
<1>6. ASSUME NEW i \in 1..Len(s) PROVE m[i + 1] = s[i]
  <2>1. i + 1 \in 1..1 + Len(s) /\ ~(i + 1 <= 1) /\ (i + 1) - 1 = i
    BY <1>2
  <2> QED
    BY <1>4, <2>1
<1>7. Len(m) = Len(s) + 1
  BY <1>2, <1>4
<1> QED
  BY <1>4, <1>5, <1>6, <1>7 DEF m

\* A new quota: put in front, it drops the entry at the back of a full list,
\* which by then has been followed by all the others and the new one.
LEMMA StoreInsert ==
  ASSUME StoreInv, NEW token \in Tokens \cup {"none"}, token \notin DOMAIN byID, Insert(token)
  PROVE  StoreInv' /\ Len(quotas') = Len(quotas) + 1
<1> DEFINE L == Len(quotas)
           id == L + 1
           n == Len(recent)
           full == n = QuotaStoreSize
           m == IF full THEN n - 1 ELSE n
           kept == IF full THEN Front(recent) ELSE recent
           gone == IF full THEN {Last(recent).token} ELSE {}
           e == [token |-> token, quota |-> id]
           uses == Touched(id)
<1>1. /\ quotas \in Seq(Nat) /\ Listed /\ Followed /\ recent \in Seq(Entry)
      /\ n \in Nat /\ DOMAIN recent = 1..n /\ L \in Nat /\ DOMAIN quotas = 1..L
  BY LenProperties DEF StoreInv, Listed
<1>2. QuotaStoreSize \in Nat \ {0} /\ n <= QuotaStoreSize
  BY <1>1, DemoAssumption DEF Listed
<1>3. m \in Nat /\ m <= n /\ m < QuotaStoreSize /\ (full => n >= 1 /\ n = QuotaStoreSize)
  <2>1. CASE full
    BY <1>1, <1>2, <2>1
  <2>2. CASE ~full
    <3>1. n \in Nat /\ n # QuotaStoreSize /\ m = n
      BY <1>1, <2>2
    <3>2. n < QuotaStoreSize
      BY <1>2, <3>1
    <3> QED
      BY <2>2, <3>1, <3>2
  <2> QED
    BY <2>1, <2>2
<1>4. kept \in Seq(Entry) /\ Len(kept) = m /\ \A i \in 1..m : kept[i] = recent[i]
  <2>1. CASE full
    <3>1. \A i \in 1..(n - 1) : recent[i] \in Entry
      BY <1>1, ElementOfSeq
    <3>2. /\ SubSeq(recent, 1, n - 1) \in Seq(Entry)
          /\ Len(SubSeq(recent, 1, n - 1)) = n - 1
          /\ \A i \in 1..(n - 1) : SubSeq(recent, 1, n - 1)[i] = recent[i]
      BY <1>1, <1>3, <2>1, <3>1, SubSeqProperties
    <3> QED
      BY <2>1, <3>2 DEF Front
  <2>2. CASE ~full
    BY <1>1, <2>2
  <2> QED
    BY <2>1, <2>2
<1>5. e \in Entry /\ e.token = token /\ e.quota = id
  BY <1>1 DEF Entry
<1>6. recent' = Put(e, kept)
  BY Zenon DEF Insert, Put
<1>7. quotas' = Append(quotas, 0) /\ since' = Append(uses, {})
  BY Zenon DEF Insert
<1>8. byID' = [t \in (DOMAIN byID \ gone) \cup {token} |-> IF t = token THEN id ELSE byID[t]]
  BY Zenon DEF Insert
<1>9. gone = IF full THEN {recent[n].token} ELSE {}
  BY DEF Last
<1>10. full \/ m = n
  OBVIOUS
<1>11. full => m = n - 1
  OBVIOUS
<1>12. uses = Touched(id)
  OBVIOUS
<1> HIDE DEF kept, e, gone, m, uses, full
<1>13. /\ recent' \in Seq(Entry) /\ Len(recent') = m + 1 /\ recent'[1] = e
       /\ \A i \in 1..m : recent'[i + 1] = recent[i]
  <2>1. /\ recent' \in Seq(Entry) /\ Len(recent') = Len(kept) + 1
        /\ recent'[1] = e /\ \A i \in 1..Len(kept) : recent'[i + 1] = kept[i]
    <3>1. kept \in Seq(Entry) /\ e \in Entry
      BY <1>4, <1>5
    <3>2. /\ Put(e, kept) \in Seq(Entry) /\ Len(Put(e, kept)) = Len(kept) + 1
          /\ Put(e, kept)[1] = e /\ \A i \in 1..Len(kept) : Put(e, kept)[i + 1] = kept[i]
      BY <3>1, PutBefore
    <3> QED
      BY <1>6, <3>2, Zenon
  <2> QED
    BY <1>4, <2>1
<1>14. DOMAIN recent' = 1..(m + 1)
  BY <1>13, LenProperties
<1>15. /\ quotas' \in Seq(Nat) /\ Len(quotas') = id /\ DOMAIN quotas' = 1..id
  <2>1. quotas' \in Seq(Nat) /\ Len(quotas') = L + 1
    BY <1>1, <1>7, AppendProperties
  <2> QED
    BY <2>1, LenProperties
<1>16. ASSUME NEW i \in 1..(m + 1)
       PROVE  i = 1 \/ (i - 1 \in 1..m /\ i - 1 \in 1..n /\ recent'[i] = recent[i - 1])
  <2>1. CASE i # 1
    <3>1. i - 1 \in 1..m /\ i - 1 \in 1..n /\ (i - 1) + 1 = i
      BY <1>1, <1>3, <2>1
    <3> QED
      BY <1>13, <3>1
  <2> QED
    BY <2>1
<1>17. ASSUME NEW i \in 1..m
       PROVE  /\ i \in 1..n /\ recent[i].token \in DOMAIN byID /\ recent[i].token # token
              /\ recent[i].token \notin gone /\ recent[i].quota \in 1..L /\ recent[i].quota # id
  <2>1. i \in 1..n
    BY <1>1, <1>3
  <2>2. recent[i].token \in DOMAIN byID /\ recent[i].quota \in 1..L
    BY <1>1, <2>1 DEF Listed
  <2>3. recent[i].token # token
    BY <2>2
  <2>4. recent[i].quota # id
    BY <1>1, <2>2
  <2>5. ASSUME full PROVE recent[i].token # recent[n].token
    <3>1. m = n - 1 /\ n >= 1
      BY <1>3, <1>11, <2>5
    <3>2. n \in Nat
      BY <1>1
    <3>3. i # n /\ n \in 1..n
      BY <3>1, <3>2
    <3> QED
      BY <1>1, <2>1, <3>3 DEF Listed
  <2> QED
    BY <1>9, <2>1, <2>2, <2>3, <2>4, <2>5
<1>18. ASSUME NEW t \in DOMAIN byID, t \notin gone PROVE \E i \in 1..m : recent[i].token = t
  <2>1. PICK i \in 1..n : recent[i].token = t
    BY <1>1 DEF Listed
  <2>2. i \in 1..m
    <3>1. ASSUME full PROVE i # n
      BY <1>9, <1>18, <2>1, <3>1
    <3>2. n \in Nat
      BY <1>1
    <3>3. CASE full
      BY <1>3, <1>11, <2>1, <3>1, <3>2, <3>3
    <3>4. CASE ~full
      BY <1>10, <2>1, <3>4
    <3> QED
      BY <3>3, <3>4
  <2> QED
    BY <2>1, <2>2
<1>19. DOMAIN byID' = {recent'[i].token : i \in DOMAIN recent'}
  <2>1. ASSUME NEW i \in 1..(m + 1) PROVE recent'[i].token \in DOMAIN byID'
    BY <1>5, <1>8, <1>13, <1>16, <1>17
  <2>2. ASSUME NEW t \in DOMAIN byID' PROVE \E i \in 1..(m + 1) : recent'[i].token = t
    <3>1. CASE t = token
      <4>1. 1 \in 1..(m + 1) /\ recent'[1].token = t
        BY <1>3, <1>5, <1>13, <3>1
      <4> QED
        BY <4>1
    <3>2. CASE t # token
      <4>1. PICK i \in 1..m : recent[i].token = t
        BY <1>8, <1>18, <2>2, <3>2
      <4>2. i + 1 \in 1..(m + 1) /\ recent'[i + 1].token = t
        BY <1>3, <1>13, <4>1
      <4> QED
        BY <4>2
    <3> QED
      BY <3>1, <3>2
  <2>3. \A t : t \in DOMAIN byID' <=> t \in {recent'[i].token : i \in 1..(m + 1)}
    BY <2>1, <2>2
  <2> QED
    BY <1>14, <2>3
<1>20. ASSUME NEW i \in 1..(m + 1)
       PROVE  byID'[recent'[i].token] = recent'[i].quota /\ recent'[i].quota \in 1..id
  <2>1. CASE i = 1
    BY <1>1, <1>5, <1>8, <1>13, <2>1
  <2>2. CASE i # 1
    <3>1. i - 1 \in 1..m /\ recent'[i] = recent[i - 1]
      BY <1>16, <2>2
    <3>2. byID[recent[i - 1].token] = recent[i - 1].quota
      BY <1>1, <1>17, <3>1 DEF Listed
    <3>3. /\ recent[i - 1].token \in DOMAIN byID /\ recent[i - 1].token \notin gone
          /\ recent[i - 1].token # token /\ recent[i - 1].quota \in 1..id
      BY <1>1, <1>17, <3>1
    <3> QED
      BY <1>8, <3>1, <3>2, <3>3
  <2> QED
    BY <2>1, <2>2
<1>21. ASSUME NEW i \in 1..(m + 1), NEW j \in 1..(m + 1),
              recent'[i].token = recent'[j].token \/ recent'[i].quota = recent'[j].quota
       PROVE  i = j
  <2>1. CASE i = 1 \/ j = 1
    BY <1>5, <1>13, <1>16, <1>17, <1>21, <2>1
  <2>2. CASE i # 1 /\ j # 1
    <3>1. /\ i - 1 \in 1..m /\ recent'[i] = recent[i - 1]
          /\ j - 1 \in 1..m /\ recent'[j] = recent[j - 1]
      BY <1>16, <2>2
    <3>2. i - 1 \in 1..n /\ j - 1 \in 1..n
      BY <1>17, <3>1
    <3>3. i - 1 = j - 1
      BY <1>1, <1>21, <3>1, <3>2 DEF Listed
    <3> QED
      BY <1>3, <3>3
  <2> QED
    BY <2>1, <2>2
<1>22. Listed'
  <2>1. Len(recent') <= QuotaStoreSize
    BY <1>2, <1>3, <1>13
  <2> QED
    BY <1>13, <1>14, <1>15, <1>19, <1>20, <1>21, <2>1 DEF Listed
<1>23. /\ uses \in Seq(SUBSET (1..id)) /\ Len(uses) = L
       /\ \A g \in 1..L : /\ uses[g] = since[g] \cup {id} /\ since[g] \subseteq 1..L
                          /\ IsFiniteSet(since[g])
  <2>1. ASSUME NEW g \in 1..L
        PROVE  /\ DOMAIN uses = 1..L /\ uses[g] = since[g] \cup {id}
               /\ since[g] \subseteq 1..L /\ IsFiniteSet(since[g])
    <3>1. id \in Nat /\ g # id
      BY <1>1
    <3> QED
      BY <1>12, <3>1, TouchedGrows
  <2>2. DOMAIN uses = 1..L /\ uses = [g \in 1..L |-> uses[g]]
    <3>1. DOMAIN since = 1..L
      BY <1>1, LenProperties DEF Followed
    <3> QED
      BY <1>12, <3>1 DEF Touched
  <2>3. ASSUME NEW g \in 1..L PROVE uses[g] \in SUBSET (1..id)
    BY <1>1, <2>1
  <2> QED
    BY <1>1, <2>1, <2>2, <2>3
<1>24. /\ since' \in Seq(SUBSET (1..id)) /\ Len(since') = id
       /\ \A g \in 1..L : since'[g] = since[g] \cup {id}
  <2>1. {} \in SUBSET (1..id)
    OBVIOUS
  <2>2. /\ since' \in Seq(SUBSET (1..id)) /\ Len(since') = Len(uses) + 1
        /\ \A g \in 1..Len(uses) : since'[g] = uses[g]
    BY <1>7, <1>23, <2>1, AppendProperties
  <2> QED
    BY <1>23, <2>2
<1>25. ASSUME NEW i \in 1..(m + 1), NEW j \in 1..(m + 1), i < j
       PROVE  recent'[i].quota \in since'[recent'[j].quota]
  <2>1. j - 1 \in 1..m /\ recent'[j] = recent[j - 1]
    BY <1>3, <1>16, <1>25
  <2>2. recent[j - 1].quota \in 1..L /\ j - 1 \in 1..n
    BY <1>17, <2>1
  <2>3. since'[recent'[j].quota] = since[recent[j - 1].quota] \cup {id}
    BY <1>24, <2>1, <2>2
  <2>4. CASE i = 1
    BY <1>5, <1>13, <2>3, <2>4
  <2>5. CASE i # 1
    <3>1. i - 1 \in 1..n /\ recent'[i] = recent[i - 1] /\ i - 1 < j - 1
      BY <1>3, <1>16, <1>25, <2>5
    <3>2. recent[i - 1].quota \in since[recent[j - 1].quota]
      BY <1>1, <2>2, <3>1 DEF Followed
    <3> QED
      BY <2>3, <3>1, <3>2
  <2> QED
    BY <2>4, <2>5
<1>26. ASSUME NEW g \in 1..id, g \notin {recent'[i].quota : i \in 1..(m + 1)}
       PROVE  Cardinality(since'[g]) >= QuotaStoreSize
  <2>1. g # id
    <3>1. 1 \in 1..(m + 1) /\ recent'[1].quota = id
      BY <1>3, <1>5, <1>13
    <3> QED
      BY <1>26, <3>1
  <2>2. g \in 1..L
    BY <1>1, <2>1
  <2>3. since'[g] = since[g] \cup {id} /\ IsFiniteSet(since[g]) /\ id \notin since[g]
    <3>1. since[g] \subseteq 1..L
      BY <1>23, <2>2
    <3>2. id \notin 1..L
      BY <1>1
    <3> QED
      BY <1>23, <1>24, <2>2, <3>1, <3>2
  <2>4. Cardinality(since[g]) \in Nat /\ Cardinality(since'[g]) = Cardinality(since[g]) + 1
    BY <2>3, FS_AddElement, FS_CardinalityType
  <2>5. CASE g \notin Kept
    <3>1. Cardinality(since[g]) >= QuotaStoreSize
      BY <1>1, <2>2, <2>5 DEF Followed
    <3> QED
      BY <1>2, <2>4, <3>1
  <2>6. CASE g \in Kept
    <3>1. PICK x \in 1..n : recent[x].quota = g
      BY <1>1, <2>6 DEF Kept
    <3>2. x \notin 1..m
      <4>1. ASSUME x \in 1..m PROVE FALSE
        <5>1. x + 1 \in 1..(m + 1) /\ recent'[x + 1].quota = g
          BY <1>3, <1>13, <3>1, <4>1
        <5> QED
          BY <1>26, <5>1
      <4> QED
        BY <4>1
    <3>3. full /\ x = n /\ m = n - 1 /\ n = QuotaStoreSize
      <4>1. full
        BY <1>10, <3>1, <3>2
      <4>2. m = n - 1 /\ n = QuotaStoreSize /\ n >= 1
        BY <1>3, <1>11, <4>1
      <4>3. x = n
        BY <1>1, <3>1, <3>2, <4>2
      <4> QED
        BY <4>1, <4>2, <4>3
    <3> DEFINE f == [i \in 1..m |-> recent[i].quota]
    <3>4. ASSUME NEW i \in 1..m PROVE f[i] \in since[g]
      <4>1. i \in 1..n /\ n \in 1..n /\ i < n /\ recent[n].quota = g
        BY <1>1, <1>3, <3>1, <3>3
      <4> QED
        BY <1>1, <4>1 DEF Followed
    <3>5. ASSUME NEW i \in 1..m, NEW j \in 1..m, f[i] = f[j] PROVE i = j
      <4>1. i \in 1..n /\ j \in 1..n /\ recent[i].quota = recent[j].quota
        BY <1>1, <1>3, <3>5
      <4> QED
        BY <1>1, <4>1 DEF Listed
    <3>6. f \in Injection(1..m, since[g])
      BY <3>4, <3>5 DEF Injection, IsInjective
    <3>7. Cardinality(1..m) <= Cardinality(since[g])
      BY <2>3, <3>6, FS_Injection
    <3>8. Cardinality(1..m) = m
      BY <1>3, FS_Interval
    <3> QED
      BY <1>1, <1>2, <1>3, <2>4, <3>3, <3>7, <3>8
  <2> QED
    BY <2>5, <2>6
<1>27. Followed'
  BY <1>14, <1>15, <1>24, <1>25, <1>26 DEF Followed, Kept
<1> QED
  BY <1>1, <1>15, <1>22, <1>27 DEF StoreInv

-----------------------------------------------------------------------------
(* Start-up and shutdown of the demo server.                               *)

Division ==
  \A a \in Nat, b \in Nat \ {0} :
    /\ a \div b \in Nat /\ a % b \in Nat
    /\ a = (a \div b) * b + (a % b) /\ a % b < b
\* Division of naturals leaves a remainder below the divisor.
LEMMA DivisionHolds == Division
BY SMT DEF Division

\* The derived counts do at most, or at least, the work of the duration.
LEMMA IterationsFor ==
  ASSUME NEW b \in [iterations : Int, elapsed : Int], b.iterations >= 1, b.elapsed >= 1,
         NEW target \in Int, target > 0, NEW up \in BOOLEAN, ~(iterationsFor(b, target, up) < 0)
  PROVE  LET count == iterationsFor(b, target, up)
         IN /\ count \in Int /\ count > 0
            /\ up => count * b.elapsed >= target * b.iterations
            /\ ~up => count = 1 \/ count * b.elapsed <= target * b.iterations
<1> DEFINE product == b.iterations * target
           quotient == product \div b.elapsed
           remainder == product % b.elapsed
           calibrated == IF up THEN RoundUp(quotient, remainder) ELSE quotient
           count == iterationsFor(b, target, up)
<1>1. b.iterations \in Nat /\ b.elapsed \in Nat \ {0} /\ target \in Nat
  OBVIOUS
<1>2. product \in Nat /\ product = target * b.iterations /\ product > 0
  <2>1. \A x, y \in Nat : x >= 1 /\ y >= 1 => x * y \in Nat /\ x * y >= 1 /\ x * y = y * x
    OBVIOUS
  <2> QED
    BY <1>1, <2>1
<1>3. /\ quotient \in Nat /\ remainder \in Nat
      /\ product = quotient * b.elapsed + remainder /\ remainder < b.elapsed
  BY <1>1, <1>2, DivisionHolds DEF Division
<1>4. count = IF calibrated = 0 THEN 1 ELSE calibrated
  BY <1>1 DEF iterationsFor
<1> HIDE DEF product, quotient, remainder, count
<1>5. CASE ~up
  <2>1. calibrated = quotient
    BY <1>5
  <2>2. quotient * b.elapsed <= product
    <3>1. quotient * b.elapsed \in Int
      BY <1>1, <1>3
    <3> QED
      BY <1>2, <1>3, <3>1
  <2>3. count \in Int /\ count > 0 /\ (count = 1 \/ count = quotient)
    BY <1>3, <1>4, <2>1
  <2> QED
    BY <1>2, <1>5, <2>2, <2>3 DEF count
<1>6. CASE up
  <2>1. CASE remainder = 0
    <3>1. calibrated = quotient
      BY <1>6, <2>1 DEF RoundUp
    <3>2. quotient * b.elapsed = product
      <4>1. quotient * b.elapsed \in Int
        BY <1>1, <1>3
      <4> QED
        BY <1>2, <1>3, <2>1, <4>1
    <3>3. quotient # 0
      BY <1>1, <1>2, <3>2
    <3>4. count = quotient /\ count \in Int /\ count > 0
      BY <1>3, <1>4, <3>1, <3>3
    <3>5. quotient * b.elapsed >= product
      BY <1>2, <3>2
    <3> QED
      BY <1>2, <1>6, <3>4, <3>5 DEF count
  <2>2. CASE remainder # 0
    <3>1. calibrated = -1 \/ calibrated = quotient + 1
      BY <1>6, <2>2 DEF RoundUp
    <3>2. count = quotient + 1 /\ count \in Int /\ count > 0
      BY <1>3, <1>4, <3>1 DEF count
    <3>3. (quotient + 1) * b.elapsed = quotient * b.elapsed + b.elapsed
      BY <1>1, <1>3
    <3>4. quotient * b.elapsed \in Int
      BY <1>1, <1>3
    <3>5. quotient * b.elapsed + b.elapsed >= product
      BY <1>1, <1>2, <1>3, <3>4
    <3> QED
      BY <1>2, <1>6, <3>2, <3>3, <3>5 DEF count
  <2> QED
    BY <2>1, <2>2
<1> QED
  BY <1>5, <1>6

Early == {"parse", "resolve", "listen"}
Stages == Early \cup {"announce", "select", "shutdown", "await", "exited"}

\* The demo server at work.
DemoInv ==
  /\ scen \in Scenarios /\ stage \in Stages
  /\ bench \in [iterations : Int, elapsed : Int] /\ eff \in [work : Int, quota : Int]
  /\ stage \notin {"parse", "exited"} => validateDemoServerConfig(scen.flags)
  /\ stage \notin {"parse", "resolve", "exited"} => Calibrated
  /\ stage \in Early => way = [d \in Ways |-> Direction] /\ stopped = "no"
  /\ stage \in Early \cup {"announce"} => call = [s \in Slots |-> Idle]
  /\ \A s \in Slots : call[s].pc = "insert" => call[s].req.route = "create"
  /\ CallsOk /\ Counted /\ StoreInv /\ RelayInv

\* The invariant of the server includes that of its calls.
LEMMA DemoInvServing == ASSUME DemoInv PROVE Serving
BY StoreInvNamed DEF DemoInv, Serving, Running, Stages, Early

\* A connection nothing has crossed.
LEMMA FreshRelay ==
  ASSUME NEW delay \in Nat
  PROVE  Direction \in WayRec /\ \A d \in Ways : Faithful(d, Direction, "no", delay)
BY DEF Direction, WayRec, Chunk, Delivered, Faithful, Arrived, Waiting, Ended, Numbered, Read,
       Passed, Taken, InHand, Ways

\* Handlers that have nothing to do.
LEMMA IdleCalls ==
  ASSUME NEW counts, NEW given, NEW f, NEW b
  PROVE  CallOk(Idle, counts, given) /\ Limit(Idle, f, b) /\ ~Receipt(Idle)
BY DEF Idle, CallOk, Limit, Receipt

\* Before the first request: the handlers are idle, the store is empty.
LEMMA IdleServer ==
  ASSUME call = [s \in Slots |-> Idle], Counted PROVE CallsOk
<1>1. call \in [Slots -> CallRec]
  BY IdleRec
<1>2. \A s \in Slots : CallOk(call[s], quotas, spent) /\ Limit(call[s], scen.flags, bench)
  BY IdleCalls
<1>3. \A s, o \in Slots : s # o => Apart(call[s], call[o])
  BY IdleCalls DEF Apart
<1> QED
  BY <1>1, <1>2, <1>3 DEF CallsOk

\* An empty store is in order.
LEMMA EmptyStore ==
  ASSUME byID = <<>>, recent = <<>>, quotas = <<>>, since = <<>>, spent = {}
  PROVE  StoreInv /\ Counted
<1>1. DOMAIN byID = {} /\ DOMAIN recent = {} /\ DOMAIN quotas = {} /\ Len(quotas) = 0
  OBVIOUS
<1>2. Listed
  BY <1>1, DemoAssumption DEF Listed
<1>3. Followed
  BY <1>1 DEF Followed
<1> QED
  BY <1>1, <1>2, <1>3 DEF StoreInv, Counted

\* The server starts in order.
LEMMA DemoInvInit == ASSUME DemoInit(Scenarios) PROVE DemoInv
<1>1. /\ scen \in Scenarios /\ stage = "parse" /\ call = [s \in Slots |-> Idle]
      /\ bench \in [iterations : Int, elapsed : Int] /\ eff \in [work : Int, quota : Int]
      /\ byID = <<>> /\ recent = <<>> /\ quotas = <<>> /\ since = <<>> /\ spent = {}
      /\ way = [d \in Ways |-> Direction] /\ stopped = "no" /\ net \in [delay : Nat, variation : Nat]
  BY DEF DemoInit, None, RelayInit
<1>2. StoreInv /\ Counted
  BY <1>1, EmptyStore
<1>3. CallsOk
  BY <1>1, <1>2, IdleServer
<1>4. RelayInv
  BY <1>1, RelayInvInit
<1>5. \A s \in Slots : call[s].pc # "insert"
  BY <1>1 DEF Idle
<1> QED
  BY <1>1, <1>2, <1>3, <1>4, <1>5 DEF DemoInv, Stages, Early

\* The command's own steps leave the handlers and the store alone.
LEMMA MainKeeps ==
  ASSUME DemoInv, scen' = scen, bench' = bench, storeVars' = storeVars, call' = call, spent' = spent
  PROVE  /\ scen' \in Scenarios /\ CallsOk' /\ Counted' /\ StoreInv'
         /\ bench' \in [iterations : Int, elapsed : Int]
         /\ \A s \in Slots : call'[s].pc = "insert" => call'[s].req.route = "create"
<1>1. CallsOk' /\ Counted'
  BY DEF DemoInv, CallsOk, Counted, storeVars
<1>2. StoreInv'
  BY DEF DemoInv, StoreInv, Listed, Followed, Kept, storeVars
<1> QED
  BY <1>1, <1>2 DEF DemoInv

\* What leaves the relay alone keeps it as it is.
LEMMA RelayKeeps == ASSUME RelayInv, relayVars' = relayVars PROVE RelayInv'
BY DEF RelayInv, RelayTyped, relayVars

\* Parsing leaves a validated configuration.
LEMMA DemoParse == ASSUME DemoInv, ParseDemoServerArgs PROVE DemoInv'
<1>1. /\ stage = "parse" /\ stage' \in {"resolve", "exited"}
      /\ stage' = "resolve" => validateDemoServerConfig(scen.flags)
      /\ scen' = scen /\ bench' = bench /\ eff' = eff /\ storeVars' = storeVars
      /\ call' = call /\ spent' = spent /\ relayVars' = relayVars
  BY DEF ParseDemoServerArgs, Exit
<1>2. validateDemoServerConfig(scen.flags)' = validateDemoServerConfig(scen.flags)
  BY <1>1 DEF validateDemoServerConfig, validate
<1> QED
  BY <1>1, <1>2, MainKeeps, RelayKeeps DEF DemoInv, Stages, Early, relayVars

\* Announcing, failing and shutting down touch neither store nor calls.
LEMMA DemoAfter ==
  ASSUME DemoInv,
         \/ AnnounceDemoServer \/ Interrupt \/ ServeFails \/ ServeEnds \/ ShutdownDone \/ ServeReturns
  PROVE  DemoInv'
<1>1. /\ \/ stage' = stage
         \/ stage \notin Early /\ stage' = "exited"
         \/ stage \notin Early /\ stage # "exited" /\ stage' \in {"select", "shutdown", "await"}
      /\ scen' = scen /\ bench' = bench /\ eff' = eff /\ storeVars' = storeVars
      /\ call' = call /\ spent' = spent /\ relayVars' = relayVars
  BY DEF AnnounceDemoServer, Interrupt, ServeFails, ServeEnds, ShutdownDone, ServeReturns, Exit, Early
<1>2. /\ validateDemoServerConfig(scen.flags)' = validateDemoServerConfig(scen.flags)
      /\ Calibrated' = Calibrated
  BY <1>1 DEF validateDemoServerConfig, validate, Calibrated, limited
<1> QED
  BY <1>1, <1>2, MainKeeps, RelayKeeps DEF DemoInv, Stages, Early, relayVars

\* Listening gives the relay its delay.
LEMMA DemoListen == ASSUME DemoInv, Listen PROVE DemoInv'
<1>1. /\ stage = "listen" /\ stage' \in {"announce", "exited"}
      /\ scen' = scen /\ bench' = bench /\ eff' = eff /\ storeVars' = storeVars
      /\ call' = call /\ spent' = spent /\ way' = way /\ stopped' = stopped
      /\ stage' = "announce" \/ net' = net
  BY DEF Listen, Exit
<1>2. validateDemoServerConfig(scen.flags) /\ Calibrated
  BY <1>1 DEF DemoInv
<1>3. /\ validateDemoServerConfig(scen.flags)' = validateDemoServerConfig(scen.flags)
      /\ Calibrated' = Calibrated
  BY <1>1 DEF validateDemoServerConfig, validate, Calibrated, limited
<1>4. net' \in [delay : Nat, variation : Nat]
  <2>1. /\ scen.flags.rtt \in Nat /\ scen.flags.jitter \in Nat
    BY <1>2, ScenarioAssumption DEF DemoInv, validateDemoServerConfig
  <2>2. halfDurationRoundUp(scen.flags.rtt) \in Nat /\ scen.flags.jitter \div 2 \in Nat
    BY <2>1 DEF halfDurationRoundUp
  <2>3. \/ net' = net
        \/ net' = [delay |-> halfDurationRoundUp(scen.flags.rtt), variation |-> scen.flags.jitter \div 2]
    BY DEF Listen
  <2> QED
    BY <2>2, <2>3 DEF DemoInv, RelayInv, RelayTyped
<1>5. RelayInv'
  <2>1. way' = [d \in Ways |-> Direction] /\ stopped' = "no" /\ net'.delay \in Nat
    BY <1>1, <1>4 DEF DemoInv, Early
  <2>2. Direction \in WayRec /\ \A d \in Ways : Faithful(d, Direction, "no", net'.delay)
    BY <2>1, FreshRelay
  <2>3. \A d \in Ways : Faithful(d, way'[d], stopped', net'.delay)
    BY <2>1, <2>2
  <2>4. way' \in [Ways -> WayRec]
    BY <2>1, <2>2
  <2> QED
    BY <1>4, <2>1, <2>3, <2>4 DEF RelayInv, RelayTyped
<1> QED
  BY <1>1, <1>2, <1>3, <1>5, MainKeeps DEF DemoInv, Stages, Early

\* A benchmark counts iterations of a positive number.
LEMMA Benchmarked ==
  ASSUME NEW probe, NEW samples \in [1..SampleCount -> Measures],
         NEW b \in benchmarkDemoFixedWork(probe, samples)
  PROVE  b \in [iterations : Int, elapsed : Int] /\ b.iterations >= 1
<1>1. PICK n \in Settled(probe), m \in Median(samples) : b = [iterations |-> n, elapsed |-> m]
  BY DEF benchmarkDemoFixedWork
<1>2. n \in Initial..(2 * ProbeMaximum)
  BY DEF Settled, Probes
<1>3. n \in Int /\ n >= 1
  BY <1>2, DemoAssumption
<1>4. m \in Int
  BY DemoAssumption DEF Median, Range
<1> QED
  BY <1>1, <1>3, <1>4

\* Resolving leaves a calibrated configuration, or the process exits.
LEMMA DemoResolve == ASSUME DemoInv, Resolve PROVE DemoInv'
<1> DEFINE f == scen.flags
<1>1. /\ stage = "resolve" /\ stage' \in {"listen", "exited"}
      /\ scen' = scen /\ storeVars' = storeVars
      /\ call' = call /\ spent' = spent /\ relayVars' = relayVars
      /\ validateDemoServerConfig(f)
      /\ call = [s \in Slots |-> Idle]
  BY DEF Resolve, Exit, DemoInv, Early
<1>2. validateDemoServerConfig(scen.flags)' = validateDemoServerConfig(scen.flags)
  BY <1>1 DEF validateDemoServerConfig, validate
<1>3. /\ f.quota \in Int /\ f.timing.maximum \in Int /\ f.timing.unlimited \in BOOLEAN
      /\ scen \in Scenarios
  BY ScenarioAssumption DEF DemoInv
<1>4. /\ bench' \in [iterations : Int, elapsed : Int] /\ eff' \in [work : Int, quota : Int]
      /\ stage' # "exited" => Calibrated'
  <2>1. CASE UNCHANGED <<bench, eff>> /\ stage' = "exited"
    BY <2>1 DEF DemoInv
  <2>2. CASE ~NeedsBenchmark(f) /\ UNCHANGED <<bench, eff>>
    <3>1. ~limited(f.timing) /\ ~(f.quota > 0)
      BY <2>2 DEF NeedsBenchmark
    <3> QED
      BY <1>1, <1>2, <2>2, <3>1 DEF DemoInv, Calibrated
  <2>3. ASSUME NEW probe \in [Probes -> Measures], NEW samples \in [1..SampleCount -> Measures],
               NEW b \in benchmarkDemoFixedWork(probe, samples),
               b.elapsed > 0, ~(Counts(f, b).work < 0), ~(Counts(f, b).quota < 0),
               bench' = b, eff' = Counts(f, b)
        PROVE  bench' \in [iterations : Int, elapsed : Int] /\ eff' \in [work : Int, quota : Int] /\ Calibrated'
    <3>1. b \in [iterations : Int, elapsed : Int] /\ b.iterations >= 1 /\ b.elapsed >= 1
      BY <2>3, Benchmarked
    <3> DEFINE work == iterationsFor(b, f.timing.maximum, FALSE)
               quota == iterationsFor(b, f.quota, TRUE)
    <3>2. /\ eff'.work = (IF limited(f.timing) THEN work ELSE 0)
          /\ eff'.quota = (IF f.quota > 0 THEN quota ELSE 0)
          /\ eff' = [work |-> eff'.work, quota |-> eff'.quota]
      BY <2>3 DEF Counts
    <3>3. limited(f.timing) =>
            /\ work \in Int /\ work > 0
            /\ work = 1 \/ work * b.elapsed <= f.timing.maximum * b.iterations
      <4>1. ASSUME limited(f.timing) PROVE ~(work < 0) /\ f.timing.maximum > 0
        BY <2>3, <3>2, <4>1 DEF limited
      <4> QED
        BY <1>3, <3>1, <4>1, IterationsFor
    <3>4. f.quota > 0 => /\ quota \in Int /\ quota > 0
                         /\ quota * b.elapsed >= f.quota * b.iterations
      <4>1. ASSUME f.quota > 0 PROVE ~(quota < 0)
        BY <2>3, <3>2, <4>1
      <4> QED
        BY <1>3, <3>1, <4>1, IterationsFor
    <3> HIDE DEF work, quota
    <3>5. eff'.work \in Int /\ eff'.quota \in Int
      BY <3>2, <3>3, <3>4
    <3>6. eff' \in [work : Int, quota : Int]
      BY <3>2, <3>5
    <3> QED
      BY <1>1, <1>2, <2>3, <3>1, <3>2, <3>3, <3>4, <3>6 DEF Calibrated
  <2>4. \/ UNCHANGED <<bench, eff>> /\ stage' = "exited"
        \/ ~NeedsBenchmark(f) /\ UNCHANGED <<bench, eff>>
        \/ \E probe \in [Probes -> Measures], samples \in [1..SampleCount -> Measures] :
             \E b \in benchmarkDemoFixedWork(probe, samples) :
               /\ b.elapsed > 0 /\ ~(Counts(f, b).work < 0) /\ ~(Counts(f, b).quota < 0)
               /\ bench' = b /\ eff' = Counts(f, b)
    <3>1. CASE ~NeedsBenchmark(f) /\ UNCHANGED <<bench, eff>>
      BY <3>1
    <3>2. CASE NeedsBenchmark(f) /\ ~(~NeedsBenchmark(f) /\ UNCHANGED <<bench, eff>>)
      <4>5. PICK b \in UNION {benchmarkDemoFixedWork(probe, samples) :
                              probe \in [Probes -> Measures], samples \in [1..SampleCount -> Measures]} :
              LET c == IF b.elapsed <= 0 THEN [work |-> -1, quota |-> -1] ELSE Counts(f, b)
              IN IF c.work < 0 \/ c.quota < 0 \/ c.quota > QuotaWorkMaximum
                 THEN Exit("calibration") /\ UNCHANGED <<bench, eff>>
                 ELSE bench' = b /\ eff' = c /\ stage' = "listen" /\ UNCHANGED result
        BY <3>2 DEF Resolve
      <4> DEFINE c == IF b.elapsed <= 0 THEN [work |-> -1, quota |-> -1] ELSE Counts(f, b)
      <4>1. PICK probe \in [Probes -> Measures], samples \in [1..SampleCount -> Measures] :
              b \in benchmarkDemoFixedWork(probe, samples)
        OBVIOUS
      <4>2. b.elapsed \in Int
        BY <4>1, Benchmarked
      <4>3. CASE c.work < 0 \/ c.quota < 0 \/ c.quota > QuotaWorkMaximum
        BY <4>3, <4>5 DEF Exit
      <4>4. CASE ~(c.work < 0 \/ c.quota < 0 \/ c.quota > QuotaWorkMaximum)
        <5>1. b.elapsed > 0 /\ c = Counts(f, b)
          BY <4>2, <4>4
        <5>2. bench' = b /\ eff' = c
          BY <4>4, <4>5
        <5> QED
          BY <4>1, <4>4, <5>1, <5>2
      <4> QED
        BY <4>3, <4>4
    <3> QED
      BY <3>1, <3>2 DEF Resolve
  <2> QED
    BY <2>1, <2>2, <2>3, <2>4
<1>5. StoreInv' /\ Counted' /\ RelayInv'
  <2>1. StoreInv' /\ Counted'
    BY <1>1 DEF DemoInv, StoreInv, Listed, Followed, Kept, storeVars, Counted
  <2> QED
    BY <1>1, <2>1, RelayKeeps DEF DemoInv
<1>6. CallsOk'
  <2>1. call' = [s \in Slots |-> Idle]
    BY <1>1
  <2>2. call' \in [Slots -> CallRec]
    BY <2>1, IdleRec
  <2>3. \A s \in Slots : CallOk(call'[s], quotas', spent') /\ Limit(call'[s], scen'.flags, bench')
    BY <2>1, IdleCalls
  <2>4. \A s, o \in Slots : s # o => Apart(call'[s], call'[o])
    BY <2>1, IdleCalls DEF Apart
  <2> QED
    BY <2>2, <2>3, <2>4 DEF CallsOk
<1> QED
  BY <1>1, <1>2, <1>4, <1>5, <1>6 DEF DemoInv, Stages, Early, relayVars

\* While the server runs its configuration stays as it is.
LEMMA ConfigurationKept ==
  ASSUME DemoInv, startVars' = startVars, stage \notin Early \cup {"announce"},
         \A s \in Slots : call'[s].pc = "insert" => call'[s].req.route = "create",
         CallsOk', Counted', StoreInv', RelayInv'
  PROVE  DemoInv'
<1>1. stage' = stage /\ scen' = scen /\ bench' = bench /\ eff' = eff
  BY DEF startVars
<1>2. /\ validateDemoServerConfig(scen.flags)' = validateDemoServerConfig(scen.flags)
      /\ Calibrated' = Calibrated
  BY <1>1 DEF validateDemoServerConfig, validate, Calibrated, limited
<1> QED
  BY <1>1, <1>2 DEF DemoInv

\* Only createQuota has a token to insert.
LEMMA OneDraw ==
  ASSUME DemoInv, NEW s \in Slots, NEW c, call' = [call EXCEPT ![s] = c],
         c.pc = "insert" => c.req.route = "create"
  PROVE  \A o \in Slots : call'[o].pc = "insert" => call'[o].req.route = "create"
<1>1. call'[s] = c /\ \A o \in Slots \ {s} : call'[o] = call[o]
  BY DEF DemoInv, CallsOk
<1> QED
  BY <1>1 DEF DemoInv

\* What leaves the store alone keeps it in order.
LEMMA StoreKeeps == ASSUME StoreInv, storeVars' = storeVars PROVE StoreInv'
BY DEF StoreInv, Listed, Followed, Kept, storeVars

\* A step of a handler that only concerns itself.
LEMMA HandlerKeeps ==
  ASSUME DemoInv, Running, startVars' = startVars, storeVars' = storeVars,
         NEW s \in Slots, NEW c, call' = [call EXCEPT ![s] = c],
         c.pc = "insert" => c.req.route = "create",
         CallsOk', Counted', RelayInv'
  PROVE  DemoInv'
<1>1. stage \notin Early \cup {"announce"}
  BY DEF Running, Early
<1>2. StoreInv'
  BY StoreKeeps DEF DemoInv
<1> QED
  BY <1>1, <1>2, OneDraw, ConfigurationKept

\* A request arrives at an idle slot.
LEMMA DemoArrive == ASSUME DemoInv, NEW s \in Slots, Arrive(s) PROVE DemoInv'
<1>1. PICK r \in Requests :
        call' = [call EXCEPT ![s] = [Idle EXCEPT !.pc = "enter", !.req = r, !.earlier = spent]]
  BY Zenon DEF Arrive
<1>2. Running /\ startVars' = startVars /\ storeVars' = storeVars /\ relayVars' = relayVars
  BY DEF Arrive, Running
<1>3. CallsOk' /\ Counted'
  BY DemoInvServing, CallArrive
<1>4. RelayInv'
  BY <1>2, RelayKeeps DEF DemoInv
<1>5. [Idle EXCEPT !.pc = "enter", !.req = r, !.earlier = spent].pc # "insert"
  BY DEF Idle
<1> QED
  BY <1>1, <1>2, <1>3, <1>4, <1>5, HandlerKeeps

\* What a handler's step does to its own record.
OneStep(s) ==
  \E c : call' = [call EXCEPT ![s] = c] /\ (c.pc = "insert" => c.req.route = "create")
\* A step of a handler changes one slot.
LEMMA StepSteps ==
  ASSUME NEW s \in Slots, NEW c, Step(s, c), c.pc = "insert" => c.req.route = "create"
  PROVE  OneStep(s)
BY Zenon DEF Step, OneStep

\* So does an answer.
LEMMA AnswerSteps ==
  ASSUME DemoInv, NEW s \in Slots, NEW code, NEW body, Answer(s, code, body)
  PROVE  OneStep(s)
<1> DEFINE c == [call[s] EXCEPT !.pc = "answered", !.status = code, !.body = body]
<1>1. call[s] \in CallRec
  BY DEF DemoInv, CallsOk
<1>2. c.pc # "insert"
  BY <1>1 DEF CallRec
<1>3. Step(s, c)
  BY Zenon DEF Answer
<1> HIDE DEF c
<1> QED
  BY <1>2, <1>3, StepSteps

\* The steps of a handler that leave the store alone.
LEMMA DemoPlain ==
  ASSUME DemoInv, NEW s \in Slots,
         EnterTiming(s) \/ EnterPlain(s) \/ DrawToken(s) \/ QuotaStatus(s) \/ CheckAvailable(s)
  PROVE  DemoInv'
<1>1. Running /\ startVars' = startVars /\ storeVars' = storeVars /\ relayVars' = relayVars
  <2>1. CASE EnterTiming(s)
    BY <2>1 DEF EnterTiming
  <2>2. CASE EnterPlain(s)
    BY <2>2 DEF EnterPlain
  <2>3. CASE DrawToken(s)
    BY <2>3, Zenon DEF DrawToken
  <2>4. CASE QuotaStatus(s)
    BY <2>4 DEF QuotaStatus
  <2>5. CASE CheckAvailable(s)
    BY <2>5 DEF CheckAvailable
  <2> QED
    BY <2>1, <2>2, <2>3, <2>4, <2>5
<1>2. call[s] \in CallRec
  BY DEF DemoInv, CallsOk
<1>3. OneStep(s)
  <2>1. CASE EnterTiming(s)
    <3> DEFINE c == [call[s] EXCEPT !.pc = "spin", !.n = call[s].req.value]
    <3>1. Answer(s, 403, 0) \/ Answer(s, 400, 0) \/ Step(s, c)
      BY <2>1 DEF EnterTiming
    <3>2. c.pc # "insert"
      BY <1>2 DEF CallRec
    <3> HIDE DEF c
    <3> QED
      BY <3>1, <3>2, AnswerSteps, StepSteps
  <2>2. CASE EnterPlain(s)
    BY <2>2, AnswerSteps DEF EnterPlain
  <2>3. CASE DrawToken(s)
    <3>1. CASE Answer(s, 500, 0)
      BY <3>1, AnswerSteps
    <3>2. ASSUME NEW t \in Tokens,
                 Step(s, [call[s] EXCEPT !.pc = "insert", !.token = t, !.tries = call[s].tries + 1])
          PROVE  OneStep(s)
      <4> DEFINE c == [call[s] EXCEPT !.pc = "insert", !.token = t, !.tries = call[s].tries + 1]
      <4>1. c.req.route = "create"
        <5>1. call[s].req.route = "create"
          BY <2>3, Zenon DEF DrawToken
        <5>2. c.req = call[s].req
          BY <1>2 DEF CallRec
        <5> QED
          BY <5>1, <5>2
      <4> HIDE DEF c
      <4>2. Step(s, c)
        BY <3>2 DEF c
      <4> QED
        BY <4>1, <4>2, StepSteps
    <3>3. \/ Answer(s, 500, 0)
          \/ \E t \in Tokens :
               Step(s, [call[s] EXCEPT !.pc = "insert", !.token = t, !.tries = call[s].tries + 1])
      BY <2>3, Zenon DEF DrawToken
    <3> QED
      BY <3>1, <3>2, <3>3, Zenon
  <2>4. CASE QuotaStatus(s)
    BY <2>4, AnswerSteps DEF QuotaStatus
  <2>5. CASE CheckAvailable(s)
    <3> DEFINE c == [call[s] EXCEPT !.pc = "spin", !.n = eff.quota]
    <3>1. Answer(s, 409, 0) \/ Step(s, c)
      BY <2>5 DEF CheckAvailable
    <3>2. c.pc # "insert"
      BY <1>2 DEF CallRec
    <3> HIDE DEF c
    <3> QED
      BY <3>1, <3>2, AnswerSteps, StepSteps
  <2> QED
    BY <2>1, <2>2, <2>3, <2>4, <2>5
<1>4. CallsOk' /\ Counted'
  BY DemoInvServing, CallTiming, CallPlain, CallDraw, CallStatus, CallCheck
<1>5. RelayInv'
  BY <1>1, RelayKeeps DEF DemoInv
<1> QED
  BY <1>1, <1>3, <1>4, <1>5, HandlerKeeps DEF OneStep

\* Inserting a token, which may evict the least recent quota.
LEMMA DemoInsert == ASSUME DemoInv, NEW s \in Slots, InsertToken(s) PROVE DemoInv'
<1>1. Running /\ startVars' = startVars /\ relayVars' = relayVars /\ call[s] \in CallRec
  BY DEF InsertToken, DemoInv, CallsOk
<1>2. CallsOk' /\ Counted'
  BY DemoInvServing, CallInsert DEF DemoInv
<1>3. RelayInv'
  BY <1>1, RelayKeeps DEF DemoInv
<1>4. stage \notin Early \cup {"announce"}
  BY <1>1 DEF Running, Early
<1>5. OneStep(s)
  <2> DEFINE again == [call[s] EXCEPT !.pc = "enter"]
             done == [call[s] EXCEPT !.pc = "answered", !.status = 201, !.quota = Len(quotas) + 1]
  <2>1. Answer(s, 500, 0) \/ Step(s, again) \/ Step(s, done)
    BY DEF InsertToken
  <2>2. again.pc # "insert" /\ done.pc # "insert"
    BY <1>1 DEF CallRec
  <2> HIDE DEF again, done
  <2> QED
    BY <2>1, <2>2, AnswerSteps, StepSteps
<1>6. StoreInv'
  <2>1. CASE call[s].token \in DOMAIN byID /\ UNCHANGED storeVars
    BY <2>1, StoreKeeps DEF DemoInv
  <2>2. CASE call[s].token \notin DOMAIN byID /\ Insert(call[s].token)
    <3>1. call[s].token \in Tokens \cup {"none"}
      BY <1>1, CallFields
    <3> QED
      BY <2>2, <3>1, StoreInsert DEF DemoInv
  <2> QED
    BY <2>1, <2>2 DEF InsertToken
<1> QED
  BY <1>1, <1>2, <1>3, <1>4, <1>5, <1>6, OneDraw, ConfigurationKept DEF OneStep

\* Looking up a token, which moves its quota to the front.
LEMMA DemoGet == ASSUME DemoInv, NEW s \in Slots, GetQuota(s) PROVE DemoInv'
<1>1. /\ Running /\ startVars' = startVars /\ relayVars' = relayVars /\ call[s] \in CallRec
      /\ call[s].req.route \in {"status", "use"}
  BY DEF GetQuota, DemoInv, CallsOk
<1>2. CallsOk' /\ Counted'
  BY DemoInvServing, CallGet
<1>3. RelayInv'
  BY <1>1, RelayKeeps DEF DemoInv
<1>4. stage \notin Early \cup {"announce"}
  BY <1>1 DEF Running, Early
<1> DEFINE t == call[s].req.token
           c == [call[s] EXCEPT !.pc = call[s].req.route, !.quota = byID[t]]
<1>5. OneStep(s)
  <2>1. Answer(s, 404, 0) \/ Step(s, c)
    BY DEF GetQuota
  <2>2. c.pc # "insert"
    BY <1>1 DEF CallRec
  <2> HIDE DEF c
  <2> QED
    BY <2>1, <2>2, AnswerSteps, StepSteps
<1>6. StoreInv'
  <2>1. CASE UNCHANGED storeVars
    BY <2>1, StoreKeeps DEF DemoInv
  <2>2. CASE /\ t \in DOMAIN byID
             /\ recent' = MoveToFront(byID[t]) /\ since' = Touched(byID[t])
             /\ UNCHANGED <<byID, quotas>>
    BY <2>2, StoreMove DEF DemoInv
  <2> QED
    BY <2>1, <2>2 DEF GetQuota
<1> QED
  BY <1>1, <1>2, <1>3, <1>4, <1>5, <1>6, OneDraw, ConfigurationKept DEF OneStep

\* The end of the fixed work, which may charge the quota.
LEMMA DemoSpin == ASSUME DemoInv, NEW s \in Slots, SpinEnds(s) PROVE DemoInv'
<1>1. Running /\ startVars' = startVars /\ relayVars' = relayVars
  BY DEF SpinEnds
<1>2. CallsOk' /\ Counted'
  BY DemoInvServing, CallSpin
<1>3. RelayInv'
  BY <1>1, RelayKeeps DEF DemoInv
<1>4. stage \notin Early \cup {"announce"}
  BY <1>1 DEF Running, Early
<1>5. OneStep(s)
  <2>1. Answer(s, 204, 0) \/ Answer(s, 200, quotas[call[s].quota] + 1)
    BY DEF SpinEnds
  <2> QED
    BY <2>1, AnswerSteps
<1>6. StoreInv'
  <2>1. /\ byID' = byID /\ recent' = recent /\ since' = since
        /\ DOMAIN quotas' = DOMAIN quotas
    BY DEF SpinEnds, storeVars
  <2>2. quotas' \in Seq(Nat)
    BY <1>2 DEF Counted
  <2>3. DOMAIN quotas' = 1..Len(quotas') /\ DOMAIN quotas = 1..Len(quotas)
        /\ Len(quotas') \in Nat /\ Len(quotas) \in Nat
    BY <2>2, LenProperties DEF DemoInv, StoreInv
  <2>4. Len(quotas') = Len(quotas)
    <3>1. \A a, b \in Nat : 1..a = 1..b => a = b
      <4>1. ASSUME NEW a \in Nat, NEW b \in Nat, 1..a = 1..b, a < b PROVE FALSE
        <5>1. b \in 1..b /\ b \notin 1..a
          BY <4>1
        <5> QED
          BY <4>1, <5>1
      <4>2. \A a, b \in Nat : a < b \/ b < a \/ a = b
        OBVIOUS
      <4> QED
        BY <4>1, <4>2
    <3>2. 1..Len(quotas') = 1..Len(quotas)
      BY <2>1, <2>3, Zenon
    <3> QED
      BY <2>3, <3>1, <3>2, Zenon
  <2> QED
    BY <2>1, <2>2, <2>4 DEF DemoInv, StoreInv, Listed, Followed, Kept
<1> QED
  BY <1>1, <1>2, <1>3, <1>4, <1>5, <1>6, OneDraw, ConfigurationKept DEF OneStep

\* Writing an answer sends it through the relay.
LEMMA DemoWritten == ASSUME DemoInv, NEW s \in Slots, ServerWrites(s) PROVE DemoInv'
<1> DEFINE c == [call[s] EXCEPT !.sent = TRUE]
<1>1. /\ Running /\ startVars' = startVars /\ storeVars' = storeVars /\ call[s] \in CallRec
      /\ call[s].pc = "answered" /\ call' = [call EXCEPT ![s] = c]
      /\ stopped' = stopped /\ net' = net
  BY DEF ServerWrites, Answered, DemoInv, CallsOk, Step
<1>2. c.pc # "insert"
  BY <1>1 DEF CallRec
<1>3. CallsOk' /\ Counted'
  BY DemoInvServing, CallWritten
<1>4. RelayInv'
  <2>1. CASE stopped = "no" /\ ~way["down"].eof
    <3>1. way' = [way EXCEPT !["down"] = Sent(way["down"])]
      BY <2>1 DEF ServerWrites
    <3>2. "down" \in Ways
      BY DEF Ways
    <3> QED
      BY <1>1, <2>1, <3>1, <3>2, RelaySent DEF DemoInv
  <2>2. CASE ~(stopped = "no" /\ ~way["down"].eof)
    <3>1. way' = way
      BY <2>2 DEF ServerWrites
    <3> QED
      BY <1>1, <3>1, RelayKeeps DEF DemoInv, relayVars
  <2> QED
    BY <2>1, <2>2
<1> HIDE DEF c
<1> QED
  BY <1>1, <1>2, <1>3, <1>4, HandlerKeeps

\* The connection's own steps leave the handlers alone.
LEMMA ConnectionKeeps ==
  ASSUME DemoInv, Running, startVars' = startVars, storeVars' = storeVars, call' = call, spent' = spent,
         RelayInv'
  PROVE  DemoInv'
<1>1. stage \notin Early \cup {"announce"}
  BY DEF Running, Early
<1>2. scen' = scen /\ bench' = bench
  BY DEF startVars
<1> QED
  BY <1>1, <1>2, MainKeeps, ConfigurationKept

\* The steps of the connection itself.
LEMMA DemoConnection ==
  ASSUME DemoInv, ClientSends \/ ClientCloses \/ ServerCloses \/ Relayed
  PROVE  DemoInv'
<1>1. Running /\ startVars' = startVars /\ storeVars' = storeVars /\ call' = call /\ spent' = spent
  <2>1. CASE ClientSends
    BY <2>1 DEF ClientSends, Running
  <2>2. CASE ClientCloses
    BY <2>2 DEF ClientCloses
  <2>3. CASE ServerCloses
    BY <2>3 DEF ServerCloses, Running
  <2>4. CASE Relayed
    BY <2>4 DEF Relayed
  <2> QED
    BY <2>1, <2>2, <2>3, <2>4
<1>2. RelayInv /\ "up" \in Ways /\ "down" \in Ways
  BY DEF DemoInv, Ways
<1>3. RelayInv'
  <2>1. CASE ClientSends
    <3>1. /\ stopped = "no" /\ ~way["up"].eof /\ stopped' = stopped /\ net' = net
          /\ way' = [way EXCEPT !["up"] = Sent(way["up"])]
      BY <2>1 DEF ClientSends
    <3> QED
      BY <1>2, <3>1, RelaySent
  <2>2. CASE ClientCloses
    BY <1>2, <2>2, RelayClosing DEF ClientCloses
  <2>3. CASE ServerCloses
    BY <1>2, <2>3, RelayClosing DEF ServerCloses
  <2>4. CASE Relayed
    BY <1>2, <2>4, RelayStepKeeps DEF Relayed
  <2> QED
    BY <2>1, <2>2, <2>3, <2>4
<1> QED
  BY <1>1, <1>3, ConnectionKeeps

\* Every step of the server keeps its invariant.
LEMMA DemoStep == ASSUME DemoInv, DemoNext PROVE DemoInv'
<1>1. CASE Main
  BY <1>1, DemoParse, DemoResolve, DemoListen, DemoAfter DEF Main
<1>2. CASE Interrupt \/ ServeFails
  BY <1>2, DemoAfter
<1>3. ASSUME NEW s \in Slots, Arrive(s) \/ Handler(s) \/ ServerWrites(s) PROVE DemoInv'
  BY <1>3, DemoArrive, DemoPlain, DemoInsert, DemoGet, DemoSpin, DemoWritten DEF Handler
<1>4. CASE ClientSends \/ ClientCloses \/ ServerCloses \/ Relayed
  BY <1>4, DemoConnection
<1> QED
  BY <1>1, <1>2, <1>3, <1>4 DEF DemoNext

-----------------------------------------------------------------------------
(* The process.                                                            *)

\* Another command leaves the demo server as it is before anything starts.
ProgramInv ==
  \/ invocation.command = "demo-server" /\ DemoInv
  \/ /\ invocation.command # "demo-server"
     /\ call = [s \in Slots |-> Idle] /\ Counted /\ StoreInv /\ RelayInv

\* The program starts in its invariant.
LEMMA ProgramInvInit == ASSUME Init PROVE ProgramInv
<1>1. CASE invocation = [command |-> "demo-server"] /\ DemoInit(Scenarios)
  BY <1>1, DemoInvInit DEF ProgramInv
<1>2. CASE (invocation = [command |-> "request"] \/ invocation \in Utilities) /\ DemoInit({NoScenario})
  <2>1. invocation.command # "demo-server"
    BY <1>2, UtilityAssumption
  <2>2. /\ call = [s \in Slots |-> Idle]
        /\ byID = <<>> /\ recent = <<>> /\ quotas = <<>> /\ since = <<>> /\ spent = {}
        /\ way = [d \in Ways |-> Direction] /\ stopped = "no" /\ net \in [delay : Nat, variation : Nat]
    BY <1>2 DEF DemoInit, RelayInit
  <2>3. StoreInv /\ Counted
    BY <2>2, EmptyStore
  <2>4. RelayInv
    BY <2>2, RelayInvInit
  <2> QED
    BY <2>1, <2>2, <2>3, <2>4 DEF ProgramInv
<1> QED
  BY <1>1, <1>2 DEF Init

\* The invariant depends on nothing but the variables of the server.
LEMMA DemoStutter ==
  ASSUME DemoInv, demoVars' = demoVars
  PROVE  DemoInv'
<1>1. /\ scen' = scen /\ bench' = bench /\ eff' = eff /\ stage' = stage /\ storeVars' = storeVars
      /\ call' = call /\ spent' = spent /\ relayVars' = relayVars
  BY DEF demoVars, startVars
<1>2. /\ validateDemoServerConfig(scen.flags)' = validateDemoServerConfig(scen.flags)
      /\ Calibrated' = Calibrated
  BY <1>1 DEF validateDemoServerConfig, validate, Calibrated, limited
<1> QED
  BY <1>1, <1>2, MainKeeps, RelayKeeps DEF DemoInv, relayVars

\* Every step of the program keeps the invariant.
LEMMA ProgramInvStep == ASSUME ProgramInv, [Next]_programVars PROVE ProgramInv'
<1>1. CASE ServeDemo
  <2>1. invocation.command = "demo-server" /\ DemoNext /\ invocation' = invocation
    BY <1>1 DEF ServeDemo
  <2> QED
    BY <2>1, DemoStep DEF ProgramInv
<1>2. CASE invocation' = invocation /\ demoVars' = demoVars
  <2>1. CASE invocation.command = "demo-server" /\ DemoInv
    BY <1>2, <2>1, DemoStutter DEF ProgramInv
  <2>2. CASE /\ invocation.command # "demo-server"
             /\ call = [s \in Slots |-> Idle] /\ Counted /\ StoreInv /\ RelayInv
    <3>1. call' = call /\ storeVars' = storeVars /\ spent' = spent /\ relayVars' = relayVars
      BY <1>2 DEF demoVars
    <3>2. Counted'
      BY <2>2, <3>1 DEF Counted, storeVars
    <3> QED
      BY <1>2, <2>2, <3>1, <3>2, StoreKeeps, RelayKeeps DEF ProgramInv
  <2> QED
    BY <2>1, <2>2 DEF ProgramInv
<1>3. ServeDemo \/ (invocation' = invocation /\ demoVars' = demoVars)
  <2>1. CASE Utility
    BY <2>1, Zenon DEF Utility
  <2>2. CASE PrepareRequests
    BY <2>2 DEF PrepareRequests
  <2>3. CASE Exited \/ programVars' = programVars
    BY <2>3 DEF Exited, programVars
  <2> QED
    BY <2>1, <2>2, <2>3 DEF Next
<1> QED
  BY <1>1, <1>2, <1>3

\* The invariant holds in every state of every behaviour.
LEMMA ProgramInvAlways == Spec => []ProgramInv
<1>1. Init => ProgramInv
  BY ProgramInvInit
<1>2. ProgramInv /\ [Next]_programVars => ProgramInv'
  BY ProgramInvStep
<1> QED
  BY <1>1, <1>2, PTL DEF Spec

\* What the invariant says of the handlers, the store and the relay.
LEMMA ProgramInvSays == ASSUME ProgramInv PROVE CallsOk /\ StoreInv /\ RelayInv
BY IdleServer DEF ProgramInv, DemoInv

\* The invariant of the calls implies the limits.
LEMMA CallsOkLimits == ASSUME CallsOk PROVE LimitsHonoured
<1>1. ASSUME NEW s \in Slots PROVE Limit(call[s], scen.flags, bench)
  BY DEF CallsOk
<1> QED
  BY <1>1 DEF LimitsHonoured, Limit

\* The invariant of the calls implies that overruns overlap.
LEMMA CallsOkOverruns == ASSUME CallsOk PROVE OverrunsOverlap
<1>1. ASSUME NEW s \in Slots PROVE CallOk(call[s], quotas, spent)
  BY DEF CallsOk
<1>2. ASSUME NEW s \in Slots, Receipt(call[s]) PROVE call[s].quota \notin call[s].earlier
  BY <1>1, <1>2 DEF CallOk
<1>3. ASSUME NEW s \in Slots, NEW o \in Slots \ {s}, Receipt(call[s]), Receipt(call[o]),
             call[o].quota = call[s].quota
      PROVE  call[o].body # call[s].body
  BY <1>3 DEF CallsOk, Apart
<1> QED
  BY <1>2, <1>3 DEF OverrunsOverlap, Receipt

\* RelayFaithful: with a propagation model, each direction of the connection
\* delivers a prefix of what was read, in order, each chunk exactly as old as
\* the one-way delay, and all of it when its own end stopped the relay
\* (readChunks, delayedCopy and waitUntil of internal/netdelay).
THEOREM RelayFaithfulHolds == Spec => []RelayFaithful
<1>1. ProgramInv => RelayFaithful
  BY ProgramInvSays, RelayInvFaithful
<1> QED
  BY <1>1, ProgramInvAlways, PTL

\* OverrunsOverlap: a quota gives out each receipt number once, and none to a
\* request that arrived after a receipt of the quota had been answered
\* (createQuota, quotaStatus and useQuota of demo_server_quota.go).
THEOREM OverrunsOverlapHolds == Spec => []OverrunsOverlap
<1>1. ProgramInv => OverrunsOverlap
  BY ProgramInvSays, CallsOkOverruns
<1> QED
  BY <1>1, ProgramInvAlways, PTL

\* WithinLimits: whatever the calibration found, a limit is a ceiling and a quota
\* target a floor for the work a request makes the server do, and the quota
\* store drops only what was used least recently.
THEOREM WithinLimitsHolds == Spec => []WithinLimits
<1>1. ProgramInv => WithinLimits
  BY ProgramInvSays, CallsOkLimits, StoreInvBounded DEF WithinLimits
<1> QED
  BY <1>1, ProgramInvAlways, PTL
=============================================================================
