------------------------ MODULE BatchAttemptProofs --------------------------
(***************************************************************************)
(* Proofs about BatchAttempt for every number and width of batches, with   *)
(* or without bodies: arrival ranks are the order of the wire, and batches *)
(* on one connection do not disturb each other.                            *)
(***************************************************************************)
EXTENDS BatchAttempt, FiniteSetTheorems, TLAPS

MainRec ==
  [at : {"start", "activate", "headers", "body", "abort", "read", "close", "closed"},
   batch : 1..Len(Width) + 1, got : Nat, streamErr : BOOLEAN,
   fatal : Causes \cup {"none"}, outcome : Endings \cup {"none"}]

PumpRec ==
  [at : {"read", "dispatch", "select", "ack", "retire", "fail", "dead"},
   frame : Frame, resp : Batches \cup {NoBatch}, delivered : BOOLEAN]

\* TypeOK, with names for the two records.
Typed ==
  /\ peer \in [Streams -> {"idle", "open", "headers", "ended", "reset"}]
  /\ wire \in Seq(Frame) /\ Len(wire) <= MaxWire
  /\ peerGone \in BOOLEAN /\ tlsClosed \in BOOLEAN
  /\ pump \in PumpRec
  /\ pumpErr \in {"none", "eof", "goaway", "orphan"} \cup Causes
  /\ response \in Batches \cup {NoBatch}
  /\ arrivals \in [Batches -> Nat]
  /\ collectors \subseteq Streams /\ rst \subseteq Streams
  /\ coll \in [Streams -> [at : {"off", "run", "done"}, seq : Nat \cup {-1}]]
  /\ cause \in [Batches -> Causes \cup {"none"}]
  /\ sendErr \subseteq Batches
  /\ results \in Seq(Streams \X {"ok", "reset", "malformed", "cancelled"})
  /\ main \in MainRec
  /\ order \in Seq(Streams)

\* attempt is between newResponseRead and its return.
AtWork == main.at \in {"activate", "headers", "body", "abort", "read"}
Over(b) == {s \in Of(b) : coll[s].at = "done"}

Shares ==
  /\ main.at \notin {"start", "closed"} => main.batch \in Batches
  /\ main.at = "start" => results = << >> /\ main.got = 0
  /\ \A s \in Streams :
       /\ coll[s].at = "run" => s[1] = main.batch /\ AtWork
       /\ s[1] > main.batch \/ (s[1] = main.batch /\ main.at = "start")
            => coll[s].at = "off" /\ coll[s].seq = -1
       /\ s[1] = main.batch /\ AtWork => coll[s].at # "off"
  /\ AtWork => main.got + Len(results) = Cardinality(Over(main.batch))

InOrder(s) == \E i \in 1..Len(order) : order[i] = s

Known(f) ==
  f.kind # "goaway" =>
    /\ f.stream \in Streams
    /\ peer[f.stream] # "idle"
    /\ f.end => peer[f.stream] \in {"ended", "reset"}
    /\ f.kind = "rst" => peer[f.stream] = "reset"
    /\ f.kind = "headers" => InOrder(f.stream)

Working == pump.at \in {"dispatch", "select", "ack", "retire"}

Addressed ==
  /\ response \in {NoBatch, main.batch}
  /\ main.at \in {"start", "activate"} => response = NoBatch
  /\ \A s \in Streams : peer[s] # "idle" =>
       s[1] < main.batch
       \/ (s[1] = main.batch /\ main.at \notin {"start", "activate", "headers"})
  /\ \A i \in 1..Len(wire) : Known(wire[i])
  /\ Working =>
       /\ Known(pump.frame)
       /\ pump.resp <= main.batch
       /\ pump.resp # NoBatch /\ pump.frame.kind # "goaway"
            => pump.frame.stream[1] <= pump.resp
  /\ pump.at \in {"select", "ack", "retire"} =>
       pump.resp # NoBatch /\ pump.frame.kind \in {"headers", "data"}

Holding == pump.at \in {"dispatch", "select"} /\ pump.frame.kind = "headers"
Pending(t) ==
  \/ \E i \in 1..Len(wire) : wire[i].kind = "headers" /\ wire[i].stream = t
  \/ Holding /\ pump.frame.stream = t
Ranked(s) == coll[s].seq >= 0

Ranks ==
  /\ \A i, j \in 1..Len(order) : order[i] = order[j] => i = j
  /\ \A s \in Streams : InOrder(s) => peer[s] \notin {"idle", "open"}
  /\ \A s \in Streams : Ranked(s) => InOrder(s) /\ coll[s].seq < arrivals[s[1]]
  /\ \A s, t \in Streams : Ranked(s) /\ Pending(t) => Before(s, t)
  /\ \A i, j \in 1..Len(wire) :
       i < j /\ wire[i].kind = "headers" /\ wire[j].kind = "headers"
         => Before(wire[i].stream, wire[j].stream)
  /\ Holding => \A i \in 1..Len(wire) :
       wire[i].kind = "headers" => Before(pump.frame.stream, wire[i].stream)
  /\ RanksFollowWire

Delivering(s) ==
  \/ pump.at \in {"fail", "dead"}
  \/ pump.at \in {"ack", "retire"} /\ pump.frame.stream = s /\ pump.frame.end /\ pump.delivered
Accepted(s) ==
  /\ coll[s].at = "done" /\ coll[s].seq >= 0
  /\ peer[s] \in {"ended", "reset"} /\ s \notin rst
  /\ s \in collectors => Delivering(s)
Listed(s) == \E i \in 1..Len(results) : results[i][1] = s

\* A stream that is marked reset was reset by the peer and is forgotten.
MarkedReset == \A s \in rst : peer[s] = "reset" /\ s \notin collectors

\* The results on their way to attempt are about its batch and say what happened.
ResultsRight ==
  \A i \in 1..Len(results) :
    LET s == results[i][1]
        kind == results[i][2]
    IN  /\ s \in Of(main.batch)
        /\ kind = "ok" => Accepted(s)
        /\ kind = "reset" => s \in rst
        /\ kind = "cancelled" => cause[main.batch] # "none"

\* As long as no result was fatal, a stream whose result has been taken was
\* accepted or reset.
NoneMissing ==
  main.at \in {"activate", "headers", "body", "read"} /\ main.fatal = "none" =>
    /\ \A s \in Of(main.batch) : coll[s].at = "done" =>
         Listed(s) \/ Accepted(s) \/ (s \in rst /\ main.streamErr)
    /\ main.streamErr => Of(main.batch) \cap rst # {}

FatalHasCause == main.fatal # "none" => main.batch \in Batches /\ cause[main.batch] # "none"

\* The streams of the batches that kept the connection.
EarlierOver ==
  \A s \in Streams : s[1] < main.batch => Accepted(s) \/ (s \in rst /\ coll[s].at = "done")

OutcomeRight ==
  main.outcome \in {"ok", "reset"} =>
    /\ main.batch - 1 \in Batches
    /\ main.outcome = "ok" => \A s \in Of(main.batch - 1) : Accepted(s)
    /\ main.outcome = "reset" => Of(main.batch - 1) \cap rst # {}

Verdicts ==
  /\ MarkedReset /\ ResultsRight /\ NoneMissing
  /\ FatalHasCause /\ EarlierOver /\ OutcomeRight

\* The send of a batch is told of a reset of one of its streams.
SendersTold == \A b \in sendErr : Of(b) \cap rst # {}

\* Only a batch that returned has that cause, and every batch that returned has one.
ReturnedEarlier ==
  \A b \in Batches : /\ cause[b] = "returned" => b < main.batch
                     /\ b < main.batch => cause[b] # "none"

\* A pump that waits for a collector serves the batch under way.
SelectFresh ==
  pump.at = "select" =>
    /\ cause[pump.resp] # "returned"
    /\ cause[pump.resp] = "none" =>
         pump.frame.stream \in collectors /\ pump.frame.stream[1] = pump.resp

\* A failing pump has an error, and tells the batch under way if any.
FailureTold ==
  /\ pumpErr # "returned"
  /\ pump.at \in {"fail", "dead"} => pumpErr # "none"
  /\ pump.at = "fail" => \/ pump.resp \in {NoBatch, main.batch}
                         \/ main.at \in {"start", "close", "closed"}

\* A stream whose end was delivered has its result.
DeliveredOver ==
  pump.at \in {"ack", "retire"} /\ pump.delivered /\ pump.frame.end =>
    coll[pump.frame.stream].at = "done"

\* A collector that waits for frames is known to the pump.
RunningKnown ==
  main.at \in {"activate", "headers", "body", "read"} /\ cause[main.batch] = "none" =>
    \A s \in Of(main.batch) : coll[s].at = "run" /\ s \notin rst => s \in collectors

Ends ==
  /\ SendersTold /\ ReturnedEarlier /\ SelectFresh /\ FailureTold
  /\ DeliveredOver /\ RunningKnown

-----------------------------------------------------------------------------
\* A stream belongs to one batch, and a batch has as many as its width.
LEMMA StreamFacts ==
  /\ \A s \in Streams : s[1] \in Batches /\ s \in Of(s[1])
  /\ \A b \in Batches : /\ Width[b] \in Nat \ {0}
                        /\ \A s \in Of(b) : s \in Streams /\ s[1] = b
                        /\ IsFiniteSet(Of(b)) /\ Cardinality(Of(b)) = Width[b]
  /\ NoBatch \notin Batches /\ NoStream \notin Streams
  /\ Len(Width) \in Nat \ {0} /\ Batches = 1..Len(Width)
<1>1. Len(Width) \in Nat \ {0} /\ \A b \in Batches : Width[b] \in Nat \ {0}
  BY BatchAssumption DEF Batches
<1>2. \A s \in Streams : s[1] \in Batches /\ s \in Of(s[1])
  BY DEF Streams, Of
<1>3. \A b \in Batches : \A s \in Of(b) : s \in Streams /\ s[1] = b
  BY DEF Streams, Of
<1>4. ASSUME NEW b \in Batches
      PROVE  IsFiniteSet(Of(b)) /\ Cardinality(Of(b)) = Width[b]
  <2>1. b \in Int /\ Width[b] \in Nat
    BY <1>1 DEF Batches
  <2>2. IsFiniteSet(1..Width[b]) /\ Cardinality(1..Width[b]) = Width[b]
    <3>1. \A n \in Nat \ {0} : IsFiniteSet(1..n) /\ Cardinality(1..n) = n
      BY FS_Interval
    <3> QED
      BY <1>1, <3>1
  <2>3. IsFiniteSet({b}) /\ Cardinality({b}) = 1
    BY FS_Singleton
  <2>4. /\ IsFiniteSet({b} \X (1..Width[b]))
        /\ Cardinality({b} \X (1..Width[b])) = Cardinality({b}) * Cardinality(1..Width[b])
    BY <2>2, <2>3, FS_Product
  <2> QED
    BY <2>1, <2>2, <2>3, <2>4 DEF Of
<1> QED
  BY <1>1, <1>2, <1>3, <1>4 DEF Batches, NoBatch, NoStream

\* The first cause of a batch's context stays.
LEMMA FirstCause ==
  ASSUME Typed, NEW b \in Batches, NEW v \in Causes, CancelBatch(b, v)
  PROVE  /\ cause' \in [Batches -> Causes \cup {"none"}]
         /\ cause'[b] = IF cause[b] = "none" THEN v ELSE cause[b]
         /\ \A c \in Batches \ {b} : cause'[c] = cause[c]
BY DEF Typed, CancelBatch

-----------------------------------------------------------------------------
(* Types *)

LEMMA TypedIs == Typed => TypeOK
BY DEF Typed, TypeOK, MainRec, PumpRec

\* How a frame leaves the pump after its delivery.
LEMMA CountTypes ==
  ASSUME Typed, NEW d \in BOOLEAN, CountArrival(d), pump.resp \in Batches
  PROVE  /\ arrivals' \in [Batches -> Nat]
         /\ pump' \in PumpRec
         /\ pump'.at = IF pump.frame.kind = "headers" THEN "retire" ELSE "ack"
         /\ pump'.frame = pump.frame /\ pump'.resp = pump.resp /\ pump'.delivered = d
<1>1. arrivals' \in [Batches -> Nat]
  BY DEF Typed, CountArrival
<1>2. PICK at \in {"ack", "retire"} : pump' = [pump EXCEPT !.at = at, !.delivered = d]
                              /\ at = IF pump.frame.kind = "headers" THEN "retire" ELSE "ack"
  BY DEF CountArrival
<1> QED
  BY <1>1, <1>2 DEF Typed, PumpRec

LEMMA MainTypes ==
  ASSUME Typed, Shares, Addressed, Verdicts,
         \/ Start \/ Close("start") \/ AttemptStep
  PROVE  Typed'
<1>1. CASE Start
  <2>1. main.batch \in Batches /\ main' \in MainRec
    <3>1. \E at \in {"close", "activate"}, o \in {"lost", "none"} :
            main' = NewMain(main.batch, at, o)
      BY <1>1 DEF Start
    <3> QED
      BY <1>1, <3>1 DEF Start, Typed, MainRec, NewMain, Endings
  <2>2. coll' \in [Streams -> [at : {"off", "run", "done"}, seq : Nat \cup {-1}]]
    <3>1. CASE coll' = coll
      BY <3>1 DEF Typed
    <3>2. CASE coll' # coll
      <4>1. coll' = [s \in Streams |->
               IF s \in Of(main.batch) THEN [coll[s] EXCEPT !.at = "run"] ELSE coll[s]]
        BY <1>1, <3>2 DEF Start
      <4>2. \A s \in Streams : coll'[s] \in [at : {"off", "run", "done"}, seq : Nat \cup {-1}]
        BY <4>1 DEF Typed
      <4> QED
        BY <4>1, <4>2
    <3> QED
      BY <3>1, <3>2
  <2> QED
    BY <1>1, <2>1, <2>2, StreamFacts DEF Typed, Start, pumpVars, peerVars
<1>2. ASSUME NEW at \in {"start", "close"}, Close(at)
      PROVE  Typed'
  <2>1. main' \in MainRec
    BY <1>2 DEF Typed, MainRec, Close
  <2> QED
    BY <1>2, <2>1 DEF Typed, Close, pumpVars, peerVars, batchVars, collVars
<1>3. CASE Activate
  <2>1. main.batch \in Batches
    BY <1>3 DEF Activate, Shares
  <2>2. CASE pumpErr # "none"
    <3>1. cause' \in [Batches -> Causes \cup {"none"}]
      BY <1>3, <2>1, <2>2, FirstCause DEF Activate, CloseAll, Causes
    <3>2. main' \in MainRec
      <4>1. main' = [main EXCEPT !.at = "abort", !.outcome = "lost"] /\ "lost" \in Endings
        BY <1>3, <2>2 DEF Activate, Endings
      <4> QED
        BY <4>1 DEF Typed, MainRec
    <3> QED
      BY <1>3, <2>2, <3>1, <3>2 DEF Typed, Activate, CloseAll, pumpVars, peerVars, batchVars, collVars
  <2>3. CASE pumpErr = "none"
    <3>1. main' \in MainRec
      <4>1. main' = [main EXCEPT !.at = "headers"]
        BY <1>3, <2>3 DEF Activate
      <4> QED
        BY <4>1 DEF Typed, MainRec
    <3> QED
      BY <1>3, <2>1, <2>3, <3>1 DEF Typed, Activate, pumpVars, peerVars, batchVars, collVars
  <2> QED
    BY <2>2, <2>3
<1>4. CASE FlushHeaders
  <2>1. main' \in MainRec
    BY <1>4 DEF Typed, MainRec, FlushHeaders
  <2> QED
    BY <1>4, <2>1 DEF Typed, FlushHeaders, pumpVars, peerVars, batchVars, collVars
<1>5. CASE FlushBody
  <2>1. main' \in MainRec
    BY <1>5 DEF Typed, MainRec, FlushBody
  <2> QED
    BY <1>5, <2>1 DEF Typed, FlushBody, pumpVars, peerVars, batchVars, collVars
<1>6. ASSUME NEW why \in Endings, SendFail(why)
      PROVE  Typed'
  <2>1. main.batch \in Batches
    BY <1>6 DEF SendFail, Shares
  <2>2. cause' \in [Batches -> Causes \cup {"none"}]
    BY <1>6, <2>1, FirstCause DEF SendFail, CloseAll, Causes
  <2>3. main' \in MainRec
    BY <1>6 DEF SendFail, Typed, MainRec
  <2> QED
    BY <1>6, <2>2, <2>3 DEF Typed, SendFail, CloseAll, pumpVars, peerVars, batchVars, collVars
<1>7. CASE AbortDrain
  <2> DEFINE n == main.got + 1
  <2>1. n \in Nat
    BY DEF Typed, MainRec
  <2>3. main' = [main EXCEPT !.got = n] \/ main' = [main EXCEPT !.at = "close"]
    BY <1>7 DEF AbortDrain
  <2> HIDE DEF n
  <2>4. main' \in MainRec
    <3>1. CASE main' = [main EXCEPT !.got = n]
      BY <2>1, <3>1 DEF Typed, MainRec
    <3>2. CASE main' = [main EXCEPT !.at = "close"]
      BY <3>2 DEF Typed, MainRec
    <3> QED
      BY <2>3, <3>1, <3>2
  <2>5. results' = results \/ (results # << >> /\ results' = Tail(results))
    BY <1>7 DEF AbortDrain
  <2>2. results' \in Seq(Streams \X {"ok", "reset", "malformed", "cancelled"})
    <3>1. \A T : \A q \in Seq(T) : q # << >> => Tail(q) \in Seq(T)
      OBVIOUS
    <3> DEFINE T == Streams \X {"ok", "reset", "malformed", "cancelled"}
    <3>2. results \in Seq(T)
      BY DEF Typed
    <3> HIDE DEF T
    <3>3. results' \in Seq(T)
      BY <2>5, <3>1, <3>2
    <3> QED
      BY <3>3 DEF T
  <2> QED
    BY <1>7, <2>4, <2>2 DEF Typed, AbortDrain, Retire, pumpVars, peerVars, batchVars, collVars
<1>8. CASE ReadResult
  <2> DEFINE kind == Head(results)[2]
  <2>1. main.batch \in Batches
    BY <1>8 DEF ReadResult, Shares
  <2>2. /\ results' = Tail(results)
        /\ results' \in Seq(Streams \X {"ok", "reset", "malformed", "cancelled"})
        /\ kind = results[1][2] /\ 1 \in 1..Len(results)
        /\ kind \in {"ok", "reset", "malformed", "cancelled"}
    BY <1>8 DEF ReadResult, Typed
  <2>3. CASE kind \in {"ok", "reset"} \/ main.fatal # "none"
    <3> DEFINE e == main.streamErr \/ kind = "reset"
               n == main.got + 1
    <3>1. main' = [main EXCEPT !.got = n, !.streamErr = e]
      BY <1>8, <2>3 DEF ReadResult
    <3>4. n \in Nat /\ e \in BOOLEAN
      BY DEF Typed, MainRec
    <3> HIDE DEF e, n, kind
    <3>2. UNCHANGED <<cause, collectors, tlsClosed>>
      BY <1>8, <2>3 DEF ReadResult, batchVars, kind
    <3>3. main' \in MainRec
      BY <3>1, <3>4 DEF Typed, MainRec
    <3> QED
      BY <1>8, <2>2, <3>2, <3>3 DEF Typed, ReadResult, pumpVars, peerVars
  <2>4. CASE ~(kind \in {"ok", "reset"} \/ main.fatal # "none")
    <3>1. /\ CancelBatch(main.batch, kind) /\ collectors' = {}
          /\ main' = [main EXCEPT !.got = @ + 1, !.fatal = cause'[main.batch]]
          /\ tlsClosed' = TRUE
      BY <1>8, <2>4 DEF ReadResult, CloseAll
    <3>2. kind = "malformed" \/ cause[main.batch] # "none"
      BY <2>2, <2>4 DEF Verdicts, ResultsRight
    <3>3. /\ cause' \in [Batches -> Causes \cup {"none"}]
          /\ cause'[main.batch] \in Causes \cup {"none"}
      <4>1. CASE kind = "malformed"
        BY <2>1, <3>1, <4>1, FirstCause DEF Causes
      <4>2. CASE cause[main.batch] # "none"
        BY <2>1, <3>1, <4>2 DEF CancelBatch, Typed
      <4> QED
        BY <3>2, <4>1, <4>2
    <3> DEFINE c == cause'[main.batch]
    <3> HIDE DEF kind, c
    <3>4. main' \in MainRec
      <4>1. main.got \in Nat
        BY DEF Typed, MainRec
      <4> DEFINE n == main.got + 1
      <4>2. main' = [main EXCEPT !.got = n, !.fatal = c]
        BY <3>1 DEF c
      <4>3. n \in Nat /\ c \in Causes \cup {"none"}
        BY <3>3, <4>1 DEF c
      <4> HIDE DEF n
      <4> QED
        BY <4>2, <4>3 DEF Typed, MainRec
    <3> QED
      BY <1>8, <2>2, <3>1, <3>3, <3>4 DEF Typed, ReadResult, pumpVars, peerVars
  <2> QED
    BY <2>3, <2>4
<1>9. CASE ReadDone
  <2> DEFINE o == IF main.fatal # "none" THEN main.fatal
                  ELSE IF main.streamErr THEN "reset" ELSE "ok"
  <2>1. Returns(main.batch, o, main.fatal = "none") /\ o \in Endings
    BY <1>9 DEF ReadDone, Endings, Typed, MainRec
  <2> HIDE DEF o
  <2>2. main.batch \in Batches /\ main.batch \in 1..Len(Width) /\ Len(Width) \in Nat
    BY <2>1, StreamFacts DEF Returns, Shares
  <2>3. cause' \in [Batches -> Causes \cup {"none"}]
    BY <2>1, <2>2, FirstCause DEF Returns, Causes
  <2>4. main' \in MainRec
    <3>1. CASE main.fatal = "none"
      <4>1. main' = NewMain(main.batch + 1, "start", o) /\ main.batch + 1 \in 1..Len(Width) + 1
        BY <2>1, <2>2, <3>1 DEF Returns
      <4> QED
        BY <2>1, <4>1 DEF NewMain, MainRec
    <3>2. CASE main.fatal # "none"
      BY <2>1, <3>2 DEF Returns, Typed, MainRec
    <3> QED
      BY <3>1, <3>2
  <2> QED
    BY <2>1, <2>3, <2>4 DEF Typed, Returns, Retire, pumpVars, peerVars, batchVars, collVars
<1> QED
  BY <1>1, <1>2, <1>3, <1>4, <1>5, <1>6, <1>7, <1>8, <1>9 DEF AttemptStep

LEMMA PumpTypes ==
  ASSUME Typed, Addressed, PumpStep
  PROVE  Typed'
<1> USE StreamFacts
<1>1. CASE PumpRead
  <2>1. Head(wire) \in Frame /\ wire' = Tail(wire) /\ wire' \in Seq(Frame) /\ Len(wire') <= MaxWire
    BY <1>1, BatchAssumption DEF PumpRead, Typed
  <2> DEFINE f == Head(wire)
  <2>2. pump' = [at |-> "dispatch", frame |-> f, resp |-> response, delivered |-> FALSE]
    BY <1>1 DEF PumpRead
  <2> HIDE DEF f
  <2>3. pump' \in PumpRec
    BY <2>1, <2>2 DEF f, Typed, PumpRec
  <2> QED
    BY <1>1, <2>1, <2>3 DEF Typed, PumpRead, batchVars, collVars
<1>2. ASSUME NEW e \in {"eof", "goaway", "orphan"} \cup Causes, Fails(e)
      PROVE  pump' \in PumpRec /\ pumpErr' \in {"none", "eof", "goaway", "orphan"} \cup Causes
  BY <1>2 DEF Fails, Typed, PumpRec
<1>3. CASE PumpEOF
  BY <1>2, <1>3 DEF Typed, PumpEOF, peerVars, batchVars, collVars
<1>4. CASE PumpFatal
  BY <1>2, <1>4 DEF Typed, PumpFatal, peerVars, batchVars, collVars
<1>5. \A at \in {"read", "dispatch", "select", "ack", "retire", "fail", "dead"}, d \in BOOLEAN :
        /\ [pump EXCEPT !.at = at, !.frame = NoFrame, !.resp = NoBatch, !.delivered = d] \in PumpRec
        /\ [pump EXCEPT !.at = at, !.frame = NoFrame, !.resp = NoBatch] \in PumpRec
        /\ [pump EXCEPT !.at = at] \in PumpRec
  <2>1. pump \in PumpRec /\ NoFrame \in Frame /\ NoBatch \in Batches \cup {NoBatch}
    BY DEF Typed, NoFrame, Frame
  <2> QED
    BY <2>1 DEF PumpRec
<1>6. CASE PumpReset
  <2>1. pump' \in PumpRec
    BY <1>5, <1>6 DEF PumpReset
  <2>2. sendErr' \subseteq Batches
    BY <1>6 DEF PumpReset, Typed, PumpRec
  <2>3. collectors' \subseteq Streams /\ rst' \subseteq Streams
    BY <1>6 DEF PumpReset, Typed
  <2> QED
    BY <1>6, <2>1, <2>2, <2>3 DEF Typed, PumpReset, peerVars
<1>7. pump.at \in {"dispatch", "select", "ack", "retire"} /\ pump.resp # NoBatch => pump.resp \in Batches
  BY DEF Typed, PumpRec
<1>8. CASE PumpLookup
  <2>1. CASE pump.frame.stream \in collectors
    <3>1. pump' \in PumpRec
      BY <1>5, <1>8, <2>1 DEF PumpLookup
    <3> QED
      BY <1>8, <2>1, <3>1 DEF Typed, PumpLookup, peerVars, batchVars, collVars
  <2>2. CASE pump.frame.stream \notin collectors
    <3>1. pump' \in PumpRec /\ arrivals' \in [Batches -> Nat]
      BY <1>7, <1>8, <2>2, CountTypes DEF PumpLookup
    <3> QED
      BY <1>8, <2>2, <3>1 DEF Typed, PumpLookup, peerVars, batchVars, collVars
  <2> QED
    BY <2>1, <2>2
<1>9. ASSUME NEW o \in BOOLEAN, Deliver(o)
      PROVE  Typed'
  <2> DEFINE s == pump.frame.stream
             n == IF pump.frame.kind = "headers" THEN arrivals[pump.resp] ELSE coll[s].seq
             kind == IF o THEN "cancelled" ELSE IF n >= 0 THEN "ok" ELSE "malformed"
             returns == o \/ pump.frame.end
             at == IF returns THEN "done" ELSE "run"
             r == [at |-> at, seq |-> n]
  <2>1. /\ pump.at = "select" /\ coll[s].at = "run" /\ CountArrival(TRUE)
        /\ coll' = [coll EXCEPT ![s] = r]
        /\ results' = IF returns THEN Append(results, <<s, kind>>) ELSE results
        /\ IF o THEN Overflow(s[1]) ELSE UNCHANGED batchVars
    BY <1>9 DEF Deliver
  <2>2. pump.resp \in Batches /\ s \in Streams /\ s[1] \in Batches
    BY <1>7, <2>1 DEF Addressed, Known, Working
  <2>3. pump' \in PumpRec /\ arrivals' \in [Batches -> Nat]
    BY <2>1, <2>2, CountTypes
  <2>4. n \in Nat \cup {-1} /\ kind \in {"ok", "malformed", "cancelled"} /\ at \in {"run", "done"}
    BY <2>2 DEF Typed
  <2>5. cause' \in [Batches -> Causes \cup {"none"}] /\ collectors' \subseteq Streams
    <3>1. CASE o
      BY <2>1, <2>2, <3>1, FirstCause DEF Overflow, CloseAll, Causes
    <3>2. CASE ~o
      BY <2>1, <3>2 DEF Typed, batchVars
    <3> QED
      BY <3>1, <3>2
  <2> HIDE DEF s, n, kind, returns, at
  <2>6. coll' \in [Streams -> [at : {"off", "run", "done"}, seq : Nat \cup {-1}]]
    BY <2>1, <2>2, <2>4 DEF Typed
  <2>7. results' \in Seq(Streams \X {"ok", "reset", "malformed", "cancelled"})
    <3>1. <<s, kind>> \in Streams \X {"ok", "reset", "malformed", "cancelled"}
      BY <2>2, <2>4
    <3>2. \A T : \A q \in Seq(T), e \in T : Append(q, e) \in Seq(T)
      OBVIOUS
    <3> DEFINE T == Streams \X {"ok", "reset", "malformed", "cancelled"}
    <3>3. results \in Seq(T) /\ <<s, kind>> \in T
      BY <3>1 DEF Typed
    <3> HIDE DEF T
    <3>4. results' \in Seq(T)
      BY <2>1, <3>2, <3>3
    <3> QED
      BY <3>4 DEF T
  <2> QED
    BY <1>9, <2>3, <2>5, <2>6, <2>7 DEF Typed, Deliver, peerVars
<1>10. CASE PumpCancelled
  <2>1. cause[pump.resp] \in Causes
    BY <1>7, <1>10 DEF PumpCancelled, Addressed, Typed
  <2> QED
    BY <1>2, <1>10, <2>1 DEF Typed, PumpCancelled, peerVars, batchVars, collVars
<1>11. CASE PumpAck
  <2>1. pump' \in PumpRec /\ pumpErr' \in {"none", "eof", "goaway", "orphan"} \cup Causes
    <3>1. CASE pump' = [pump EXCEPT !.at = "retire"] /\ UNCHANGED pumpErr
      BY <1>5, <3>1 DEF Typed
    <3>2. CASE Fails("eof")
      BY <1>2, <3>2
    <3> QED
      BY <1>11, <3>1, <3>2 DEF PumpAck
  <2> QED
    BY <1>11, <2>1 DEF Typed, PumpAck, peerVars, batchVars, collVars
<1>12. CASE PumpRetire
  <2>1. pump' \in PumpRec
    BY <1>5, <1>12 DEF PumpRetire
  <2> QED
    BY <1>12, <2>1 DEF Typed, PumpRetire, peerVars, collVars
<1>13. CASE PumpFailed
  <2>1. pump' \in PumpRec
    BY <1>5, <1>13 DEF PumpFailed
  <2>2. cause' \in [Batches -> Causes \cup {"none"}] /\ collectors' \subseteq Streams
    <3>1. CASE pump.resp # NoBatch
      <4>1. pump.resp \in Batches
        BY <3>1 DEF Typed, PumpRec
      <4> QED
        BY <1>13, <3>1, <4>1, FirstCause DEF PumpFailed, CloseAll, Causes
    <3>2. CASE pump.resp = NoBatch
      BY <1>13, <3>2 DEF PumpFailed, Typed, batchVars
    <3> QED
      BY <3>1, <3>2
  <2> QED
    BY <1>13, <2>1, <2>2 DEF Typed, PumpFailed, peerVars, collVars
<1> QED
  BY <1>1, <1>3, <1>4, <1>6, <1>8, <1>9, <1>10, <1>11, <1>12, <1>13 DEF PumpStep

\* A collector that ends without an event keeps its number.
LEMMA CollectEnds ==
  ASSUME Typed, NEW s \in Streams, CollectStep(s)
  PROVE  /\ coll[s].at = "run"
         /\ coll' = [coll EXCEPT ![s] = [at |-> "done", seq |-> coll[s].seq]]
         /\ coll[s].seq \in Nat \cup {-1}
<1>1. coll[s] = [at |-> coll[s].at, seq |-> coll[s].seq] /\ coll[s].seq \in Nat \cup {-1}
  BY DEF Typed
<1>2. coll[s].at = "run" /\ coll' = [coll EXCEPT ![s] = [coll[s] EXCEPT !.at = "done"]]
  BY DEF CollectStep, CollectReset, CollectCancelled
<1>3. [coll[s] EXCEPT !.at = "done"] = [at |-> "done", seq |-> coll[s].seq]
  BY <1>1
<1> QED
  BY <1>1, <1>2, <1>3

LEMMA PeerTypes ==
  ASSUME Typed, Shares,
         \/ \E s \in Streams : CollectStep(s)
         \/ \E b \in Batches : ContextEnds(b)
         \/ \E s \in Streams, kind \in {"headers", "data", "rst"}, end \in BOOLEAN :
              PeerSend(s, kind, end)
         \/ \E goaway \in BOOLEAN : PeerLeaves(goaway)
  PROVE  Typed'
<1>1. ASSUME NEW T, NEW q \in Seq(T), NEW e \in T
      PROVE  Append(q, e) \in Seq(T) /\ Len(Append(q, e)) = Len(q) + 1
  OBVIOUS
<1>2. ASSUME NEW s \in Streams, CollectStep(s)
      PROVE  Typed'
  <2>1. PICK kind \in {"reset", "cancelled"} : results' = Append(results, <<s, kind>>)
    BY <1>2 DEF CollectStep, CollectReset, CollectCancelled
  <2> DEFINE T == Streams \X {"ok", "reset", "malformed", "cancelled"}
  <2>2. results \in Seq(T) /\ <<s, kind>> \in T
    BY DEF Typed
  <2> HIDE DEF T
  <2>3. results' \in Seq(T)
    BY <1>1, <2>1, <2>2
  <2>4. results' \in Seq(Streams \X {"ok", "reset", "malformed", "cancelled"})
    BY <2>3 DEF T
  <2>5. coll' \in [Streams -> [at : {"off", "run", "done"}, seq : Nat \cup {-1}]]
    BY <1>2, CollectEnds DEF Typed
  <2> QED
    BY <1>2, <2>4, <2>5
    DEF Typed, CollectStep, CollectReset, CollectCancelled, peerVars, pumpVars, batchVars
<1>3. ASSUME NEW b \in Batches, ContextEnds(b)
      PROVE  Typed'
  <2>1. cause' \in [Batches -> Causes \cup {"none"}]
    BY <1>3, FirstCause DEF ContextEnds, Causes
  <2> QED
    BY <1>3, <2>1 DEF Typed, ContextEnds, peerVars, pumpVars, collVars
<1>4. ASSUME NEW s \in Streams, NEW kind \in {"headers", "data", "rst"}, NEW end \in BOOLEAN,
             PeerSend(s, kind, end)
      PROVE  Typed'
  <2> DEFINE f == [kind |-> kind, stream |-> s, end |-> end]
  <2>1. f \in Frame
    BY DEF Frame
  <2>2. wire' = Append(wire, f) /\ Len(wire) < MaxWire
    BY <1>4 DEF PeerSend
  <2>3. order' \in Seq(Streams)
    BY <1>1, <1>4 DEF PeerSend, Typed
  <2> HIDE DEF f
  <2>4. wire' \in Seq(Frame) /\ Len(wire') <= MaxWire
    BY <1>1, <2>1, <2>2, BatchAssumption DEF Typed
  <2>5. peer' \in [Streams -> {"idle", "open", "headers", "ended", "reset"}]
    BY <1>4 DEF PeerSend, Typed
  <2> QED
    BY <1>4, <2>3, <2>4, <2>5 DEF Typed, PeerSend, pumpVars, batchVars, collVars
<1>5. ASSUME NEW goaway \in BOOLEAN, PeerLeaves(goaway)
      PROVE  Typed'
  <2>1. NoFrame \in Frame
    BY DEF NoFrame, Frame
  <2>2. wire' \in Seq(Frame) /\ Len(wire') <= MaxWire
    <3>1. CASE goaway
      BY <1>1, <1>5, <2>1, <3>1, BatchAssumption DEF PeerLeaves, Typed
    <3>2. CASE ~goaway
      BY <1>5, <3>2 DEF PeerLeaves, Typed
    <3> QED
      BY <3>1, <3>2
  <2> QED
    BY <1>5, <2>2 DEF Typed, PeerLeaves, pumpVars, batchVars, collVars
<1> QED
  BY <1>2, <1>3, <1>4, <1>5

LEMMA TypeStep ==
  ASSUME Typed, Shares, Addressed, Verdicts, [Next]_vars
  PROVE  Typed'
<1>1. CASE UNCHANGED vars
  BY <1>1 DEF Typed, vars
<1>2. CASE Next
  BY <1>1, <1>2, MainTypes, PumpTypes, PeerTypes DEF Next, Closed
<1> QED
  BY <1>1, <1>2

-----------------------------------------------------------------------------
(* Every stream of a batch is accounted for *)

\* A step that leaves the batch, its collectors and its results alone.
LEMMA SharesStay ==
  ASSUME Shares, main'.batch = main.batch, main'.got = main.got,
         main'.at = main.at \/ (main'.at # "start" /\ (AtWork <=> AtWork')
                                /\ main.at \notin {"start", "closed"}),
         coll' = coll, results' = results
  PROVE  Shares'
BY DEF Shares, AtWork, Over

\* One collector ends and leaves a result.
LEMMA OneOver ==
  ASSUME Typed, Shares, main' = main, NEW s \in Streams, coll[s].at = "run",
         NEW n \in Nat \cup {-1}, coll' = [coll EXCEPT ![s] = [at |-> "done", seq |-> n]],
         NEW kind, results' = Append(results, <<s, kind>>), results' \in Seq(Streams \X {"ok", "reset", "malformed", "cancelled"})
  PROVE  Shares'
<1>1. s[1] = main.batch /\ AtWork /\ main.batch \in Batches /\ s \in Of(main.batch)
  BY StreamFacts DEF Shares, AtWork
<1>2. /\ coll'[s] = [at |-> "done", seq |-> n]
      /\ \A t \in Streams \ {s} : coll'[t] = coll[t]
  BY DEF Typed
<1>3. Over(main.batch)' = Over(main.batch) \cup {s} /\ s \notin Over(main.batch)
  BY <1>1, <1>2, StreamFacts DEF Over
<1>4. IsFiniteSet(Over(main.batch))
  BY <1>1, StreamFacts, FS_Subset DEF Over
<1>5. Cardinality(Over(main.batch)') = Cardinality(Over(main.batch)) + 1
  BY <1>3, <1>4, FS_AddElement
<1>6. Len(results') = Len(results) + 1 /\ Len(results) \in Nat
  BY DEF Typed
<1>7. main.got \in Nat /\ Cardinality(Over(main.batch)) \in Nat
  BY <1>4, FS_CardinalityType DEF Typed, MainRec
<1>8. AtWork' => main'.got + Len(results') = Cardinality(Over(main.batch)')
  <2>1. main.got + Len(results) = Cardinality(Over(main.batch)) /\ main'.got = main.got
    BY <1>1 DEF Shares
  <2> HIDE DEF Over
  <2> QED
    BY <1>5, <1>6, <1>7, <2>1
<1> QED
  <2>1. main.batch \in Nat /\ ~(s[1] > main.batch)
    BY <1>1 DEF Batches
  <2>3. \A t \in Streams :
          /\ coll'[t].at = "run" => t[1] = main'.batch /\ AtWork'
          /\ t[1] > main'.batch \/ (t[1] = main'.batch /\ main'.at = "start")
               => coll'[t].at = "off" /\ coll'[t].seq = -1
          /\ t[1] = main'.batch /\ AtWork' => coll'[t].at # "off"
    BY <1>1, <1>2, <2>1 DEF Shares, AtWork
  <2> QED
    BY <1>1, <1>8, <2>3 DEF Shares, AtWork

\* Once a result per stream has been taken, every collector is done.
LEMMA AllOver ==
  ASSUME Typed, Shares, AtWork, main.got = Width[main.batch]
  PROVE  results = << >> /\ \A s \in Streams : coll[s].at # "run"
<1>1. main.batch \in Batches /\ main.got + Len(results) = Cardinality(Over(main.batch))
  BY DEF Shares, AtWork
<1>2. /\ IsFiniteSet(Of(main.batch)) /\ Over(main.batch) \in SUBSET Of(main.batch)
      /\ Cardinality(Of(main.batch)) = main.got /\ main.got \in Nat
  BY <1>1, StreamFacts DEF Over
<1>3. Len(results) \in Nat /\ (Len(results) = 0 => results = << >>)
  BY DEF Typed
<1>4. Cardinality(Over(main.batch)) <= main.got
  BY <1>2, FS_Subset
<1>5. results = << >> /\ Cardinality(Over(main.batch)) = Cardinality(Of(main.batch))
  BY <1>1, <1>2, <1>3, <1>4
<1>6. Over(main.batch) = Of(main.batch)
  BY <1>2, <1>5, FS_Subset
<1> QED
  BY <1>1, <1>5, <1>6, StreamFacts DEF Over, Shares

\* attempt takes one result.
LEMMA TakeOne ==
  ASSUME Typed, Shares, AtWork, results # << >>, results' = Tail(results),
         main'.got = main.got + 1, main'.at = main.at, main'.batch = main.batch, coll' = coll
  PROVE  Shares'
<1>1. Len(results) \in Nat /\ Len(results') = Len(results) - 1 /\ main.got \in Nat
  BY DEF Typed, MainRec
<1>2. main'.got + Len(results') = main.got + Len(results)
  BY <1>1
<1> QED
  BY <1>2 DEF Shares, AtWork, Over

LEMMA SharesStep ==
  ASSUME Typed, Typed', Shares, Addressed, [Next]_vars
  PROVE  Shares'
<1> USE StreamFacts
<1>0. main.batch \in Nat /\ main.got \in Nat
  BY DEF Typed, MainRec
<1>1. CASE Start
  <2> DEFINE b == main.batch
  <2>1. /\ main.at = "start" /\ b \in Batches /\ results' = results /\ results = << >>
        /\ \A s \in Streams : coll[s].at # "run"
        /\ \A s \in Of(b) : coll[s].at = "off" /\ coll[s].seq = -1
    BY <1>1 DEF Start, Shares, collVars, AtWork
  <2>2. CASE pumpErr # "none"
    <3>1. main'.batch = b /\ main'.at = "close" /\ coll' = coll
      BY <1>1, <2>2 DEF Start, NewMain
    <3> QED
      BY <1>0, <2>1, <3>1 DEF Shares, AtWork
  <2>3. CASE pumpErr = "none"
    <3>1. /\ main'.batch = b /\ main'.at = "activate" /\ main'.got = 0
          /\ coll' = [s \in Streams |->
                        IF s \in Of(b) THEN [coll[s] EXCEPT !.at = "run"] ELSE coll[s]]
      BY <1>1, <2>3 DEF Start, NewMain
    <3>2. \A s \in Streams : IF s[1] = b THEN coll'[s].at = "run" ELSE coll'[s] = coll[s]
      BY <2>1, <3>1 DEF Typed
    <3>3. Over(b)' = {}
      BY <2>1, <3>1, <3>2 DEF Over
    <3>4. Cardinality({}) = 0 /\ Len(results') = 0
      BY <2>1, FS_EmptySet
    <3>5. AtWork' => main'.got + Len(results') = Cardinality(Over(b)')
      BY <3>1, <3>3, <3>4
    <3> QED
      BY <1>0, <2>1, <3>1, <3>2, <3>5 DEF Shares, AtWork, Batches
  <2> QED
    BY <2>2, <2>3
<1>2. CASE Close("start")
  BY <1>2 DEF Close, Shares, AtWork, Typed, MainRec, collVars
<1>3. CASE Close("close")
  BY <1>3 DEF Close, Shares, AtWork, Typed, MainRec, collVars
<1>4. CASE Activate
  <2>1. main'.batch = main.batch /\ main'.got = main.got /\ main'.at \in {"abort", "headers"}
    <3>1. \/ main' = [main EXCEPT !.at = "abort", !.outcome = "lost"]
          \/ main' = [main EXCEPT !.at = "headers"]
      BY <1>4 DEF Activate
    <3>2. CASE main' = [main EXCEPT !.at = "abort", !.outcome = "lost"]
      BY <3>2 DEF Typed, MainRec
    <3>3. CASE main' = [main EXCEPT !.at = "headers"]
      BY <3>3 DEF Typed, MainRec
    <3> QED
      BY <3>1, <3>2, <3>3
  <2> QED
    BY <1>4, <2>1, SharesStay DEF Activate, AtWork, collVars
<1>5. CASE FlushHeaders \/ FlushBody
  <2>1. main'.batch = main.batch /\ main'.got = main.got /\ main'.at \in {"body", "read"}
    BY <1>5 DEF FlushHeaders, FlushBody, Typed, MainRec
  <2> QED
    BY <1>5, <2>1, SharesStay DEF FlushHeaders, FlushBody, AtWork, collVars
<1>6. ASSUME NEW why \in Endings, SendFail(why)
      PROVE  Shares'
  <2>1. main'.batch = main.batch /\ main'.got = main.got /\ main'.at = "abort"
    BY <1>6 DEF SendFail, Typed, MainRec
  <2> QED
    BY <1>6, <2>1, SharesStay DEF SendFail, AtWork
<1>7. CASE AbortDrain
  <2>1. main.at = "abort" /\ AtWork /\ coll' = coll
    BY <1>7 DEF AbortDrain, AtWork
  <2>2. CASE results' = Tail(results) /\ results # << >> /\ main' = [main EXCEPT !.got = @ + 1]
    <3>1. main'.got = main.got + 1 /\ main'.at = main.at /\ main'.batch = main.batch
      BY <2>2 DEF Typed, MainRec
    <3> QED
      BY <2>1, <2>2, <3>1, TakeOne
  <2>3. CASE results' = results /\ main.got = Width[main.batch] /\ main' = [main EXCEPT !.at = "close"]
    <3>1. main'.at = "close" /\ main'.batch = main.batch
      BY <2>3 DEF Typed, MainRec
    <3>2. \A s \in Streams : coll[s].at # "run"
      BY <2>1, <2>3, AllOver
    <3> QED
      BY <2>1, <3>1, <3>2 DEF Shares, AtWork
  <2> QED
    BY <1>7, <2>2, <2>3 DEF AbortDrain
<1>8. CASE ReadResult
  <2>1. main'.got = main.got + 1 /\ main'.at = main.at /\ main'.batch = main.batch
    <3>1. \/ main' = [main EXCEPT !.got = @ + 1,
                                    !.streamErr = @ \/ Head(results)[2] = "reset"]
          \/ main' = [main EXCEPT !.got = @ + 1, !.fatal = cause'[main.batch]]
      BY <1>8 DEF ReadResult
    <3>2. CASE main' = [main EXCEPT !.got = @ + 1,
                                    !.streamErr = @ \/ Head(results)[2] = "reset"]
      BY <3>2 DEF Typed, MainRec
    <3>3. CASE main' = [main EXCEPT !.got = @ + 1, !.fatal = cause'[main.batch]]
      BY <3>3 DEF Typed, MainRec
    <3> QED
      BY <3>1, <3>2, <3>3
  <2> QED
    BY <1>8, <2>1, TakeOne DEF ReadResult, AtWork
<1>9. CASE ReadDone
  <2>1. /\ main.at = "read" /\ main.got = Width[main.batch] /\ AtWork /\ coll' = coll
        /\ results' = results /\ main.batch \in Batches
    BY <1>9 DEF ReadDone, Returns, AtWork, collVars, Shares
  <2>2. results = << >> /\ \A s \in Streams : coll[s].at # "run"
    BY <2>1, AllOver
  <2>3. \/ main'.at = "start" /\ main'.batch = main.batch + 1 /\ main'.got = 0
        \/ main'.at = "close" /\ main'.batch = main.batch
    BY <1>9 DEF ReadDone, Returns, NewMain, Typed, MainRec
  <2>4. \A s \in Streams : s[1] \in Nat
    BY DEF Batches
  <2> QED
    BY <1>0, <2>1, <2>2, <2>3, <2>4 DEF Shares, AtWork
<1>10. ASSUME NEW o \in BOOLEAN, Deliver(o)
       PROVE  Shares'
  <2> DEFINE s == pump.frame.stream
             n == IF pump.frame.kind = "headers" THEN arrivals[pump.resp] ELSE coll[s].seq
             kind == IF o THEN "cancelled" ELSE IF n >= 0 THEN "ok" ELSE "malformed"
             returns == o \/ pump.frame.end
  <2>1. /\ pump.at = "select" /\ coll[s].at = "run" /\ main' = main
        /\ coll' = [coll EXCEPT ![s] = [at |-> IF returns THEN "done" ELSE "run", seq |-> n]]
        /\ results' = IF returns THEN Append(results, <<s, kind>>) ELSE results
    BY <1>10 DEF Deliver
  <2>2. pump.resp \in Batches /\ s \in Streams
    BY <2>1 DEF Addressed, Known, Working, Typed, PumpRec
  <2>3. n \in Nat \cup {-1}
    BY <2>2 DEF Typed
  <2>4. results' \in Seq(Streams \X {"ok", "reset", "malformed", "cancelled"})
    BY DEF Typed
  <2> HIDE DEF s, n, kind, returns
  <2>5. CASE returns
    BY <2>1, <2>2, <2>3, <2>4, <2>5, OneOver
  <2>6. CASE ~returns
    <3>1. coll'[s] = [at |-> "run", seq |-> n] /\ \A t \in Streams \ {s} : coll'[t] = coll[t]
      BY <2>1, <2>2, <2>6 DEF Typed
    <3>2. \A t \in Streams : coll'[t].at = coll[t].at
      BY <2>1, <3>1
    <3>4. s[1] = main.batch /\ AtWork /\ main.batch \in Batches
      BY <2>1, <2>2 DEF Shares
    <3>3. Over(main.batch)' = Over(main.batch)
      BY <2>1, <3>2, <3>4 DEF Over
    <3>5. results' = results
      BY <2>1, <2>6
    <3>6. AtWork' => main'.got + Len(results') = Cardinality(Over(main.batch)')
      BY <2>1, <3>3, <3>5 DEF Shares, AtWork
    <3>7. main.batch \in Nat /\ ~(s[1] > main.batch)
      BY <3>4 DEF Batches
    <3>8. \A t \in Streams :
            /\ coll'[t].at = "run" => t[1] = main'.batch /\ AtWork'
            /\ t[1] > main'.batch \/ (t[1] = main'.batch /\ main'.at = "start")
                 => coll'[t].at = "off" /\ coll'[t].seq = -1
            /\ t[1] = main'.batch /\ AtWork' => coll'[t].at # "off"
      BY <2>1, <3>1, <3>2, <3>4, <3>7 DEF Shares, AtWork
    <3> QED
      BY <2>1, <3>4, <3>5, <3>6, <3>8 DEF Shares, AtWork
  <2> QED
    BY <2>5, <2>6
<1>11. ASSUME NEW s \in Streams, CollectStep(s)
       PROVE  Shares'
  <2>1. PICK kind : results' = Append(results, <<s, kind>>) /\ main' = main
    BY <1>11 DEF CollectStep, CollectReset, CollectCancelled
  <2>2. results' \in Seq(Streams \X {"ok", "reset", "malformed", "cancelled"})
    BY DEF Typed
  <2> QED
    BY <1>11, <2>1, <2>2, CollectEnds, OneOver
<1>12. ASSUME main' = main, coll' = coll, results' = results
       PROVE  Shares'
  BY <1>12 DEF Shares, AtWork, Over
<1>13. CASE \/ PumpRead \/ PumpEOF \/ PumpFatal \/ PumpReset \/ PumpLookup \/ PumpCancelled
            \/ PumpAck \/ PumpRetire \/ PumpFailed
  BY <1>12, <1>13 DEF PumpRead, PumpEOF, PumpFatal, PumpReset, PumpLookup, PumpCancelled,
     PumpAck, PumpRetire, PumpFailed, collVars
<1>14. CASE \/ \E b \in Batches : ContextEnds(b)
            \/ \E s \in Streams, kind \in {"headers", "data", "rst"}, end \in BOOLEAN :
                 PeerSend(s, kind, end)
            \/ \E goaway \in BOOLEAN : PeerLeaves(goaway)
            \/ Closed \/ UNCHANGED vars
  BY <1>12, <1>14 DEF ContextEnds, PeerSend, PeerLeaves, Closed, vars, collVars
<1> QED
  BY <1>1, <1>2, <1>3, <1>4, <1>5, <1>6, <1>7, <1>8, <1>9, <1>10, <1>11, <1>13, <1>14
  DEF Next, AttemptStep, PumpStep

-----------------------------------------------------------------------------
(* What each step does to the goroutine in attempt *)

LEMMA StartEffect ==
  ASSUME Typed, Shares, Start
  PROVE  /\ main.at = "start" /\ main.batch \in Batches
         /\ main'.batch = main.batch /\ main'.fatal = "none" /\ ~main'.streamErr
         /\ \/ /\ main'.at = "close" /\ main'.outcome = "lost" /\ pumpErr # "none"
               /\ coll' = coll /\ collectors' = collectors
            \/ /\ main'.at = "activate" /\ main'.outcome = "none" /\ pumpErr = "none"
               /\ collectors' = collectors \cup Of(main.batch)
               /\ \A s \in Streams :
                    /\ s[1] # main.batch => coll'[s] = coll[s]
                    /\ s[1] = main.batch => coll'[s].at = "run" /\ coll[s].at = "off"
                    /\ coll'[s].seq = coll[s].seq
<1> USE StreamFacts
<1>1. CASE pumpErr # "none"
  BY <1>1 DEF Start, NewMain
<1>2. CASE pumpErr = "none"
  <2>1. /\ main.at = "start" /\ main.batch \in Batches
        /\ main' = NewMain(main.batch, "activate", "none")
        /\ collectors' = collectors \cup Of(main.batch)
        /\ coll' = [s \in Streams |->
             IF s \in Of(main.batch) THEN [coll[s] EXCEPT !.at = "run"] ELSE coll[s]]
    BY <1>2 DEF Start
  <2>2. \A s \in Streams :
                    /\ s[1] # main.batch => coll'[s] = coll[s]
                    /\ s[1] = main.batch => coll'[s].at = "run" /\ coll[s].at = "off"
                    /\ coll'[s].seq = coll[s].seq
    BY <2>1 DEF Typed, Shares
  <2> QED
    BY <1>2, <2>1, <2>2 DEF NewMain
<1> QED
  BY <1>1, <1>2

LEMMA ActivateEffect ==
  ASSUME Typed, Shares, Activate
  PROVE  /\ main.at = "activate" /\ main.batch \in Batches
         /\ main'.batch = main.batch /\ main'.fatal = main.fatal
         /\ main'.streamErr = main.streamErr
         /\ \/ /\ main'.at = "headers" /\ main'.outcome = main.outcome
               /\ pumpErr = "none" /\ response' = main.batch
               /\ UNCHANGED <<cause, collectors>>
            \/ /\ main'.at = "abort" /\ main'.outcome = "lost"
               /\ CloseAll(main.batch, "conn") /\ response' = response
<1>1. CASE pumpErr # "none"
  BY <1>1 DEF Activate, Typed, MainRec, Shares
<1>2. CASE pumpErr = "none"
  BY <1>2 DEF Activate, Typed, MainRec, Shares, batchVars
<1> QED
  BY <1>1, <1>2

LEMMA FlushEffect ==
  ASSUME Typed, Shares, FlushHeaders \/ FlushBody
  PROVE  /\ main'.batch = main.batch /\ main'.fatal = main.fatal /\ main.batch \in Batches
         /\ main'.streamErr = main.streamErr /\ main'.outcome = main.outcome
         /\ main.at \in {"headers", "body"} /\ main'.at \in {"body", "read"}
         /\ FlushHeaders => main.at = "headers"
<1>1. CASE FlushHeaders
  BY <1>1 DEF FlushHeaders, Typed, MainRec, Shares
<1>2. CASE FlushBody /\ ~FlushHeaders
  BY <1>2 DEF FlushBody, Typed, MainRec, Shares
<1> QED
  BY <1>1, <1>2

LEMMA SendFailEffect ==
  ASSUME Typed, Shares, NEW why \in Endings, SendFail(why)
  PROVE  /\ main'.batch = main.batch /\ main'.fatal = main.fatal /\ main.batch \in Batches
         /\ main'.streamErr = main.streamErr
         /\ main.at \in {"headers", "body"} /\ main'.at = "abort"
         /\ main'.outcome \notin {"ok", "reset"}
<1>1. main.batch \in Batches
  BY DEF SendFail, Shares
<1>2. why \notin {"ok", "reset"}
  BY <1>1 DEF SendFail, Typed, Causes
<1>3. main' = [main EXCEPT !.at = "abort", !.outcome = why] /\ main.at \in {"headers", "body"}
  BY DEF SendFail
<1> QED
  BY <1>1, <1>2, <1>3 DEF Typed, MainRec

LEMMA AbortEffect ==
  ASSUME Typed, Shares, AbortDrain
  PROVE  /\ main'.batch = main.batch /\ main'.fatal = main.fatal /\ main.batch \in Batches
         /\ main'.streamErr = main.streamErr /\ main'.outcome = main.outcome
         /\ main.at = "abort"
         /\ \/ /\ main'.at = "abort" /\ response' = response
               /\ results # << >> /\ results' = Tail(results)
            \/ /\ main'.at = "close" /\ results' = results
               /\ response' = IF response = main.batch THEN NoBatch ELSE response
<1>1. main.at = "abort" /\ main.batch \in Batches
  BY DEF AbortDrain, Shares
<1>2. CASE results' = Tail(results) /\ results # << >> /\ response' = response
           /\ main' = [main EXCEPT !.got = @ + 1]
  BY <1>1, <1>2 DEF Typed, MainRec
<1>3. CASE results' = results /\ main' = [main EXCEPT !.at = "close"] /\ Retire
  BY <1>1, <1>3 DEF Typed, MainRec, Retire
<1> QED
  BY <1>2, <1>3 DEF AbortDrain

LEMMA ReadResultEffect ==
  ASSUME Typed, Shares, Verdicts, ReadResult
  PROVE  /\ main'.batch = main.batch /\ main'.outcome = main.outcome
         /\ main.at = "read" /\ main'.at = "read" /\ main.batch \in Batches
         /\ results # << >> /\ results' = Tail(results)
         /\ \/ /\ \/ Head(results)[2] \in {"ok", "reset"} \/ main.fatal # "none"
               /\ main'.fatal = main.fatal
               /\ main'.streamErr = (main.streamErr \/ Head(results)[2] = "reset")
               /\ UNCHANGED <<cause, collectors>>
            \/ /\ main'.fatal # "none" /\ cause'[main.batch] # "none"
               /\ \E v \in Causes : CloseAll(main.batch, v)
<1> DEFINE kind == Head(results)[2]
<1>1. main.at = "read" /\ main.batch \in Batches /\ results # << >> /\ results' = Tail(results)
  BY DEF ReadResult, Shares
<1>2. CASE kind \in {"ok", "reset"} \/ main.fatal # "none"
  <2> DEFINE e == main.streamErr \/ kind = "reset"
  <2>1. main' = [main EXCEPT !.got = @ + 1, !.streamErr = e] /\ UNCHANGED batchVars
    BY <1>2 DEF ReadResult
  <2> HIDE DEF e, kind
  <2>2. /\ main'.batch = main.batch /\ main'.outcome = main.outcome /\ main'.at = main.at
        /\ main'.fatal = main.fatal /\ main'.streamErr = e
    BY <2>1 DEF Typed, MainRec
  <2> QED
    BY <1>1, <1>2, <2>1, <2>2 DEF e, kind, batchVars
<1>3. CASE ~(kind \in {"ok", "reset"} \/ main.fatal # "none")
  <2>1. main' = [main EXCEPT !.got = @ + 1, !.fatal = cause'[main.batch]]
        /\ CloseAll(main.batch, kind)
    BY <1>3 DEF ReadResult
  <2>2. /\ main'.batch = main.batch /\ main'.outcome = main.outcome /\ main'.at = main.at
        /\ main'.fatal = cause'[main.batch]
    BY <2>1 DEF Typed, MainRec
  <2>3. kind \in {"malformed", "cancelled"} /\ kind = results[1][2] /\ 1 \in 1..Len(results)
    BY <1>1, <1>3 DEF Typed
  <2>4. \E v \in Causes : CloseAll(main.batch, v)
    <3>1. CASE kind = "malformed"
      BY <2>1, <3>1 DEF Causes
    <3>2. CASE kind = "cancelled"
      <4>1. cause[main.batch] # "none"
        BY <2>3, <3>2 DEF Verdicts, ResultsRight
      <4>2. CloseAll(main.batch, "conn")
        BY <2>1, <4>1 DEF CloseAll, CancelBatch
      <4> QED
        BY <4>2 DEF Causes
    <3> QED
      BY <2>3, <3>1, <3>2
  <2>5. cause'[main.batch] # "none"
    BY <1>1, <2>4, FirstCause DEF CloseAll, Causes
  <2> QED
    BY <1>1, <2>2, <2>4, <2>5
<1> QED
  BY <1>2, <1>3

LEMMA ReadDoneEffect ==
  ASSUME Typed, Shares, ReadDone
  PROVE  /\ main.at = "read" /\ main.batch \in Batches /\ main.got = Width[main.batch]
         /\ CancelBatch(main.batch, "returned")
         /\ response' = IF response = main.batch THEN NoBatch ELSE response
         /\ \/ /\ main.fatal = "none" /\ main'.at = "start" /\ main'.fatal = "none"
               /\ main'.batch = main.batch + 1 /\ ~main'.streamErr
               /\ main'.outcome = IF main.streamErr THEN "reset" ELSE "ok"
            \/ /\ main.fatal # "none" /\ main'.at = "close" /\ main'.batch = main.batch
               /\ main'.fatal = main.fatal /\ main'.outcome \notin {"ok", "reset"}
               /\ main'.streamErr = main.streamErr
<1>1. /\ main.at = "read" /\ main.batch \in Batches /\ main.got = Width[main.batch]
      /\ CancelBatch(main.batch, "returned")
      /\ response' = IF response = main.batch THEN NoBatch ELSE response
  BY DEF ReadDone, Returns, Shares, Retire
<1>2. CASE main.fatal = "none"
  BY <1>1, <1>2 DEF ReadDone, Returns, NewMain
<1>3. CASE main.fatal # "none"
  <2>1. main' = [main EXCEPT !.at = "close", !.outcome = main.fatal]
    BY <1>3 DEF ReadDone, Returns
  <2> QED
    BY <1>1, <1>3, <2>1 DEF Typed, MainRec, Causes
<1> QED
  BY <1>2, <1>3

LEMMA CloseEffect ==
  ASSUME Typed, Shares, Close("start") \/ Close("close")
  PROVE  /\ main.at \in {"start", "close"} /\ main'.at = "closed" /\ main'.batch = main.batch
         /\ main'.fatal = main.fatal /\ main'.outcome = main.outcome
         /\ main'.streamErr = main.streamErr
BY DEF Close, Typed, MainRec

-----------------------------------------------------------------------------
(* Frames reach the pump while their batch is the active one *)

\* The peer's progress with a stream never goes back.
LEMMA KnownStays ==
  ASSUME \A s \in Streams : peer[s] # "idle" =>
           /\ peer'[s] # "idle"
           /\ peer[s] \in {"ended", "reset"} => peer'[s] \in {"ended", "reset"}
           /\ peer[s] = "reset" => peer'[s] = "reset",
         \A s \in Streams : InOrder(s) => InOrder(s)'
  PROVE  \A f : Known(f) => Known(f)'
BY DEF Known

\* Steps of attempt leave the wire and the pump alone.
LEMMA AddressedMain ==
  ASSUME Typed, Addressed, UNCHANGED <<wire, pump, order>>,
         \/ peer' = peer
         \/ /\ main.at = "headers"
            /\ \A s \in Streams : peer'[s] # peer[s] => s[1] = main.batch,
         main'.batch \in Nat, main'.batch >= main.batch,
         response' \in {NoBatch, main'.batch},
         main'.at \in {"start", "activate"} => response' = NoBatch,
         \A s \in Streams : peer'[s] # "idle" =>
           \/ s[1] < main'.batch
           \/ (s[1] = main'.batch /\ main'.at \notin {"start", "activate", "headers"})
  PROVE  Addressed'
<1>1. main.batch \in Nat /\ pump.resp \in Nat /\ \A s \in Streams : s[1] \in Nat
  BY StreamFacts DEF Typed, MainRec, PumpRec, Batches, NoBatch
<1>2. \A s \in Streams : peer[s] # "idle" => peer'[s] = peer[s]
  BY <1>1 DEF Addressed
<1>3. \A s \in Streams : InOrder(s) => InOrder(s)'
  BY DEF InOrder
<1>4. \A f : Known(f) => Known(f)'
  BY <1>2, <1>3, KnownStays
<1>5. \A i \in 1..Len(wire') : Known(wire[i])'
  BY <1>4 DEF Addressed
<1>6. Working' => Known(pump.frame)' /\ pump'.resp <= main'.batch
  BY <1>1, <1>4 DEF Addressed, Working
<1> QED
  BY <1>5, <1>6 DEF Addressed, Working, Known, InOrder

LEMMA AddressedAttempt ==
  ASSUME Typed, Typed', Shares, Addressed, Verdicts,
         \/ Start \/ Close("start") \/ AttemptStep
  PROVE  Addressed'
<1> USE StreamFacts
<1>1. main.batch \in Nat /\ main'.batch \in Nat /\ \A s \in Streams : s[1] \in Nat
  <2>1. main.batch \in Nat /\ main'.batch \in Nat
    BY DEF Typed, MainRec
  <2>2. \A s \in Streams : s[1] \in Batches
    BY StreamFacts
  <2> QED
    BY <2>1, <2>2 DEF Batches
<1>2. ASSUME UNCHANGED <<wire, pump, order, peer>>, main'.batch = main.batch,
             response' \in {NoBatch, main.batch},
             main'.at \in {"start", "activate"} => response' = NoBatch,
             main'.at \in {"start", "activate", "headers"} =>
               main.at \in {"start", "activate", "headers"}
      PROVE  Addressed'
  BY <1>1, <1>2, AddressedMain DEF Addressed
<1> DEFINE Still == UNCHANGED <<wire, pump, order, peer>>
<1>3. /\ Start \/ Close("start") \/ Close("close") \/ Activate \/ FlushBody => Still
      /\ (\E why \in Endings : SendFail(why)) \/ AbortDrain \/ ReadResult \/ ReadDone => Still
  BY DEF Start, Close, Activate, FlushBody, SendFail, AbortDrain, ReadResult, ReadDone,
     Returns, peerVars, pumpVars
<1>4. CASE Start
  <2>1. response' = response
    BY <1>4 DEF Start
  <2> QED
    BY <1>2, <1>3, <1>4, <2>1, StartEffect DEF Addressed
<1>5. CASE Close("start") \/ Close("close")
  <2>1. response' = response
    BY <1>5 DEF Close
  <2> QED
    BY <1>2, <1>3, <1>5, <2>1, CloseEffect DEF Addressed
<1>6. CASE Activate
  <2>1. response' \in {NoBatch, main.batch} /\ main'.batch = main.batch
        /\ main'.at \in {"abort", "headers"} /\ main.at = "activate"
    BY <1>6, ActivateEffect DEF Addressed
  <2> QED
    BY <1>2, <1>3, <1>6, <2>1
<1>7. CASE FlushHeaders
  <2>1. \A s \in Streams : peer'[s] # peer[s] => s[1] = main.batch
    <3>1. \A s \in Streams : peer'[s] # peer[s] => s \in Of(main.batch)
      BY <1>7 DEF FlushHeaders, Typed
    <3>2. main.batch \in Batches
      BY <1>7, FlushEffect
    <3> QED
      BY <3>1, <3>2, StreamFacts
  <2>2. UNCHANGED <<wire, pump, order, response>>
    BY <1>7 DEF FlushHeaders, pumpVars
  <2> QED
    BY <1>1, <1>7, <2>1, <2>2, FlushEffect, AddressedMain DEF Addressed
<1>8. CASE FlushBody
  <2>1. response' = response
    BY <1>8 DEF FlushBody
  <2> QED
    BY <1>2, <1>3, <1>8, <2>1, FlushEffect DEF Addressed
<1>9. ASSUME NEW why \in Endings, SendFail(why)
      PROVE  Addressed'
  <2>1. response' = response
    BY <1>9 DEF SendFail
  <2> QED
    BY <1>2, <1>3, <1>9, <2>1, SendFailEffect DEF Addressed
<1>11. CASE AbortDrain
  <2>1. response' \in {NoBatch, main.batch} /\ main'.batch = main.batch
        /\ main'.at \in {"abort", "close"}
    BY <1>11, AbortEffect DEF Addressed
  <2> QED
    BY <1>2, <1>3, <1>11, <2>1
<1>12. CASE ReadResult
  <2>1. response' = response
    BY <1>12 DEF ReadResult
  <2> QED
    BY <1>2, <1>3, <1>12, <2>1, ReadResultEffect DEF Addressed
<1>10. CASE ReadDone
  <2>1. /\ response' = NoBatch /\ main'.batch >= main.batch
        /\ main'.at \in {"start", "close"}
        /\ main'.batch = main.batch \/ main'.batch > main.batch
        /\ main'.at = "start" => main'.batch > main.batch
    BY <1>1, <1>10, ReadDoneEffect DEF Addressed
  <2>2. UNCHANGED <<wire, pump, order, peer>>
    BY <1>3, <1>10
  <2>3. ASSUME NEW s \in Streams, peer'[s] # "idle"
        PROVE  \/ s[1] < main'.batch
               \/ (s[1] = main'.batch /\ main'.at \notin {"start", "activate", "headers"})
    <3>1. s[1] \in Nat /\ (s[1] < main.batch \/ s[1] = main.batch)
      BY <1>1, <2>2, <2>3 DEF Addressed
    <3>2. CASE main'.batch > main.batch
      BY <1>1, <3>1, <3>2
    <3>3. CASE main'.batch = main.batch
      BY <1>1, <2>1, <3>1, <3>3
    <3> QED
      BY <2>1, <3>2, <3>3
  <2>4. main'.at \in {"start", "activate"} => response' = NoBatch
    BY <2>1
  <2>5. response' \in {NoBatch, main'.batch}
    BY <2>1
  <2> QED
    BY <1>1, <2>1, <2>2, <2>3, <2>4, <2>5, AddressedMain
<1> QED
  BY <1>4, <1>5, <1>6, <1>7, <1>8, <1>9, <1>10, <1>11, <1>12 DEF AttemptStep


\* Steps of the pump after it has read a frame.
LEMMA PumpEffect ==
  ASSUME Typed, Addressed, PumpStep, ~PumpRead
  PROVE  /\ UNCHANGED <<peer, wire, peerGone, order, response, main>>
         /\ \/ pump'.at \in {"read", "fail", "dead"}
            \/ /\ pump.at = "dispatch" /\ pump'.at \in {"select", "ack", "retire"}
               /\ PumpLookup /\ pump.resp \in Batches
               /\ pump'.frame = pump.frame /\ pump'.resp = pump.resp
               /\ (pump'.at = "select" <=> pump.frame.stream \in collectors)
               /\ pump'.at # "select" => ~pump'.delivered
               /\ pump.frame.kind \in {"headers", "data"}
            \/ /\ pump.at = "select" /\ pump'.at \in {"ack", "retire"}
               /\ \E o \in BOOLEAN : Deliver(o)
               /\ pump.resp \in Batches /\ pump'.delivered
               /\ pump'.frame = pump.frame /\ pump'.resp = pump.resp
               /\ pump.frame.kind \in {"headers", "data"}
            \/ /\ pump.at = "ack" /\ pump'.at = "retire" /\ PumpAck
               /\ pump'.frame = pump.frame /\ pump'.resp = pump.resp
               /\ pump'.delivered = pump.delivered
<1>1. UNCHANGED <<peer, wire, peerGone, order, response, main>>
  BY DEF PumpStep, PumpEOF, PumpFatal, PumpReset, PumpLookup, Deliver, PumpCancelled, PumpAck,
     PumpRetire, PumpFailed, peerVars
<1>2. pump \in PumpRec /\ (pump.resp # NoBatch => pump.resp \in Batches)
  BY DEF Typed, PumpRec
<1>3. CASE PumpEOF \/ PumpFatal \/ PumpCancelled
  BY <1>1, <1>2, <1>3 DEF PumpEOF, PumpFatal, PumpCancelled, Fails, PumpRec
<1>4. CASE PumpReset \/ PumpRetire \/ PumpFailed
  BY <1>1, <1>2, <1>4 DEF PumpReset, PumpRetire, PumpFailed, PumpRec
<1>5. CASE PumpLookup
  <2>1. CASE pump.frame.stream \in collectors
    BY <1>1, <1>2, <1>5, <2>1 DEF PumpLookup, PumpRec
  <2>2. CASE pump.frame.stream \notin collectors
    BY <1>1, <1>2, <1>5, <2>2, CountTypes DEF PumpLookup
  <2> QED
    BY <2>1, <2>2
<1>6. CASE \E o \in BOOLEAN : Deliver(o)
  <2>1. pump.at = "select" /\ CountArrival(TRUE) /\ pump.resp \in Batches
        /\ pump.frame.kind \in {"headers", "data"}
    BY <1>2, <1>6 DEF Deliver, Addressed
  <2> QED
    BY <1>1, <1>6, <2>1, CountTypes
<1>7. CASE PumpAck
  <2>1. CASE pump' = [pump EXCEPT !.at = "retire"]
    BY <1>1, <1>2, <1>7, <2>1 DEF PumpAck, PumpRec
  <2>2. CASE Fails("eof")
    BY <1>1, <1>2, <1>7, <2>2 DEF Fails, PumpRec
  <2> QED
    BY <1>7, <2>1, <2>2 DEF PumpAck
<1> QED
  BY <1>3, <1>4, <1>5, <1>6, <1>7 DEF PumpStep

LEMMA AddressedPump ==
  ASSUME Typed, Shares, Addressed, PumpStep
  PROVE  Addressed'
<1>0. main.batch \in Nat /\ \A s \in Streams : s[1] \in Nat
  BY StreamFacts DEF Typed, MainRec, Batches
<1>1. CASE PumpRead
  <2>1. /\ wire # << >> /\ wire' = Tail(wire) /\ pump'.at = "dispatch"
        /\ pump'.frame = Head(wire) /\ pump'.resp = response
        /\ UNCHANGED <<peer, order, response, main>>
    BY <1>1 DEF PumpRead
  <2>2. Head(wire) = wire[1] /\ 1 \in 1..Len(wire)
    BY <2>1 DEF Typed
  <2>3. \A i \in 1..Len(wire') : i + 1 \in 1..Len(wire) /\ wire'[i] = wire[i + 1]
    BY <2>1 DEF Typed
  <2>4. \A f : Known(f) <=> Known(f)'
    BY <2>1 DEF Known, InOrder
  <2>5. \A i \in 1..Len(wire') : Known(wire[i])'
    <3>1. ASSUME NEW i \in 1..Len(wire')
          PROVE  Known(wire'[i])
      BY <2>3, <3>1 DEF Addressed
    <3> QED
      BY <2>1, <3>1 DEF Known, InOrder
  <2>6. Known(pump'.frame)
    BY <2>1, <2>2 DEF Addressed
  <2>7. Known(pump.frame)'
    BY <2>1, <2>6 DEF Known, InOrder
  <2>8. pump'.resp <= main'.batch /\ (pump'.resp # NoBatch => pump'.resp = main'.batch)
    BY <1>0, <2>1 DEF Addressed, NoBatch
  <2>9. pump'.frame.kind # "goaway" => pump'.frame.stream \in Streams /\ peer[pump'.frame.stream] # "idle"
    BY <2>6 DEF Known
  <2>10. pump'.frame.kind # "goaway" => pump'.frame.stream[1] <= main.batch
    BY <1>0, <2>9 DEF Addressed
  <2> QED
    BY <2>1, <2>5, <2>7, <2>8, <2>10 DEF Addressed, Working
<1>2. CASE ~PumpRead
  <2>1. UNCHANGED <<peer, wire, order, response, main>>
    BY <1>2, PumpEffect
  <2>2. \A f : Known(f) <=> Known(f)'
    BY <2>1 DEF Known, InOrder
  <2>3. \A i \in 1..Len(wire') : Known(wire[i])'
    BY <2>1 DEF Addressed, Known, InOrder
  <2>4. Working' => /\ Working /\ pump'.frame = pump.frame /\ pump'.resp = pump.resp
                    /\ pump'.at \in {"select", "ack", "retire"} =>
                         pump.resp # NoBatch /\ pump.frame.kind \in {"headers", "data"}
    BY <1>2, PumpEffect, StreamFacts DEF Working, Addressed
  <2>5. Working' => Known(pump.frame)'
    BY <2>1, <2>4 DEF Addressed, Known, InOrder
  <2> QED
    BY <2>1, <2>3, <2>4, <2>5 DEF Addressed, Working
<1> QED
  BY <1>1, <1>2

LEMMA AddressedStep ==
  ASSUME Typed, Typed', Shares, Addressed, Verdicts, [Next]_vars
  PROVE  Addressed'
<1>1. ASSUME UNCHANGED <<peer, wire, pump, response, main, order>>
      PROVE  Addressed'
  BY <1>1 DEF Addressed, Known, InOrder, Working
<1>2. CASE \/ \E s \in Streams : CollectStep(s)
           \/ \E b \in Batches : ContextEnds(b)
           \/ Closed \/ UNCHANGED vars
  BY <1>1, <1>2 DEF CollectStep, CollectReset, CollectCancelled, ContextEnds, Closed, vars,
     peerVars, pumpVars
<1>3. ASSUME \A s \in Streams : peer'[s] # peer[s] =>
               /\ peer[s] # "idle" /\ peer'[s] # "idle"
               /\ peer[s] \in {"ended", "reset"} => peer'[s] = "reset"
               /\ peer[s] # "reset",
             \A s \in Streams : InOrder(s) => InOrder(s)',
             UNCHANGED <<pump, response, main>>,
             NEW f, Known(f)', wire' = wire \/ (wire' = Append(wire, f) /\ f \in Frame)
      PROVE  Addressed'
  <2>1. \A g : Known(g) => Known(g)'
    BY <1>3, KnownStays
  <2>2. \A i \in 1..Len(wire') : Known(wire[i])'
    <3>1. \A i \in 1..Len(wire') :
            \/ i \in 1..Len(wire) /\ wire'[i] = wire[i]
            \/ wire'[i] = f
      BY <1>3 DEF Typed
    <3>2. ASSUME NEW i \in 1..Len(wire')
          PROVE  \E g : g = wire'[i] /\ Known(g)'
      BY <1>3, <2>1, <3>1 DEF Addressed
    <3> QED
      BY <3>2 DEF Known, InOrder
  <2>3. Working' => Known(pump.frame)'
    BY <1>3, <2>1 DEF Addressed, Working, Known, InOrder
  <2>4. \A s \in Streams : peer'[s] # "idle" => peer[s] # "idle"
    BY <1>3
  <2> QED
    BY <1>3, <2>2, <2>3, <2>4 DEF Addressed, Working
<1>4. ASSUME NEW s \in Streams, NEW kind \in {"headers", "data", "rst"}, NEW end \in BOOLEAN,
             PeerSend(s, kind, end)
      PROVE  Addressed'
  <2> DEFINE f == [kind |-> kind, stream |-> s, end |-> end]
  <2>1. /\ wire' = Append(wire, f) /\ f \in Frame
        /\ UNCHANGED <<pump, response, main>>
        /\ order' = IF kind = "headers" THEN Append(order, s) ELSE order
        /\ \A t \in Streams \ {s} : peer'[t] = peer[t]
    BY <1>4 DEF PeerSend, Frame, pumpVars, Typed
  <2>2. /\ peer[s] \notin {"idle", "reset"} /\ peer'[s] # "idle"
        /\ end => peer'[s] \in {"ended", "reset"}
        /\ kind = "rst" => peer'[s] = "reset"
        /\ peer[s] = "ended" => peer'[s] = "reset"
    BY <1>4 DEF PeerSend, Typed
  <2>3. \A t \in Streams : InOrder(t) => InOrder(t)'
    BY <2>1 DEF InOrder, Typed
  <2>4. kind = "headers" => InOrder(s)'
    <3>1. SUFFICES ASSUME kind = "headers" PROVE InOrder(s)'
      OBVIOUS
    <3>2. order' = Append(order, s) /\ order \in Seq(Streams)
      BY <2>1, <3>1 DEF Typed
    <3>3. Len(order) + 1 \in 1..Len(order') /\ order'[Len(order) + 1] = s
      BY <3>2
    <3> QED
      BY <3>3 DEF InOrder
  <2>5. Known(f)'
    BY <2>2, <2>4 DEF Known
  <2> HIDE DEF f
  <2> QED
    BY <1>3, <2>1, <2>2, <2>3, <2>5
<1>5. ASSUME NEW goaway \in BOOLEAN, PeerLeaves(goaway)
      PROVE  Addressed'
  <2>1. UNCHANGED <<pump, response, main, peer, order>>
    BY <1>5 DEF PeerLeaves, pumpVars
  <2>2. wire' = wire \/ (wire' = Append(wire, NoFrame) /\ NoFrame \in Frame)
    BY <1>5 DEF PeerLeaves, NoFrame, Frame
  <2>3. Known(NoFrame)' /\ \A s \in Streams : InOrder(s) => InOrder(s)'
    BY <2>1 DEF Known, NoFrame, InOrder
  <2> QED
    BY <1>3, <2>1, <2>2, <2>3
<1> QED
  BY <1>2, <1>4, <1>5, AddressedAttempt, AddressedPump DEF Next

-----------------------------------------------------------------------------
(* Ranks *)

\* The active batch of a frame whose collector runs is the collector's.
LEMMA RightBatch ==
  ASSUME Typed, Shares, Addressed, NEW o \in BOOLEAN, Deliver(o)
  PROVE  /\ pump.frame.stream \in Streams /\ pump.resp = pump.frame.stream[1]
         /\ pump.resp \in Batches /\ pump.resp = main.batch
<1>1. /\ pump.at = "select" /\ coll[pump.frame.stream].at = "run"
      /\ pump.resp # NoBatch /\ pump.frame.kind \in {"headers", "data"}
  BY DEF Deliver, Addressed
<1>2. /\ pump.frame.stream \in Streams /\ pump.resp <= main.batch
      /\ pump.frame.stream[1] <= pump.resp
  BY <1>1 DEF Addressed, Working, Known
<1>3. pump.frame.stream[1] = main.batch
  BY <1>1, <1>2 DEF Shares
<1>4. pump.resp \in Batches /\ pump.resp \in Nat /\ main.batch \in Nat
  BY <1>1 DEF Typed, PumpRec, MainRec, Batches
<1> QED
  BY <1>1, <1>2, <1>3, <1>4

\* No stream comes twice in the order, so that Before is irreflexive and
\* antisymmetric.
LEMMA BeforeOnce ==
  ASSUME Typed, Ranks
  PROVE  \A s, t \in Streams : Before(s, t) => s # t /\ ~Before(t, s)
BY DEF Typed, Ranks, Before

\* A step that gives no number and takes no header off the way.
LEMMA RanksStay ==
  ASSUME Typed, Ranks, UNCHANGED <<order, wire>>,
         \A s \in Streams : coll'[s].seq = coll[s].seq,
         \A b \in Batches : arrivals'[b] \in Nat /\ arrivals'[b] >= arrivals[b],
         \A s \in Streams : peer'[s] # peer[s] => ~InOrder(s),
         Holding' => Holding /\ pump'.frame = pump.frame
  PROVE  Ranks'
<1>1. \A s \in Streams : Pending(s)' => Pending(s)
  BY DEF Pending, Holding
<1>2. \A s, t \in Streams : Before(s, t)' <=> Before(s, t)
  BY DEF Before
<1>3. \A s \in Streams : InOrder(s)' <=> InOrder(s)
  BY DEF InOrder
<1>4. \A s \in Streams : Ranked(s)' <=> Ranked(s)
  BY DEF Ranked
<1>5. RanksFollowWire'
  BY <1>2 DEF Ranks, RanksFollowWire
<1>6. \A s \in Streams : Ranked(s)' => InOrder(s)' /\ coll'[s].seq < arrivals'[s[1]]
  <2>1. ASSUME NEW s \in Streams, Ranked(s)
        PROVE  coll'[s].seq < arrivals'[s[1]] /\ InOrder(s)
    <3>1. coll[s].seq < arrivals[s[1]] /\ InOrder(s) /\ s[1] \in Batches
      BY <2>1, StreamFacts DEF Ranks
    <3>2. coll[s].seq \in Int /\ arrivals[s[1]] \in Int /\ arrivals'[s[1]] \in Int
      BY <3>1 DEF Typed
    <3> QED
      BY <3>1, <3>2
  <2> QED
    BY <1>3, <1>4, <2>1
<1>7. \A s \in Streams : InOrder(s)' => peer'[s] \notin {"idle", "open"}
  BY <1>3 DEF Ranks
<1>8. \A s, t \in Streams : Ranked(s)' /\ Pending(t)' => Before(s, t)'
  BY <1>1, <1>2, <1>4 DEF Ranks
<1>9. /\ \A i, j \in 1..Len(wire') :
           i < j /\ wire'[i].kind = "headers" /\ wire'[j].kind = "headers"
             => Before(wire[i].stream, wire[j].stream)'
      /\ Holding' => \A i \in 1..Len(wire') :
           wire'[i].kind = "headers" => Before(pump.frame.stream, wire[i].stream)'
  BY DEF Ranks, Before
<1>10. \A i, j \in 1..Len(order') : order'[i] = order'[j] => i = j
  BY DEF Ranks
<1> QED
  BY <1>5, <1>6, <1>7, <1>8, <1>9, <1>10 DEF Ranks


LEMMA RanksRead ==
  ASSUME Typed, Ranks, PumpRead
  PROVE  Ranks'
<1>1. /\ wire # << >> /\ wire' = Tail(wire) /\ pump'.at = "dispatch" /\ pump.at = "read"
      /\ pump'.frame = Head(wire)
      /\ UNCHANGED <<peer, order, coll, arrivals>>
  BY DEF PumpRead, collVars
<1>2. Head(wire) = wire[1] /\ 1 \in 1..Len(wire) /\ Len(wire) \in Nat
  BY <1>1 DEF Typed
<1>3. \A i \in 1..Len(wire') : i + 1 \in 1..Len(wire) /\ wire'[i] = wire[i + 1] /\ 1 < i + 1
  BY <1>1 DEF Typed
<1>4. /\ \A s, t \in Streams : Before(s, t)' <=> Before(s, t)
      /\ \A s \in Streams : (InOrder(s)' <=> InOrder(s)) /\ (Ranked(s)' <=> Ranked(s))
  BY <1>1 DEF Before, InOrder, Ranked
<1>5. \A s \in Streams : Pending(s)' => Pending(s)
  <2>1. ASSUME NEW s \in Streams, Pending(s)'
        PROVE  \E i \in 1..Len(wire) : wire[i].kind = "headers" /\ wire[i].stream = s
    <3>1. CASE Holding' /\ pump'.frame.stream = s
      BY <1>1, <1>2, <3>1 DEF Holding
    <3>2. CASE \E i \in 1..Len(wire') : wire'[i].kind = "headers" /\ wire'[i].stream = s
      BY <1>3, <3>2
    <3> QED
      BY <2>1, <3>1, <3>2 DEF Pending
  <2> QED
    BY <2>1 DEF Pending
<1>6. \A i, j \in 1..Len(wire') :
         i < j /\ wire'[i].kind = "headers" /\ wire'[j].kind = "headers"
           => Before(wire[i].stream, wire[j].stream)'
  <2>1. ASSUME NEW i \in 1..Len(wire'), NEW j \in 1..Len(wire'), i < j,
               wire'[i].kind = "headers", wire'[j].kind = "headers"
        PROVE  Before(wire[i].stream, wire[j].stream)'
    <3>1. i + 1 < j + 1
      BY <2>1
    <3>2. /\ i + 1 \in 1..Len(wire) /\ j + 1 \in 1..Len(wire)
          /\ wire'[i] = wire[i + 1] /\ wire'[j] = wire[j + 1]
      BY <1>3, <2>1
    <3>3. Before(wire[i + 1].stream, wire[j + 1].stream)
      BY <2>1, <3>1, <3>2 DEF Ranks
    <3> QED
      BY <1>1, <3>2, <3>3 DEF Before
  <2> QED
    BY <2>1
<1>7. Holding' => \A i \in 1..Len(wire') :
         wire'[i].kind = "headers" => Before(pump.frame.stream, wire[i].stream)'
  <2>1. ASSUME Holding', NEW i \in 1..Len(wire'), wire'[i].kind = "headers"
        PROVE  Before(pump'.frame.stream, wire'[i].stream)
    BY <1>1, <1>2, <1>3, <2>1 DEF Ranks, Holding
  <2> QED
    BY <1>1, <2>1 DEF Before
<1>8. RanksFollowWire'
  BY <1>1, <1>4 DEF Ranks, RanksFollowWire
<1>9. \A s, t \in Streams : Ranked(s)' /\ Pending(t)' => Before(s, t)'
  BY <1>4, <1>5 DEF Ranks
<1> QED
  BY <1>1, <1>4, <1>6, <1>7, <1>8, <1>9 DEF Ranks

LEMMA RanksDeliver ==
  ASSUME Typed, Typed', Shares, Addressed, Ranks, NEW o \in BOOLEAN, Deliver(o)
  PROVE  Ranks'
<1> DEFINE s == pump.frame.stream
           b == pump.resp
           n == arrivals[b]
<1>1. s \in Streams /\ b = s[1] /\ b \in Batches
  BY RightBatch
<1>2. /\ UNCHANGED <<order, wire, peer>> /\ pump.at = "select" /\ CountArrival(TRUE)
  BY DEF Deliver, peerVars
<1>3. ~Holding' /\ n \in Nat
  BY <1>1, <1>2, CountTypes DEF Holding, Typed
<1>4. CASE pump.frame.kind # "headers"
  <2>1. arrivals' = arrivals
    BY <1>2, <1>4 DEF CountArrival
  <2>2. \A t \in Streams : coll'[t].seq = coll[t].seq
    BY <1>1, <1>4 DEF Deliver, Typed
  <2> QED
    BY <1>2, <1>3, <2>1, <2>2, RanksStay DEF Typed
<1>5. CASE pump.frame.kind = "headers"
  <2>1. /\ arrivals'[b] = n + 1 /\ \A c \in Batches \ {b} : arrivals'[c] = arrivals[c]
    BY <1>1, <1>2, <1>5 DEF CountArrival, Typed
  <2>2. coll'[s].seq = n /\ \A t \in Streams \ {s} : coll'[t] = coll[t]
    BY <1>1, <1>5 DEF Deliver, Typed
  <2>3. Holding /\ Pending(s)
    BY <1>1, <1>2, <1>5 DEF Holding, Pending
  <2>4. /\ \A t, u \in Streams : Before(t, u)' <=> Before(t, u)
        /\ \A t \in Streams : InOrder(t)' <=> InOrder(t)
    BY <1>2 DEF Before, InOrder
  <2>5. \A t \in Streams : Pending(t)' =>
          \E i \in 1..Len(wire) : wire[i].kind = "headers" /\ wire[i].stream = t
    BY <1>2, <1>3 DEF Pending
  <2>6. \A t \in Streams : Ranked(t) => Before(t, s) /\ t # s /\ ~Before(s, t)
    BY <1>1, <2>3, BeforeOnce DEF Ranks
  <2>7. ~Before(s, s)
    BY <1>1, BeforeOnce
  <2>8. \A t \in Streams : Ranked(t)' => InOrder(t)' /\ coll'[t].seq < arrivals'[t[1]]
    <3>1. InOrder(s) /\ coll'[s].seq < arrivals'[s[1]]
      BY <1>1, <1>3, <1>5, <2>1, <2>2, <1>2 DEF Addressed, Known, Working
    <3>2. ASSUME NEW t \in Streams, t # s, Ranked(t)
          PROVE  InOrder(t) /\ coll'[t].seq < arrivals'[t[1]]
      <4>1. InOrder(t) /\ coll[t].seq < arrivals[t[1]] /\ coll'[t].seq = coll[t].seq
        BY <2>2, <3>2 DEF Ranks
      <4>2. t[1] \in Batches /\ coll[t].seq \in Int /\ arrivals[t[1]] \in Nat
        BY StreamFacts DEF Typed
      <4>3. arrivals'[t[1]] = arrivals[t[1]] \/ (t[1] = b /\ arrivals'[t[1]] = arrivals[t[1]] + 1)
        BY <2>1, <4>2
      <4> QED
        BY <4>1, <4>2, <4>3
    <3> QED
      BY <2>2, <2>4, <3>1, <3>2 DEF Ranked
  <2>9. \A t, u \in Streams : Ranked(t)' /\ Pending(u)' => Before(t, u)'
    <3>1. ASSUME NEW u \in Streams, Pending(u)'
          PROVE  Pending(u) /\ Before(s, u)
      BY <1>1, <2>3, <2>5, <3>1 DEF Pending, Ranks
    <3>2. \A t \in Streams : Ranked(t)' => t = s \/ Ranked(t)
      BY <2>2 DEF Ranked
    <3> QED
      BY <2>4, <3>1, <3>2 DEF Ranks
  <2>10. RanksFollowWire'
    <3>1. ASSUME NEW t \in Streams, NEW u \in Streams, t[1] = u[1],
                 coll'[t].seq >= 0, coll'[u].seq >= 0
          PROVE  coll'[t].seq < coll'[u].seq <=> Before(t, u)
      <4>1. CASE t = s /\ u = s
        BY <2>2, <1>3, <2>7, <4>1
      <4>2. CASE t # s /\ u = s
        <5>1. Ranked(t) /\ coll'[t].seq = coll[t].seq
          BY <2>2, <3>1, <4>2 DEF Ranked
        <5>2. coll[t].seq < arrivals[t[1]] /\ t[1] = b
          BY <1>1, <3>1, <4>2, <5>1 DEF Ranks
        <5> QED
          BY <2>2, <2>6, <4>2, <5>1, <5>2
      <4>3. CASE t = s /\ u # s
        <5>1. Ranked(u) /\ coll'[u].seq = coll[u].seq
          BY <2>2, <3>1, <4>3 DEF Ranked
        <5>2. coll[u].seq < arrivals[u[1]] /\ u[1] = b /\ coll[u].seq \in Int
          BY <1>1, <3>1, <4>3, <5>1 DEF Ranks, Typed
        <5> QED
          BY <1>3, <2>2, <2>6, <4>3, <5>1, <5>2
      <4>4. CASE t # s /\ u # s
        BY <2>2, <3>1, <4>4 DEF Ranks, RanksFollowWire
      <4> QED
        BY <4>1, <4>2, <4>3, <4>4
    <3> QED
      BY <2>4, <3>1 DEF RanksFollowWire
  <2>11. \A i, j \in 1..Len(wire') :
           i < j /\ wire'[i].kind = "headers" /\ wire'[j].kind = "headers"
             => Before(wire[i].stream, wire[j].stream)'
    BY <1>2 DEF Ranks, Before
  <2> QED
    BY <1>2, <1>3, <2>4, <2>8, <2>9, <2>10, <2>11 DEF Ranks
<1> QED
  BY <1>4, <1>5


\* The peer puts one more frame on the wire.
LEMMA RanksSend ==
  ASSUME Typed, Addressed, Ranks, UNCHANGED <<pump, arrivals, coll>>,
         NEW f \in Frame, wire' = Append(wire, f),
         \/ f.kind # "headers" /\ order' = order
         \/ /\ f.kind = "headers" /\ f.stream \in Streams /\ ~InOrder(f.stream)
            /\ order' = Append(order, f.stream),
         \A s \in Streams : InOrder(s)' => peer'[s] \notin {"idle", "open"}
  PROVE  Ranks'
<1> DEFINE n == Len(order)
<1>1. n \in Nat /\ order \in Seq(Streams) /\ \A i \in 1..n : order[i] \in Streams
  BY DEF Typed
<1>2. /\ Len(order') \in {n, n + 1}
      /\ \A i \in 1..n : order'[i] = order[i]
      /\ f.kind # "headers" => order' = order
      /\ f.kind = "headers" => /\ Len(order') = n + 1 /\ order'[n + 1] = f.stream
                               /\ f.stream \in Streams /\ \A i \in 1..n : order[i] # f.stream
  BY <1>1 DEF InOrder
<1> HIDE DEF n
<1>3. \A s, t \in Streams : Before(s, t) => Before(s, t)'
  BY <1>1, <1>2 DEF Before, n
<1>4. \A s \in Streams : InOrder(s) => InOrder(s)'
  BY <1>1, <1>2 DEF InOrder, n
<1>5. \A s, t \in Streams : Before(s, t)' /\ ~Before(s, t) => t = f.stream /\ f.kind = "headers"
  <2>1. ASSUME NEW s \in Streams, NEW t \in Streams, NEW i \in 1..Len(order'),
               NEW j \in 1..Len(order'), i < j, order'[i] = s, order'[j] = t, ~Before(s, t)
        PROVE  t = f.stream /\ f.kind = "headers"
    <3>1. CASE j \in 1..n
      <4>1. i \in 1..n
        BY <1>1, <2>1, <3>1
      <4> QED
        BY <1>2, <2>1, <3>1, <4>1 DEF Before, n
    <3>2. CASE j \notin 1..n
      <4>1. Len(order') = n + 1 /\ j = n + 1
        BY <1>1, <1>2, <2>1, <3>2
      <4> QED
        BY <1>1, <1>2, <2>1, <4>1 DEF n
    <3> QED
      BY <3>1, <3>2
  <2> QED
    BY <2>1 DEF Before
<1>6. f.kind = "headers" => \A s \in Streams : InOrder(s) => Before(s, f.stream)'
  <2>1. ASSUME f.kind = "headers", NEW s \in Streams, NEW i \in 1..n, order[i] = s
        PROVE  Before(s, f.stream)'
    <3>1. i \in 1..Len(order') /\ n + 1 \in 1..Len(order') /\ i < n + 1
      BY <1>1, <1>2, <2>1
    <3> QED
      BY <1>2, <2>1, <3>1 DEF Before
  <2> QED
    BY <2>1 DEF InOrder, n
<1>7. f.kind = "headers" => \A s \in Streams : Ranked(s) \/ Pending(s) => s # f.stream
  <2>1. \A s \in Streams : Pending(s) => InOrder(s)
    BY DEF Pending, Addressed, Known, Holding, Working
  <2>2. \A s \in Streams : Ranked(s) => InOrder(s)
    BY DEF Ranks
  <2>3. f.kind = "headers" => ~InOrder(f.stream)
    BY <1>1, <1>2 DEF InOrder, n
  <2> QED
    BY <2>1, <2>2, <2>3
<1>8. /\ Len(wire') = Len(wire) + 1 /\ Len(wire) \in Nat /\ wire'[Len(wire) + 1] = f
      /\ \A i \in 1..Len(wire) : wire'[i] = wire[i]
  BY DEF Typed
<1>9. \A s \in Streams : Pending(s)' => Pending(s) \/ (s = f.stream /\ f.kind = "headers")
  BY <1>8 DEF Pending, Holding
<1>10. \A i \in 1..Len(wire) : wire[i].kind = "headers" =>
         wire[i].stream \in Streams /\ InOrder(wire[i].stream)
  BY DEF Addressed, Known
<1>11. \A i, j \in 1..Len(wire') :
         i < j /\ wire'[i].kind = "headers" /\ wire'[j].kind = "headers"
           => Before(wire[i].stream, wire[j].stream)'
  <2>1. ASSUME NEW i \in 1..Len(wire'), NEW j \in 1..Len(wire'), i < j,
               wire'[i].kind = "headers", wire'[j].kind = "headers"
        PROVE  Before(wire[i].stream, wire[j].stream)'
    <3>1. i \in 1..Len(wire) /\ wire'[i] = wire[i]
      BY <1>8, <2>1
    <3>2. CASE j \in 1..Len(wire)
      <4>1. Before(wire'[i].stream, wire'[j].stream)
        BY <1>8, <2>1, <3>1, <3>2 DEF Ranks
      <4>2. wire'[i].stream \in Streams /\ wire'[j].stream \in Streams
        BY <1>8, <1>10, <2>1, <3>1, <3>2
      <4>3. \A s, t \in Streams : Before(s, t) =>
              \E a, b \in 1..Len(order') : a < b /\ order'[a] = s /\ order'[b] = t
        BY <1>3 DEF Before
      <4>4. \E a, b \in 1..Len(order') :
              a < b /\ order'[a] = wire'[i].stream /\ order'[b] = wire'[j].stream
        BY <4>1, <4>2, <4>3
      <4> QED
        BY <4>4 DEF Before
    <3>3. CASE j \notin 1..Len(wire)
      <4>1. wire'[j] = f
        BY <1>8, <2>1, <3>3
      <4>2. wire'[i].stream \in Streams /\ InOrder(wire'[i].stream) /\ f.kind = "headers"
        BY <1>10, <2>1, <3>1, <4>1
      <4>3. \A s \in Streams : InOrder(s) =>
              \E a, b \in 1..Len(order') : a < b /\ order'[a] = s /\ order'[b] = f.stream
        BY <1>6, <4>2 DEF Before
      <4>4. \E a, b \in 1..Len(order') :
              a < b /\ order'[a] = wire'[i].stream /\ order'[b] = wire'[j].stream
        BY <4>1, <4>2, <4>3
      <4> QED
        BY <4>4 DEF Before
    <3> QED
      BY <3>2, <3>3
  <2> QED
    BY <2>1
<1>12. Holding' => \A i \in 1..Len(wire') :
         wire'[i].kind = "headers" => Before(pump.frame.stream, wire[i].stream)'
  <2>1. ASSUME Holding, NEW i \in 1..Len(wire'), wire'[i].kind = "headers"
        PROVE  Before(pump.frame.stream, wire[i].stream)'
    <3>1. pump.frame.stream \in Streams /\ InOrder(pump.frame.stream) /\ pump' = pump
      BY <2>1 DEF Holding, Addressed, Known, Working
    <3>2. CASE i \in 1..Len(wire)
      <4>1. Before(pump.frame.stream, wire'[i].stream) /\ wire'[i].stream \in Streams
        BY <1>8, <1>10, <2>1, <3>2 DEF Ranks
      <4>2. \A s, t \in Streams : Before(s, t) =>
              \E a, b \in 1..Len(order') : a < b /\ order'[a] = s /\ order'[b] = t
        BY <1>3 DEF Before
      <4> QED
        BY <3>1, <4>1, <4>2 DEF Before
    <3>3. CASE i \notin 1..Len(wire)
      <4>1. wire'[i] = f /\ f.kind = "headers"
        BY <1>8, <2>1, <3>3
      <4>2. \A s \in Streams : InOrder(s) =>
              \E a, b \in 1..Len(order') : a < b /\ order'[a] = s /\ order'[b] = f.stream
        BY <1>6, <4>1 DEF Before
      <4>3. \E a, b \in 1..Len(order') :
              a < b /\ order'[a] = pump.frame.stream /\ order'[b] = wire'[i].stream
        BY <3>1, <4>1, <4>2
      <4> QED
        BY <3>1, <4>3 DEF Before
    <3> QED
      BY <3>2, <3>3
  <2> QED
    BY <2>1 DEF Holding
<1>13. \A i, j \in 1..Len(order') : order'[i] = order'[j] => i = j
  <2>1. ASSUME NEW i \in 1..Len(order'), NEW j \in 1..Len(order'), order'[i] = order'[j]
        PROVE  i = j
    <3>1. (i \in 1..n \/ (i = n + 1 /\ f.kind = "headers"))
          /\ (j \in 1..n \/ (j = n + 1 /\ f.kind = "headers"))
      BY <1>1, <1>2 DEF n
    <3> QED
      BY <1>1, <1>2, <2>1, <3>1 DEF Ranks, n
  <2> QED
    BY <2>1
<1>14. \A s, t \in Streams : Ranked(s)' /\ Pending(t)' => Before(s, t)'
  <2>1. ASSUME NEW s \in Streams, NEW t \in Streams, Ranked(s), Pending(t)'
        PROVE  Before(s, t)'
    <3>1. InOrder(s)
      BY <2>1 DEF Ranks
    <3> QED
      BY <1>3, <1>6, <1>9, <2>1, <3>1 DEF Ranks
  <2> QED
    BY <2>1 DEF Ranked
<1>15. RanksFollowWire'
  <2>1. ASSUME NEW s \in Streams, NEW t \in Streams, s[1] = t[1],
               coll[s].seq >= 0, coll[t].seq >= 0
        PROVE  coll[s].seq < coll[t].seq <=> Before(s, t)'
    <3>1. Ranked(s) /\ Ranked(t)
      BY <2>1 DEF Ranked
    <3>2. Before(s, t)' <=> Before(s, t)
      BY <1>3, <1>5, <1>7, <3>1
    <3> QED
      BY <2>1, <3>2 DEF Ranks, RanksFollowWire
  <2> QED
    BY <2>1 DEF RanksFollowWire
<1>16. \A s \in Streams : Ranked(s)' => InOrder(s)' /\ coll'[s].seq < arrivals'[s[1]]
  BY <1>4 DEF Ranks, Ranked
<1> QED
  BY <1>11, <1>12, <1>13, <1>14, <1>15, <1>16 DEF Ranks

LEMMA RanksStep ==
  ASSUME Typed, Typed', Shares, Addressed, Ranks, Verdicts, [Next]_vars
  PROVE  Ranks'
<1>1. \A b \in Batches : arrivals[b] \in Nat /\ arrivals[b] >= arrivals[b]
  BY DEF Typed
<1>2. ASSUME UNCHANGED <<order, wire, pump, arrivals>>,
             \A s \in Streams : coll'[s].seq = coll[s].seq,
             \A s \in Streams : peer'[s] # peer[s] => peer[s] = "idle"
      PROVE  Ranks'
  <2>1. \A s \in Streams : peer'[s] # peer[s] => ~InOrder(s)
    BY <1>2 DEF Ranks
  <2>2. Holding' => Holding /\ pump'.frame = pump.frame
    BY <1>2 DEF Holding
  <2> QED
    BY <1>1, <1>2, <2>1, <2>2, RanksStay
<1>3. CASE Start
  <2>1. \A s \in Streams : coll'[s].seq = coll[s].seq
    BY <1>3, StartEffect
  <2> QED
    BY <1>2, <1>3, <2>1 DEF Start, pumpVars, peerVars
<1>4. CASE FlushHeaders
  <2>1. \A s \in Streams : peer'[s] # peer[s] => s \in Of(main.batch)
    BY <1>4 DEF FlushHeaders, Typed
  <2>2. main.batch \in Batches /\ main.at = "headers" /\ main.batch \in Nat
    BY <1>4, FlushEffect DEF Batches
  <2>3. \A s \in Streams : peer'[s] # peer[s] => peer[s] = "idle"
    BY <2>1, <2>2, StreamFacts DEF Addressed
  <2> QED
    BY <1>2, <1>4, <2>3 DEF FlushHeaders, pumpVars, collVars
<1>5. CASE \/ Close("start") \/ Close("close") \/ Activate \/ FlushBody \/ AbortDrain \/ ReadResult
           \/ ReadDone \/ \E why \in Endings : SendFail(why)
           \/ \E b \in Batches : ContextEnds(b)
           \/ Closed \/ UNCHANGED vars
  BY <1>2, <1>5 DEF Close, Activate, FlushBody, AbortDrain, ReadResult, ReadDone, Returns, SendFail,
     ContextEnds, Closed, vars, pumpVars, peerVars, collVars
<1>6. ASSUME NEW s \in Streams, CollectStep(s)
      PROVE  Ranks'
  <2>1. \A t \in Streams : coll'[t].seq = coll[t].seq
    <3>1. coll' = [coll EXCEPT ![s] = [at |-> "done", seq |-> coll[s].seq]]
      BY <1>6, CollectEnds
    <3>2. coll'[s].seq = coll[s].seq /\ \A t \in Streams \ {s} : coll'[t] = coll[t]
      BY <3>1 DEF Typed
    <3> QED
      BY <3>2
  <2> QED
    BY <1>2, <1>6, <2>1 DEF CollectStep, CollectReset, CollectCancelled, pumpVars, peerVars
<1>7. ASSUME NEW s \in Streams, NEW kind \in {"headers", "data", "rst"}, NEW end \in BOOLEAN,
             PeerSend(s, kind, end)
      PROVE  Ranks'
  <2> DEFINE f == [kind |-> kind, stream |-> s, end |-> end]
  <2>1. f \in Frame /\ wire' = Append(wire, f) /\ UNCHANGED <<pump, arrivals, coll>>
    BY <1>7 DEF PeerSend, Frame, pumpVars, collVars
  <2>2. \/ f.kind # "headers" /\ order' = order
        \/ /\ f.kind = "headers" /\ f.stream \in Streams /\ ~InOrder(f.stream)
           /\ order' = Append(order, f.stream)
    BY <1>7 DEF PeerSend, Ranks
  <2>3. ASSUME NEW t \in Streams, InOrder(t)'
        PROVE  peer'[t] \notin {"idle", "open"}
    <3>1. t = s \/ InOrder(t)
      <4>1. CASE order' = order
        BY <2>3, <4>1 DEF InOrder
      <4>2. CASE order' = Append(order, s)
        <5>1. \A i \in 1..Len(order') : order'[i] = s \/ (i \in 1..Len(order) /\ order'[i] = order[i])
          <6>1. \A q \in Seq(Streams) : \A i \in 1..Len(Append(q, s)) :
                  Append(q, s)[i] = s \/ (i \in 1..Len(q) /\ Append(q, s)[i] = q[i])
            OBVIOUS
          <6> QED
            BY <4>2, <6>1 DEF Typed
        <5> QED
          BY <2>3, <5>1 DEF InOrder
      <4> QED
        BY <2>2, <4>1, <4>2
    <3>2. CASE t = s
      BY <1>7, <3>2 DEF PeerSend, Typed
    <3>3. CASE t # s
      BY <1>7, <3>1, <3>3 DEF PeerSend, Typed, Ranks
    <3> QED
      BY <3>2, <3>3
  <2> HIDE DEF f
  <2> QED
    BY <2>1, <2>2, <2>3, RanksSend
<1>8. ASSUME NEW goaway \in BOOLEAN, PeerLeaves(goaway)
      PROVE  Ranks'
  <2>1. UNCHANGED <<peer, order, pump, arrivals, coll>>
    BY <1>8 DEF PeerLeaves, pumpVars, collVars
  <2>2. CASE goaway
    <3>1. wire' = Append(wire, NoFrame) /\ NoFrame \in Frame /\ NoFrame.kind # "headers"
      BY <1>8, <2>2 DEF PeerLeaves, NoFrame, Frame
    <3>2. \A t \in Streams : InOrder(t)' => peer'[t] \notin {"idle", "open"}
      BY <2>1 DEF InOrder, Ranks
    <3> QED
      BY <2>1, <3>1, <3>2, RanksSend
  <2>3. CASE ~goaway
    BY <1>2, <1>8, <2>1, <2>3 DEF PeerLeaves
  <2> QED
    BY <2>2, <2>3
<1>9. ASSUME PumpStep, ~PumpRead, ~\E o \in BOOLEAN : Deliver(o)
      PROVE  Ranks'
  <2>1. UNCHANGED <<peer, wire, order>>
    BY <1>9, PumpEffect
  <2>2. Holding' => Holding /\ pump'.frame = pump.frame
    BY <1>9, PumpEffect DEF Holding
  <2>3. coll' = coll
    BY <1>9 DEF PumpStep, PumpEOF, PumpFatal, PumpReset, PumpLookup, PumpCancelled, PumpAck,
       PumpRetire, PumpFailed, collVars
  <2>4. \A b \in Batches : arrivals'[b] \in Nat /\ arrivals'[b] >= arrivals[b]
    <3>1. CASE arrivals' = arrivals
      BY <1>1, <3>1
    <3>2. CASE arrivals' # arrivals
      <4>1. arrivals' = [arrivals EXCEPT ![pump.resp] = @ + 1]
        BY <1>9, <3>2 DEF PumpStep, PumpEOF, PumpFatal, PumpReset, PumpLookup, PumpCancelled,
           PumpAck, PumpRetire, PumpFailed, CountArrival
      <4> QED
        BY <1>1, <4>1 DEF Typed
    <3> QED
      BY <3>1, <3>2
  <2> QED
    BY <2>1, <2>2, <2>3, <2>4, RanksStay
<1> QED
  BY <1>3, <1>4, <1>5, <1>6, <1>7, <1>8, <1>9, RanksRead, RanksDeliver
  DEF Next, AttemptStep, PumpStep

-----------------------------------------------------------------------------
(* What no step takes back *)

\* Closing a batch gives it a cause, unless it has one.
LEMMA Causal ==
  ASSUME Typed, NEW b \in Batches, NEW v \in Causes, CancelBatch(b, v)
  PROVE  /\ cause'[b] # "none"
         /\ \A c \in Batches : cause[c] # "none" => cause'[c] = cause[c]
         /\ \A c \in Batches : cause'[c] # cause[c] => c = b /\ cause[c] = "none" /\ cause'[c] = v
BY FirstCause DEF Causes, Typed

\* How the contexts of the batches end, and which collectors are forgotten.
LEMMA CauseEffect ==
  ASSUME Typed, Shares, Addressed, Verdicts, [Next]_vars
  PROVE  /\ \A c \in Batches : cause[c] # "none" => cause'[c] = cause[c]
         /\ \A c \in Batches : cause'[c] = "returned" /\ cause[c] # "returned" =>
              ReadDone /\ c = main.batch
         /\ \A s \in collectors' : s \in collectors \/ (Start /\ s[1] = main.batch /\ s \in Streams)
         /\ \A s \in collectors : s \in collectors'
              \/ cause'[main.batch] # "none"
              \/ (PumpReset /\ s = pump.frame.stream /\ s \in rst')
              \/ (PumpRetire /\ s = pump.frame.stream /\ pump.frame.end /\ pump.delivered)
              \/ (PumpFailed /\ pump.resp # NoBatch /\ cause'[pump.resp] # "none")
<1> DEFINE Goal ==
         /\ \A c \in Batches : cause[c] # "none" => cause'[c] = cause[c]
         /\ \A c \in Batches : cause'[c] = "returned" /\ cause[c] # "returned" =>
              ReadDone /\ c = main.batch
         /\ \A s \in collectors' : s \in collectors \/ (Start /\ s[1] = main.batch /\ s \in Streams)
         /\ \A s \in collectors : s \in collectors'
              \/ cause'[main.batch] # "none"
              \/ (PumpReset /\ s = pump.frame.stream /\ s \in rst')
              \/ (PumpRetire /\ s = pump.frame.stream /\ pump.frame.end /\ pump.delivered)
              \/ (PumpFailed /\ pump.resp # NoBatch /\ cause'[pump.resp] # "none")
<1>1. ASSUME cause' = cause, \/ collectors' = collectors
                             \/ Start
                             \/ PumpReset
                             \/ PumpRetire
      PROVE  Goal
  <2>1. CASE collectors' = collectors
    BY <1>1, <2>1
  <2>2. CASE Start /\ collectors' # collectors
    BY <1>1, <2>2, StartEffect, StreamFacts
  <2>3. CASE PumpReset
    BY <1>1, <2>3 DEF PumpReset
  <2>4. CASE PumpRetire
    BY <1>1, <2>4 DEF PumpRetire
  <2> QED
    BY <1>1, <2>1, <2>2, <2>3, <2>4
<1>2. ASSUME NEW v \in Causes, v # "returned", CloseAll(main.batch, v), main.batch \in Batches
      PROVE  Goal
  BY <1>2, Causal DEF CloseAll
<1>3. CASE Start \/ PumpReset \/ PumpRetire
  BY <1>1, <1>3 DEF Start, PumpReset, PumpRetire
<1>4. CASE Activate
  <2>1. UNCHANGED <<cause, collectors>> \/ (CloseAll(main.batch, "conn") /\ main.batch \in Batches)
    BY <1>4, ActivateEffect
  <2> QED
    BY <1>1, <1>2, <2>1 DEF Causes
<1>5. ASSUME NEW why \in Endings, SendFail(why)
      PROVE  Goal
  <2>1. CloseAll(main.batch, "send") /\ main.batch \in Batches
    BY <1>5, SendFailEffect DEF SendFail
  <2> QED
    BY <1>2, <2>1 DEF Causes
<1>6. CASE ReadResult
  <2>1. CASE UNCHANGED <<cause, collectors>>
    BY <1>1, <2>1
  <2>2. CASE ~UNCHANGED <<cause, collectors>>
    <3> DEFINE kind == Head(results)[2]
    <3>1. CloseAll(main.batch, kind) /\ main.batch \in Batches
      BY <1>6, <2>2 DEF ReadResult, batchVars, Shares
    <3>2. kind = results[1][2] /\ 1 \in 1..Len(results) /\ kind \in {"ok", "reset", "malformed", "cancelled"}
      BY <1>6 DEF ReadResult, Typed
    <3>3. kind \in {"malformed", "cancelled"}
      BY <1>6, <2>2, <3>2 DEF ReadResult, batchVars, CloseAll, CancelBatch, Verdicts, ResultsRight
    <3>4. CASE kind = "malformed"
      BY <1>2, <3>1, <3>4 DEF Causes
    <3>5. CASE kind = "cancelled"
      <4>1. cause[main.batch] # "none"
        BY <3>2, <3>5 DEF Verdicts, ResultsRight
      <4>2. CloseAll(main.batch, "conn")
        BY <3>1, <4>1 DEF CloseAll, CancelBatch
      <4> QED
        BY <1>2, <3>1, <4>2 DEF Causes
    <3> QED
      BY <3>3, <3>4, <3>5
  <2> QED
    BY <2>1, <2>2
<1>7. CASE ReadDone
  <2>1. CancelBatch(main.batch, "returned") /\ main.batch \in Batches /\ collectors' = collectors
    BY <1>7, ReadDoneEffect DEF ReadDone, Returns
  <2> QED
    BY <1>7, <2>1, Causal DEF Causes
<1>8. ASSUME NEW o \in BOOLEAN, Deliver(o)
      PROVE  Goal
  <2>1. CASE o
    <3>1. CloseAll(main.batch, "limit") /\ main.batch \in Batches
      BY <1>8, <2>1, RightBatch DEF Deliver, Overflow
    <3> QED
      BY <1>2, <3>1 DEF Causes
  <2>2. CASE ~o
    BY <1>1, <1>8, <2>2 DEF Deliver, batchVars
  <2> QED
    BY <2>1, <2>2
<1>9. CASE PumpFailed
  <2>1. CASE pump.resp # NoBatch
    <3>1. CloseAll(pump.resp, "conn") /\ pump.resp \in Batches
      BY <1>9, <2>1 DEF PumpFailed, Typed, PumpRec
    <3> QED
      BY <1>9, <2>1, <3>1, Causal DEF CloseAll, Causes
  <2>2. CASE pump.resp = NoBatch
    BY <1>1, <1>9, <2>2 DEF PumpFailed, batchVars
  <2> QED
    BY <2>1, <2>2
<1>10. ASSUME NEW b \in Batches, ContextEnds(b)
       PROVE  Goal
  BY <1>10, Causal DEF ContextEnds, Causes
<1>11. CASE \/ FlushHeaders \/ FlushBody \/ AbortDrain \/ Close("start") \/ Close("close")
            \/ PumpRead \/ PumpEOF \/ PumpFatal \/ PumpLookup \/ PumpCancelled \/ PumpAck
            \/ \E s \in Streams : CollectStep(s)
            \/ \E s \in Streams, kind \in {"headers", "data", "rst"}, end \in BOOLEAN :
                 PeerSend(s, kind, end)
            \/ \E goaway \in BOOLEAN : PeerLeaves(goaway)
            \/ Closed \/ UNCHANGED vars
  <2>1. UNCHANGED <<cause, collectors>>
    BY <1>11 DEF FlushHeaders, FlushBody, AbortDrain, Close, PumpRead, PumpEOF, PumpFatal, PumpLookup,
       PumpCancelled, PumpAck, CollectStep, CollectReset, CollectCancelled, PeerSend, PeerLeaves,
       Closed, vars, batchVars
  <2> QED
    BY <1>1, <2>1
<1> QED
  BY <1>3, <1>4, <1>5, <1>6, <1>7, <1>8, <1>9, <1>10, <1>11 DEF Next, AttemptStep, PumpStep


\* A collector that is done stays done with its number; a running one was
\* running or is started; one that becomes done was running.
LEMMA DoneStays ==
  ASSUME Typed, Shares, Addressed, [Next]_vars
  PROVE  \A s \in Streams :
           /\ coll[s].at = "done" => coll'[s] = coll[s]
           /\ coll'[s].at = "run" => coll[s].at = "run" \/ Start
           /\ coll'[s].at = "done" /\ coll[s].at # "done" => coll[s].at = "run"
<1>1. CASE Start
  BY <1>1, StartEffect DEF Typed
<1>2. ASSUME NEW o \in BOOLEAN, Deliver(o)
      PROVE  \A s \in Streams :
               /\ coll[s].at = "done" => coll'[s] = coll[s]
               /\ coll'[s].at = "run" => coll[s].at = "run"
               /\ coll'[s].at = "done" /\ coll[s].at # "done" => coll[s].at = "run"
  <2> DEFINE t == pump.frame.stream
  <2>1. t \in Streams /\ coll[t].at = "run"
    BY <1>2, RightBatch DEF Deliver
  <2>2. \A s \in Streams \ {t} : coll'[s] = coll[s]
    BY <1>2, <2>1 DEF Deliver, Typed
  <2> QED
    BY <2>1, <2>2
<1>3. ASSUME NEW t \in Streams, CollectStep(t)
      PROVE  \A s \in Streams :
               /\ coll[s].at = "done" => coll'[s] = coll[s]
               /\ coll'[s].at = "run" => coll[s].at = "run"
               /\ coll'[s].at = "done" /\ coll[s].at # "done" => coll[s].at = "run"
  <2>1. coll[t].at = "run" /\ coll' = [coll EXCEPT ![t] = [at |-> "done", seq |-> coll[t].seq]]
    BY <1>3, CollectEnds
  <2>2. \A s \in Streams \ {t} : coll'[s] = coll[s]
    BY <2>1 DEF Typed
  <2> QED
    BY <2>1, <2>2
<1>4. CASE coll' = coll
  BY <1>4
<1>5. \/ Start \/ (\E o \in BOOLEAN : Deliver(o)) \/ (\E t \in Streams : CollectStep(t))
      \/ coll' = coll
  BY DEF Next, AttemptStep, PumpStep, Activate, FlushHeaders, FlushBody, SendFail, AbortDrain,
     ReadResult, ReadDone, Returns, Close, PumpRead, PumpEOF, PumpFatal, PumpReset, PumpLookup,
     PumpCancelled, PumpAck, PumpRetire, PumpFailed, ContextEnds, PeerSend, PeerLeaves, Closed,
     vars, collVars
<1> QED
  BY <1>1, <1>2, <1>3, <1>4, <1>5

\* A stream that the peer has ended or reset stays so, and a reset one is reset
\* for good.
LEMMA OverStays ==
  ASSUME Typed, Shares, Addressed, [Next]_vars
  PROVE  \A s \in Streams :
           /\ peer[s] \in {"ended", "reset"} => peer'[s] \in {"ended", "reset"}
           /\ peer[s] = "reset" => peer'[s] = "reset"
<1>1. CASE FlushHeaders
  <2>1. main.batch \in Batches /\ main.at = "headers" /\ main.batch \in Nat
    BY <1>1, FlushEffect DEF Batches
  <2>2. \A s \in Streams : peer'[s] # peer[s] => s \in Of(main.batch)
    BY <1>1 DEF FlushHeaders, Typed
  <2>3. \A s \in Streams : peer'[s] # peer[s] => peer[s] = "idle"
    BY <2>1, <2>2, StreamFacts DEF Addressed
  <2> QED
    BY <2>3
<1>2. ASSUME NEW t \in Streams, NEW kind \in {"headers", "data", "rst"}, NEW end \in BOOLEAN,
             PeerSend(t, kind, end)
      PROVE  \A s \in Streams :
               /\ peer[s] \in {"ended", "reset"} => peer'[s] \in {"ended", "reset"}
               /\ peer[s] = "reset" => peer'[s] = "reset"
  BY <1>2 DEF PeerSend, Typed
<1>3. \/ FlushHeaders \/ peer' = peer
      \/ \E t \in Streams, kind \in {"headers", "data", "rst"}, end \in BOOLEAN :
           PeerSend(t, kind, end)
  BY DEF Next, AttemptStep, PumpStep, Activate, FlushBody, SendFail, AbortDrain, ReadResult,
     ReadDone, Returns, Start, Close, PumpRead, PumpEOF, PumpFatal, PumpReset, PumpLookup, Deliver,
     PumpCancelled, PumpAck, PumpRetire, PumpFailed, ContextEnds, PeerLeaves, Closed, CollectStep,
     CollectReset, CollectCancelled, vars, peerVars
<1> QED
  BY <1>1, <1>2, <1>3

\* Only the pump marks a stream reset: one that it has just looked up.
LEMMA MarkEffect ==
  ASSUME [Next]_vars
  PROVE  /\ rst \subseteq rst'
         /\ \A s \in rst' \ rst : /\ PumpReset /\ s = pump.frame.stream /\ s \in collectors
                                  /\ pump.at = "dispatch" /\ s \notin collectors'
<1>1. PumpReset \/ rst' = rst
  BY DEF Next, AttemptStep, PumpStep, Activate, FlushHeaders, FlushBody, SendFail, AbortDrain,
     ReadResult, ReadDone, Returns, Start, Close, PumpRead, PumpEOF, PumpFatal, PumpLookup, Deliver,
     PumpCancelled, PumpAck, PumpRetire, PumpFailed, ContextEnds, PeerSend, PeerLeaves, Closed,
     CollectStep, CollectReset, CollectCancelled, vars, collVars
<1> QED
  BY <1>1 DEF PumpReset

\* What the pump does with a frame that it has delivered.
LEMMA DeliveringStays ==
  ASSUME Typed, Addressed, [Next]_vars, NEW s \in Streams, Delivering(s)
  PROVE  Delivering(s)' \/ s \notin collectors'
<1>1. CASE pump' = pump
  BY <1>1 DEF Delivering
<1>2. CASE PumpStep
  <2>1. ~PumpRead
    BY DEF PumpRead, Delivering
  <2>2. CASE pump'.at \in {"fail", "dead"}
    BY <2>2 DEF Delivering
  <2>3. CASE pump.at = "ack" /\ pump'.at = "retire"
    BY <1>2, <2>1, <2>3, PumpEffect DEF Delivering
  <2>4. CASE pump'.at = "read"
    <3>1. PumpRetire /\ pump.at = "retire"
      BY <1>2, <2>4 DEF PumpStep, PumpRead, PumpEOF, PumpFatal, PumpReset, PumpLookup, CountArrival,
         Deliver, PumpCancelled, PumpAck, PumpRetire, PumpFailed, Fails, Delivering, Typed, PumpRec
    <3> QED
      BY <3>1 DEF PumpRetire, Delivering
  <2> QED
    BY <1>2, <2>1, <2>2, <2>3, <2>4, PumpEffect DEF Delivering
<1>3. PumpStep \/ pump' = pump
  BY DEF Next, AttemptStep, Activate, FlushHeaders, FlushBody, SendFail, AbortDrain,
     ReadResult, ReadDone, Returns, Start, Close, ContextEnds, PeerSend, PeerLeaves, Closed,
     CollectStep, CollectReset, CollectCancelled, vars, pumpVars
<1> QED
  BY <1>1, <1>2, <1>3

LEMMA AcceptedStays ==
  ASSUME Typed, Shares, Addressed, Verdicts, [Next]_vars
  PROVE  \A s \in Streams : Accepted(s) => Accepted(s)'
<1>1. ASSUME NEW s \in Streams, Accepted(s)
      PROVE  Accepted(s)'
  <2>1. coll'[s] = coll[s] /\ coll[s].at = "done" /\ coll[s].seq >= 0
    BY <1>1, DoneStays DEF Accepted
  <2>2. peer'[s] \in {"ended", "reset"}
    BY <1>1, OverStays DEF Accepted
  <2>3. s \notin rst'
    BY <1>1, MarkEffect DEF Accepted, Delivering
  <2>4. s \in collectors' => s \in collectors
    <3>1. Start /\ s[1] = main.batch => coll[s].at = "off" \/ collectors' = collectors
      BY StartEffect
    <3> QED
      BY <2>1, <3>1, CauseEffect
  <2>5. s \in collectors' => Delivering(s)'
    BY <1>1, <2>4, DeliveringStays DEF Accepted
  <2> QED
    BY <2>1, <2>2, <2>3, <2>5 DEF Accepted
<1> QED
  BY <1>1

-----------------------------------------------------------------------------
(* The outcome of a batch is its own *)

\* A frame whose collector is looked up belongs to the active batch.
LEMMA AtDispatch ==
  ASSUME Typed, Addressed, Verdicts, pump.at = "dispatch", pump.frame.kind # "goaway",
         pump.resp # NoBatch, pump.frame.stream \in collectors
  PROVE  /\ pump.frame.stream \in Streams /\ pump.frame.stream[1] = main.batch
         /\ pump.resp = main.batch /\ main.batch \in Batches
<1> DEFINE s == pump.frame.stream
<1>1. s \in Streams /\ s[1] <= pump.resp /\ pump.resp <= main.batch
  BY DEF Addressed, Working, Known
<1>2. s[1] \in Nat /\ pump.resp \in Nat /\ main.batch \in Nat /\ s[1] \in Batches
  BY <1>1, StreamFacts DEF Typed, PumpRec, MainRec, Batches, NoBatch
<1>3. ~(s[1] < main.batch)
  BY <1>1 DEF Verdicts, EarlierOver, MarkedReset, Accepted, Delivering
<1> QED
  BY <1>1, <1>2, <1>3

\* Once every collector is done and no result was fatal, every stream of the
\* batch is accepted or reset.
LEMMA CleanEnd ==
  ASSUME Typed, Shares, Verdicts, main.at = "read", main.fatal = "none",
         main.got = Width[main.batch]
  PROVE  /\ \A s \in Of(main.batch) : Accepted(s) \/ (s \in rst /\ main.streamErr)
         /\ \A s \in Of(main.batch) : coll[s].at = "done"
         /\ main.streamErr => Of(main.batch) \cap rst # {}
         /\ results = << >> /\ main.batch \in Batches
<1>1. results = << >> /\ main.batch \in Batches /\ \A s \in Streams : coll[s].at # "run"
  BY AllOver DEF AtWork, Shares
<1>2. \A s \in Of(main.batch) : coll[s].at = "done"
  <2>1. \A s \in Streams : coll[s].at \in {"off", "run", "done"}
    BY DEF Typed
  <2> QED
    BY <1>1, <2>1, StreamFacts DEF Shares, AtWork
<1>3. \A s \in Of(main.batch) : ~Listed(s)
  BY <1>1 DEF Listed
<1> QED
  BY <1>1, <1>2, <1>3 DEF Verdicts, NoneMissing

LEMMA MarkedStep ==
  ASSUME Typed, Shares, Addressed, Verdicts, [Next]_vars
  PROVE  MarkedReset'
<1>1. ASSUME NEW s \in rst
      PROVE  peer'[s] = "reset" /\ s \notin collectors'
  <2>1. s \in Streams /\ peer[s] = "reset" /\ s \notin collectors
    BY <1>1 DEF Typed, Verdicts, MarkedReset
  <2>2. ~(Start /\ s[1] = main.batch)
    <3>1. s[1] < main.batch \/ (s[1] = main.batch /\ main.at # "start")
      BY <2>1 DEF Addressed
    <3>2. main.batch \in Nat
      BY DEF Typed, MainRec
    <3> QED
      BY <3>1, <3>2 DEF Start
  <2> QED
    BY <2>1, <2>2, OverStays, CauseEffect
<1>2. ASSUME NEW s \in rst' \ rst
      PROVE  peer'[s] = "reset" /\ s \notin collectors'
  <2>1. PumpReset /\ s = pump.frame.stream /\ s \notin collectors' /\ pump.at = "dispatch"
    BY <1>2, MarkEffect
  <2>2. peer[s] = "reset" /\ s \in Streams
    BY <2>1 DEF PumpReset, Addressed, Known, Working
  <2> QED
    BY <2>1, <2>2, OverStays
<1> QED
  BY <1>1, <1>2 DEF MarkedReset


\* One more result, of a collector that has just ended.
LEMMA ResultAppended ==
  ASSUME Typed, Typed', Shares, Addressed, Verdicts, [Next]_vars, main' = main,
         NEW s \in Streams, coll[s].at = "run",
         NEW kind \in {"ok", "reset", "malformed", "cancelled"},
         results' = Append(results, <<s, kind>>),
         kind = "ok" => Accepted(s)',
         kind = "reset" => s \in rst,
         kind = "cancelled" => cause'[main.batch] # "none"
  PROVE  ResultsRight'
<1>1. s[1] = main.batch /\ s \in Of(main.batch) /\ main.batch \in Batches
  BY StreamFacts DEF Shares
<1>2. \A i \in 1..Len(results') :
        \/ i \in 1..Len(results) /\ results'[i] = results[i]
        \/ results'[i] = <<s, kind>>
  <2>1. \A T : \A q \in Seq(T), e \in T : \A i \in 1..Len(Append(q, e)) :
          (i \in 1..Len(q) /\ Append(q, e)[i] = q[i]) \/ Append(q, e)[i] = e
    OBVIOUS
  <2> DEFINE T == Streams \X {"ok", "reset", "malformed", "cancelled"}
  <2>2. results \in Seq(T) /\ <<s, kind>> \in T
    BY DEF Typed
  <2> HIDE DEF T
  <2> QED
    BY <2>1, <2>2
<1>4. ASSUME NEW i \in 1..Len(results), NEW t, NEW k, t = results[i][1], k = results[i][2]
      PROVE  /\ t \in Of(main.batch) /\ t \in Streams
             /\ k = "ok" => Accepted(t)'
             /\ k = "reset" => t \in rst'
             /\ k = "cancelled" => cause'[main.batch] # "none"
  <2>1. /\ t \in Of(main.batch)
        /\ k = "ok" => Accepted(t)
        /\ k = "reset" => t \in rst
        /\ k = "cancelled" => cause[main.batch] # "none"
    BY <1>4 DEF Verdicts, ResultsRight
  <2> QED
    BY <1>1, <2>1, StreamFacts, AcceptedStays, MarkEffect, CauseEffect
<1>5. ASSUME NEW i \in 1..Len(results'), NEW t, NEW k, t = results'[i][1], k = results'[i][2]
      PROVE  /\ t \in Of(main.batch)
             /\ k = "ok" => Accepted(t)'
             /\ k = "reset" => t \in rst'
             /\ k = "cancelled" => cause'[main.batch] # "none"
  <2>1. CASE i \in 1..Len(results) /\ results'[i] = results[i]
    BY <1>4, <1>5, <2>1
  <2>2. CASE results'[i] = <<s, kind>>
    BY <1>1, <1>5, <2>2, MarkEffect
  <2> QED
    BY <1>2, <1>5, <2>1, <2>2
<1> QED
  BY <1>5 DEF ResultsRight


\* What is said of a result stays true.
LEMMA ResultsKept ==
  ASSUME Typed, Shares, Addressed, Verdicts, [Next]_vars,
         results # << >> => main'.batch = main.batch /\ main.batch \in Batches,
         \A i \in 1..Len(results') : \E j \in 1..Len(results) : results'[i] = results[j]
  PROVE  ResultsRight'
<1>1. ASSUME NEW i \in 1..Len(results'), NEW t, NEW k, t = results'[i][1], k = results'[i][2]
      PROVE  /\ t \in Of(main'.batch)
             /\ k = "ok" => Accepted(t)'
             /\ k = "reset" => t \in rst'
             /\ k = "cancelled" => cause'[main'.batch] # "none"
  <2>1. PICK j \in 1..Len(results) : results'[i] = results[j]
    BY <1>1
  <2>2. main'.batch = main.batch /\ main.batch \in Batches
    BY <2>1 DEF Typed
  <2>3. /\ t \in Of(main.batch)
        /\ k = "ok" => Accepted(t)
        /\ k = "reset" => t \in rst
        /\ k = "cancelled" => cause[main.batch] # "none"
    BY <1>1, <2>1 DEF Verdicts, ResultsRight
  <2> QED
    BY <2>2, <2>3, StreamFacts, AcceptedStays, MarkEffect, CauseEffect
<1> QED
  BY <1>1 DEF ResultsRight

\* An event is accepted, and its stream may end with it.
LEMMA DeliverEffect ==
  ASSUME Typed, Typed', Shares, Addressed, Verdicts, NEW o \in BOOLEAN, Deliver(o),
         NEW s, s = pump.frame.stream
  PROVE  LET returns == o \/ pump.frame.end
         IN  /\ s \in Streams /\ s[1] = main.batch /\ main' = main
             /\ coll[s].at = "run" /\ s \notin rst /\ rst' = rst
             /\ coll'[s].at = IF returns THEN "done" ELSE "run"
             /\ \A t \in Streams \ {s} : coll'[t] = coll[t]
             /\ pump.frame.kind # "headers" /\ coll[s].seq < 0 => coll'[s].seq < 0
             /\ ~returns => results' = results
             /\ returns => \E kind \in {"ok", "malformed", "cancelled"} :
                  /\ results' = Append(results, <<s, kind>>)
                  /\ kind = "ok" => Accepted(s)'
                  /\ kind = "cancelled" => cause'[main.batch] # "none"
<1> DEFINE n == IF pump.frame.kind = "headers" THEN arrivals[pump.resp] ELSE coll[s].seq
           returns == o \/ pump.frame.end
           kind == IF o THEN "cancelled" ELSE IF n >= 0 THEN "ok" ELSE "malformed"
<1>1. /\ s \in Streams /\ s[1] = main.batch /\ main' = main /\ coll[s].at = "run"
      /\ s \notin rst /\ rst' = rst /\ peer' = peer /\ pump.resp \in Batches
      /\ main.batch \in Batches /\ pump.at = "select" /\ CountArrival(TRUE)
  BY RightBatch DEF Deliver, peerVars
<1>2. coll' = [coll EXCEPT ![s] = [at |-> IF returns THEN "done" ELSE "run", seq |-> n]]
      /\ results' = IF returns THEN Append(results, <<s, kind>>) ELSE results
  BY DEF Deliver
<1>3. n \in Nat \cup {-1}
  BY <1>1 DEF Typed
<1>4. coll'[s] = [at |-> IF returns THEN "done" ELSE "run", seq |-> n]
      /\ \A t \in Streams \ {s} : coll'[t] = coll[t]
  BY <1>1, <1>2 DEF Typed
<1>5. o => cause'[main.batch] # "none"
  BY <1>1, Causal DEF Deliver, Overflow, CloseAll, Causes
<1>6. ASSUME returns, ~o, n >= 0
      PROVE  Accepted(s)'
  <2>1. pump.frame.end /\ pump.frame.kind \in {"headers", "data"}
    BY <1>1, <1>6 DEF Addressed
  <2>2. peer[s] \in {"ended", "reset"}
    BY <1>1, <2>1 DEF Addressed, Working, Known
  <2>3. Delivering(s)'
    BY <1>1, <2>1, CountTypes DEF Delivering
  <2> QED
    BY <1>1, <1>4, <1>6, <2>2, <2>3 DEF Accepted
<1>8. pump.frame.kind # "headers" => n = coll[s].seq
  OBVIOUS
<1> HIDE DEF n
<1>7. coll'[s].seq = n /\ coll'[s].at = IF returns THEN "done" ELSE "run"
  BY <1>4
<1>9. kind \in {"ok", "malformed", "cancelled"}
  OBVIOUS
<1>10. kind = "ok" => ~o /\ n >= 0
  OBVIOUS
<1>11. kind = "cancelled" => o
  OBVIOUS
<1> HIDE DEF kind
<1> QED
  BY <1>1, <1>2, <1>4, <1>5, <1>6, <1>7, <1>8, <1>9, <1>10, <1>11

LEMMA ResultsStep ==
  ASSUME Typed, Typed', Shares, Addressed, Verdicts, [Next]_vars
  PROVE  ResultsRight'
<1>1. ASSUME results' = results, main'.batch = main.batch \/ results = << >>
      PROVE  ResultsRight'
  <2>1. results # << >> => main.batch \in Batches
    <3>1. ASSUME results # << >>
          PROVE  main.batch \in Batches
      <4>1. 1 \in 1..Len(results) /\ results[1][1] \in Streams
        BY <3>1 DEF Typed
      <4>2. main.batch \in 1..Len(Width) + 1 /\ Len(Width) \in Nat
        BY StreamFacts DEF Typed, MainRec
      <4>3. results[1][1] \in Of(main.batch)
        BY <4>1 DEF Verdicts, ResultsRight
      <4>4. main.batch = results[1][1][1]
        BY <4>3 DEF Of
      <4> QED
        BY <4>1, <4>4, StreamFacts
    <3> QED
      BY <3>1
  <2>2. \A i \in 1..Len(results') : \E j \in 1..Len(results) : results'[i] = results[j]
    BY <1>1
  <2> QED
    BY <1>1, <2>1, <2>2, ResultsKept
<1>2. ASSUME results # << >>, results' = Tail(results), main'.batch = main.batch,
             main.batch \in Batches
      PROVE  ResultsRight'
  <2>1. \A i \in 1..Len(results') : i + 1 \in 1..Len(results) /\ results'[i] = results[i + 1]
    <3>1. \A T : \A q \in Seq(T) : q # << >> => \A i \in 1..Len(Tail(q)) :
            i + 1 \in 1..Len(q) /\ Tail(q)[i] = q[i + 1]
      OBVIOUS
    <3> DEFINE T == Streams \X {"ok", "reset", "malformed", "cancelled"}
    <3>2. results \in Seq(T)
      BY DEF Typed
    <3> HIDE DEF T
    <3> QED
      BY <1>2, <3>1, <3>2
  <2> QED
    BY <1>2, <2>1, ResultsKept
<1>3. CASE AbortDrain
  BY <1>1, <1>2, <1>3, AbortEffect
<1>4. CASE ReadResult
  BY <1>2, <1>4, ReadResultEffect
<1>5. CASE ReadDone
  <2>1. results' = results /\ results = << >>
    BY <1>5, ReadDoneEffect, AllOver DEF ReadDone, Returns, collVars, AtWork
  <2> QED
    BY <1>1, <2>1
<1>6. ASSUME NEW o \in BOOLEAN, Deliver(o)
      PROVE  ResultsRight'
  <2>1. PICK s : s = pump.frame.stream
    OBVIOUS
  <2>2. CASE o \/ pump.frame.end
    <3>1. PICK kind \in {"ok", "malformed", "cancelled"} :
            /\ results' = Append(results, <<s, kind>>)
            /\ kind = "ok" => Accepted(s)'
            /\ kind = "cancelled" => cause'[main.batch] # "none"
      BY <1>6, <2>1, <2>2, DeliverEffect
    <3>2. s \in Streams /\ coll[s].at = "run" /\ main' = main
      BY <1>6, <2>1, DeliverEffect
    <3> QED
      BY <3>1, <3>2, ResultAppended
  <2>3. CASE ~(o \/ pump.frame.end)
    <3>1. results' = results /\ main' = main
      BY <1>6, <2>1, <2>3, DeliverEffect
    <3> QED
      BY <1>1, <3>1
  <2> QED
    BY <2>2, <2>3
<1>7. ASSUME NEW s \in Streams, CollectStep(s)
      PROVE  ResultsRight'
  <2>1. coll[s].at = "run" /\ main' = main /\ s[1] = main.batch /\ main.batch \in Batches
    BY <1>7, CollectEnds, StreamFacts DEF CollectStep, CollectReset, CollectCancelled, Shares
  <2>2. CASE CollectReset(s)
    BY <2>1, <2>2, ResultAppended DEF CollectReset
  <2>3. CASE CollectCancelled(s)
    <3>1. results' = Append(results, <<s, "cancelled">>) /\ cause[main.batch] # "none"
      BY <2>1, <2>3 DEF CollectCancelled
    <3>2. cause'[main.batch] # "none"
      BY <2>1, <3>1, CauseEffect
    <3> QED
      BY <2>1, <3>1, <3>2, ResultAppended
  <2> QED
    BY <1>7, <2>2, <2>3 DEF CollectStep
<1>8. CASE Start \/ Activate \/ FlushHeaders \/ FlushBody \/ Close("start") \/ Close("close")
  <2>1. main'.batch = main.batch
    BY <1>8, StartEffect, ActivateEffect, FlushEffect, CloseEffect
  <2>2. results' = results
    BY <1>8 DEF Start, Activate, FlushHeaders, FlushBody, Close, collVars
  <2> QED
    BY <1>1, <2>1, <2>2
<1>9. ASSUME NEW why \in Endings, SendFail(why)
      PROVE  ResultsRight'
  BY <1>1, <1>9, SendFailEffect DEF SendFail
<1>10. ASSUME UNCHANGED <<main, results>>
       PROVE  ResultsRight'
  BY <1>1, <1>10
<1>11. CASE \/ PumpRead \/ PumpEOF \/ PumpFatal \/ PumpReset \/ PumpLookup \/ PumpCancelled
            \/ PumpAck \/ PumpRetire \/ PumpFailed
            \/ \E b \in Batches : ContextEnds(b)
            \/ \E s \in Streams, kind \in {"headers", "data", "rst"}, end \in BOOLEAN :
                 PeerSend(s, kind, end)
            \/ \E goaway \in BOOLEAN : PeerLeaves(goaway)
            \/ Closed \/ UNCHANGED vars
  BY <1>10, <1>11 DEF PumpRead, PumpEOF, PumpFatal, PumpReset, PumpLookup, PumpCancelled,
     PumpAck, PumpRetire, PumpFailed, ContextEnds, PeerSend, PeerLeaves, Closed, vars, collVars
<1> QED
  BY <1>3, <1>4, <1>5, <1>6, <1>7, <1>8, <1>9, <1>11 DEF Next, AttemptStep, PumpStep


\* What attempt's goroutine changes besides starting a batch, taking a result
\* and returning.
LEMMA MainEffect ==
  ASSUME Typed, Shares, Addressed, Verdicts, [Next]_vars, ~Start, ~ReadResult, ~ReadDone
  PROVE  /\ main'.batch = main.batch /\ main'.fatal = main.fatal
         /\ main'.streamErr = main.streamErr
         /\ main'.outcome \in {"ok", "reset"} => main'.outcome = main.outcome
         /\ main'.at \in {"activate", "headers", "body", "read"} =>
              /\ main.at \in {"activate", "headers", "body", "read"}
              /\ main.batch \in Batches
         /\ main.at \in {"start", "close", "closed"} => main'.at \in {"start", "close", "closed"}
<1> DEFINE Goal ==
         /\ main'.batch = main.batch /\ main'.fatal = main.fatal
         /\ main'.streamErr = main.streamErr
         /\ main'.outcome \in {"ok", "reset"} => main'.outcome = main.outcome
         /\ main'.at \in {"activate", "headers", "body", "read"} =>
              /\ main.at \in {"activate", "headers", "body", "read"}
              /\ main.batch \in Batches
         /\ main.at \in {"start", "close", "closed"} => main'.at \in {"start", "close", "closed"}
<1>1. CASE Activate
  BY <1>1, ActivateEffect
<1>2. CASE FlushHeaders \/ FlushBody
  BY <1>2, FlushEffect
<1>3. ASSUME NEW why \in Endings, SendFail(why)
      PROVE  Goal
  BY <1>3, SendFailEffect
<1>4. CASE AbortDrain
  BY <1>4, AbortEffect
<1>5. CASE Close("start") \/ Close("close")
  BY <1>5, CloseEffect
<1>6. CASE main' = main
  BY <1>6 DEF Shares
<1>7. CASE \/ PumpStep
           \/ \E s \in Streams : CollectStep(s)
           \/ \E b \in Batches : ContextEnds(b)
           \/ \E s \in Streams, kind \in {"headers", "data", "rst"}, end \in BOOLEAN :
                PeerSend(s, kind, end)
           \/ \E goaway \in BOOLEAN : PeerLeaves(goaway)
           \/ Closed \/ UNCHANGED vars
  <2>1. main' = main
    BY <1>7 DEF PumpStep, PumpRead, PumpEOF, PumpFatal, PumpReset, PumpLookup, Deliver,
       PumpCancelled, PumpAck, PumpRetire, PumpFailed, CollectStep, CollectReset,
       CollectCancelled, ContextEnds, PeerSend, PeerLeaves, Closed, vars
  <2> QED
    BY <1>6, <2>1
<1> QED
  BY <1>1, <1>2, <1>3, <1>4, <1>5, <1>7 DEF Next, AttemptStep

\* A collector that ends leaves its result, and a result stays until it is taken.
LEMMA ListedStays ==
  ASSUME Typed, Typed', Shares, Addressed, Verdicts, [Next]_vars, ~ReadResult, ~AbortDrain
  PROVE  \A s \in Streams :
           /\ Listed(s) => Listed(s)'
           /\ coll'[s].at = "done" => coll[s].at = "done" \/ Listed(s)'
<1>1. ASSUME NEW t \in Streams, NEW kind \in {"ok", "reset", "malformed", "cancelled"},
             results' = Append(results, <<t, kind>>),
             \A s \in Streams \ {t} : coll'[s] = coll[s]
      PROVE  \A s \in Streams :
               /\ Listed(s) => Listed(s)'
               /\ coll'[s].at = "done" => coll[s].at = "done" \/ Listed(s)'
  <2>1. \A T : \A q \in Seq(T), e \in T :
          /\ \A i \in 1..Len(q) : i \in 1..Len(Append(q, e)) /\ Append(q, e)[i] = q[i]
          /\ Len(q) + 1 \in 1..Len(Append(q, e)) /\ Append(q, e)[Len(q) + 1] = e
    OBVIOUS
  <2> DEFINE T == Streams \X {"ok", "reset", "malformed", "cancelled"}
  <2>2. results \in Seq(T) /\ <<t, kind>> \in T
    BY DEF Typed
  <2> HIDE DEF T
  <2>3. \A s \in Streams : Listed(s) => Listed(s)'
    BY <1>1, <2>1, <2>2 DEF Listed
  <2>4. Listed(t)'
    BY <1>1, <2>1, <2>2 DEF Listed
  <2> QED
    BY <1>1, <2>3, <2>4
<1>2. ASSUME results' = results, \A s \in Streams : coll'[s].at = "done" => coll[s].at = "done"
      PROVE  \A s \in Streams :
               /\ Listed(s) => Listed(s)'
               /\ coll'[s].at = "done" => coll[s].at = "done" \/ Listed(s)'
  BY <1>2 DEF Listed
<1>3. CASE Start
  BY <1>2, <1>3, StartEffect, StreamFacts DEF Start, collVars
<1>4. ASSUME NEW o \in BOOLEAN, Deliver(o)
      PROVE  \A s \in Streams :
               /\ Listed(s) => Listed(s)'
               /\ coll'[s].at = "done" => coll[s].at = "done" \/ Listed(s)'
  <2>1. PICK t : t = pump.frame.stream
    OBVIOUS
  <2>2. t \in Streams /\ \A s \in Streams \ {t} : coll'[s] = coll[s]
    BY <1>4, <2>1, DeliverEffect
  <2>3. CASE o \/ pump.frame.end
    <3>1. PICK kind \in {"ok", "malformed", "cancelled"} : results' = Append(results, <<t, kind>>)
      BY <1>4, <2>1, <2>3, DeliverEffect
    <3> QED
      BY <1>1, <2>2, <3>1
  <2>4. CASE ~(o \/ pump.frame.end)
    <3>1. results' = results /\ coll'[t].at = "run"
      BY <1>4, <2>1, <2>4, DeliverEffect
    <3> QED
      BY <1>2, <2>2, <3>1
  <2> QED
    BY <2>3, <2>4
<1>5. ASSUME NEW t \in Streams, CollectStep(t)
      PROVE  \A s \in Streams :
               /\ Listed(s) => Listed(s)'
               /\ coll'[s].at = "done" => coll[s].at = "done" \/ Listed(s)'
  <2>1. coll' = [coll EXCEPT ![t] = [at |-> "done", seq |-> coll[t].seq]]
    BY <1>5, CollectEnds
  <2>2. \A s \in Streams \ {t} : coll'[s] = coll[s]
    BY <2>1 DEF Typed
  <2>3. \E kind \in {"ok", "reset", "malformed", "cancelled"} :
          results' = Append(results, <<t, kind>>)
    BY <1>5 DEF CollectStep, CollectReset, CollectCancelled
  <2> QED
    BY <1>1, <2>2, <2>3
<1>6. CASE UNCHANGED <<coll, results>>
  BY <1>2, <1>6
<1>7. CASE \/ Activate \/ FlushHeaders \/ FlushBody \/ (\E why \in Endings : SendFail(why))
           \/ ReadDone \/ Close("start") \/ Close("close")
           \/ PumpRead \/ PumpEOF \/ PumpFatal \/ PumpReset \/ PumpLookup \/ PumpCancelled
           \/ PumpAck \/ PumpRetire \/ PumpFailed
           \/ (\E b \in Batches : ContextEnds(b))
           \/ (\E s \in Streams, kind \in {"headers", "data", "rst"}, end \in BOOLEAN :
                PeerSend(s, kind, end))
           \/ (\E goaway \in BOOLEAN : PeerLeaves(goaway))
           \/ Closed \/ UNCHANGED vars
  <2>1. UNCHANGED <<coll, results>>
    BY <1>7 DEF Activate, FlushHeaders, FlushBody, SendFail, ReadDone, Returns, Close, PumpRead,
       PumpEOF, PumpFatal, PumpReset, PumpLookup, PumpCancelled, PumpAck, PumpRetire, PumpFailed,
       ContextEnds, PeerSend, PeerLeaves, Closed, vars, collVars
  <2> QED
    BY <1>6, <2>1
<1> QED
  BY <1>3, <1>4, <1>5, <1>7 DEF Next, AttemptStep, PumpStep

LEMMA NoneMissingStep ==
  ASSUME Typed, Typed', Shares, Addressed, Verdicts, [Next]_vars
  PROVE  NoneMissing'
<1> SUFFICES ASSUME main'.at \in {"activate", "headers", "body", "read"}, main'.fatal = "none"
             PROVE  /\ \A s \in Of(main'.batch) : coll'[s].at = "done" =>
                         Listed(s)' \/ Accepted(s)' \/ (s \in rst' /\ main'.streamErr)
                    /\ main'.streamErr => Of(main'.batch) \cap rst' # {}
  BY DEF NoneMissing
<1>1. CASE Start
  BY <1>1, StartEffect, StreamFacts
<1>2. CASE ReadResult
  <2> DEFINE kind == Head(results)[2]
  <2>1. /\ main'.batch = main.batch /\ main.batch \in Batches /\ main.fatal = "none"
        /\ results # << >> /\ results' = Tail(results) /\ kind \in {"ok", "reset"}
        /\ main'.streamErr = (main.streamErr \/ kind = "reset") /\ main.at = "read"
    BY <1>2, ReadResultEffect
  <2>2. coll' = coll /\ rst' = rst
    BY <1>2 DEF ReadResult
  <2>3. PICK t, k : results[1] = <<t, k>> /\ Head(results) = results[1] /\ 1 \in 1..Len(results)
    BY <2>1 DEF Typed
  <2>4. /\ k = kind /\ t \in Of(main.batch) /\ t \in Streams
        /\ k = "ok" => Accepted(t)
        /\ k = "reset" => t \in rst
    BY <2>1, <2>3, StreamFacts DEF Verdicts, ResultsRight
  <2>5. ASSUME NEW s \in Streams, Listed(s), s # t
        PROVE  Listed(s)'
    <3>1. \A T : \A q \in Seq(T) : \A i \in 1..Len(q) :
            i = 1 \/ (i - 1 \in 1..Len(Tail(q)) /\ Tail(q)[i - 1] = q[i])
      OBVIOUS
    <3> DEFINE T == Streams \X {"ok", "reset", "malformed", "cancelled"}
    <3>2. results \in Seq(T)
      BY DEF Typed
    <3> HIDE DEF T
    <3>3. PICK i \in 1..Len(results) : results[i][1] = s
      BY <2>5 DEF Listed
    <3>4. i # 1
      BY <2>3, <2>5, <3>3
    <3> QED
      BY <2>1, <3>1, <3>2, <3>3, <3>4 DEF Listed
  <2>6. ASSUME NEW s \in Of(main.batch), coll[s].at = "done"
        PROVE  Listed(s)' \/ Accepted(s)' \/ (s \in rst' /\ main'.streamErr)
    <3>1. Listed(s) \/ Accepted(s) \/ (s \in rst /\ main.streamErr)
      BY <2>1, <2>6 DEF Verdicts, NoneMissing
    <3>2. s \in Streams
      BY <2>1, StreamFacts
    <3>3. CASE s # t
      BY <2>1, <2>2, <2>5, <3>1, <3>2, <3>3, AcceptedStays
    <3>4. CASE s = t
      BY <2>1, <2>2, <2>4, <3>2, <3>4, AcceptedStays
    <3> QED
      BY <3>3, <3>4
  <2>7. main.streamErr => Of(main.batch) \cap rst # {}
    BY <2>1 DEF Verdicts, NoneMissing
  <2> QED
    BY <2>1, <2>2, <2>4, <2>6, <2>7
<1>3. CASE ~Start /\ ~ReadResult
  <2>1. ~ReadDone /\ ~AbortDrain
    BY ReadDoneEffect, AbortEffect
  <2>2. /\ main'.batch = main.batch /\ main.batch \in Batches /\ main.fatal = "none"
        /\ main'.streamErr = main.streamErr
        /\ main.at \in {"activate", "headers", "body", "read"}
    BY <1>3, <2>1, MainEffect
  <2>3. ASSUME NEW s \in Of(main.batch), coll'[s].at = "done"
        PROVE  Listed(s)' \/ Accepted(s)' \/ (s \in rst' /\ main'.streamErr)
    <3>1. s \in Streams
      BY <2>2, StreamFacts
    <3>2. Listed(s)' \/ (coll[s].at = "done" /\ (Listed(s) => Listed(s)'))
      BY <1>3, <2>1, <2>3, <3>1, ListedStays
    <3>3. coll[s].at = "done" => Listed(s) \/ Accepted(s) \/ (s \in rst /\ main.streamErr)
      BY <2>2 DEF Verdicts, NoneMissing
    <3> QED
      BY <2>2, <3>1, <3>2, <3>3, AcceptedStays, MarkEffect
  <2>4. main.streamErr => Of(main.batch) \cap rst # {}
    BY <2>2 DEF Verdicts, NoneMissing
  <2> QED
    BY <2>2, <2>3, <2>4, MarkEffect
<1> QED
  BY <1>1, <1>2, <1>3

LEMMA FatalStep ==
  ASSUME Typed, Shares, Addressed, Verdicts, [Next]_vars
  PROVE  FatalHasCause'
<1>1. CASE Start
  BY <1>1, StartEffect DEF FatalHasCause
<1>2. ASSUME main'.fatal = main.fatal, main'.batch = main.batch
      PROVE  FatalHasCause'
  BY <1>2, CauseEffect DEF Verdicts, FatalHasCause
<1>3. CASE ReadResult
  <2>1. CASE main'.fatal = main.fatal
    BY <1>2, <1>3, <2>1, ReadResultEffect
  <2>2. CASE main'.fatal # main.fatal
    BY <1>3, <2>2, ReadResultEffect DEF FatalHasCause
  <2> QED
    BY <2>1, <2>2
<1>4. CASE ReadDone
  <2>1. CASE main'.fatal = "none"
    BY <2>1 DEF FatalHasCause
  <2>2. CASE main'.fatal # "none"
    BY <1>2, <1>4, <2>2, ReadDoneEffect
  <2> QED
    BY <2>1, <2>2
<1> QED
  BY <1>1, <1>2, <1>3, <1>4, MainEffect

\* When a batch returns with its connection, all its streams are over.
LEMMA OutcomeStep ==
  ASSUME Typed, Shares, Addressed, Verdicts, [Next]_vars
  PROVE  EarlierOver' /\ OutcomeRight'
<1>0. main.batch \in Nat /\ \A s \in Streams : s[1] \in Nat /\ s[1] \in Batches
  BY StreamFacts DEF Typed, MainRec, Batches
<1>1. ASSUME NEW s \in Streams, Accepted(s) \/ (s \in rst /\ coll[s].at = "done")
      PROVE  Accepted(s)' \/ (s \in rst' /\ coll'[s].at = "done")
  BY <1>1, AcceptedStays, MarkEffect, DoneStays
<1>2. ASSUME main'.batch = main.batch
      PROVE  EarlierOver'
  BY <1>1, <1>2 DEF Verdicts, EarlierOver
<1>3. ASSUME main'.batch = main.batch,
             main'.outcome \in {"ok", "reset"} => main'.outcome = main.outcome
      PROVE  OutcomeRight'
  <2>1. \A s \in Of(main.batch - 1) : main.batch - 1 \in Batches => s \in Streams
    BY StreamFacts
  <2> QED
    BY <1>3, <2>1, AcceptedStays, MarkEffect DEF Verdicts, OutcomeRight
<1>4. CASE ReadDone
  <2>1. CASE main'.at = "start"
    <3>1. /\ main.at = "read" /\ main.fatal = "none" /\ main.got = Width[main.batch]
          /\ main'.batch = main.batch + 1 /\ main.batch \in Batches
          /\ main'.outcome = IF main.streamErr THEN "reset" ELSE "ok"
      BY <1>4, <2>1, ReadDoneEffect
    <3>2. /\ \A s \in Of(main.batch) : Accepted(s) \/ (s \in rst /\ main.streamErr)
          /\ \A s \in Of(main.batch) : coll[s].at = "done"
          /\ main.streamErr => Of(main.batch) \cap rst # {}
      BY <3>1, CleanEnd
    <3>3. ASSUME NEW s \in Streams, s[1] < main.batch + 1
          PROVE  Accepted(s) \/ (s \in rst /\ coll[s].at = "done")
      <4>1. s[1] < main.batch \/ s \in Of(main.batch)
        BY <1>0, <3>3, StreamFacts
      <4> QED
        BY <3>2, <4>1 DEF Verdicts, EarlierOver
    <3>4. EarlierOver'
      BY <1>1, <3>1, <3>3 DEF EarlierOver
    <3>5. main'.batch - 1 = main.batch
      BY <1>0, <3>1
    <3>6. main'.outcome = "ok" => \A s \in Of(main.batch) : Accepted(s)'
      BY <3>1, <3>2, StreamFacts, AcceptedStays
    <3>7. main'.outcome = "reset" => Of(main.batch) \cap rst' # {}
      BY <3>1, <3>2, MarkEffect
    <3> QED
      BY <3>1, <3>4, <3>5, <3>6, <3>7 DEF OutcomeRight
  <2>2. CASE main'.at # "start"
    BY <1>2, <1>3, <1>4, <2>2, ReadDoneEffect
  <2> QED
    BY <2>1, <2>2
<1>5. CASE Start
  BY <1>2, <1>3, <1>5, StartEffect
<1>6. CASE ReadResult
  BY <1>2, <1>3, <1>6, ReadResultEffect
<1> QED
  BY <1>2, <1>3, <1>4, <1>5, <1>6, MainEffect

LEMMA VerdictsStep ==
  ASSUME Typed, Typed', Shares, Addressed, Verdicts, [Next]_vars
  PROVE  Verdicts'
BY MarkedStep, ResultsStep, NoneMissingStep, FatalStep, OutcomeStep DEF Verdicts


-----------------------------------------------------------------------------
(* What ends a batch is its own *)

LEMMA SendersStep ==
  ASSUME Typed, Shares, Addressed, Verdicts, SendersTold, [Next]_vars
  PROVE  SendersTold'
<1>1. CASE PumpReset /\ sendErr' # sendErr
  <2>1. /\ pump.at = "dispatch" /\ pump.frame.kind = "rst" /\ pump.resp # NoBatch
        /\ pump.frame.stream \in collectors
        /\ sendErr' = sendErr \cup {pump.resp} /\ rst' = rst \cup {pump.frame.stream}
    BY <1>1 DEF PumpReset
  <2>2. pump.frame.stream \in Of(pump.resp)
    BY <2>1, AtDispatch, StreamFacts
  <2> QED
    BY <2>1, <2>2 DEF SendersTold
<1>2. CASE sendErr' \subseteq sendErr
  BY <1>2, MarkEffect DEF SendersTold
<1>3. (PumpReset /\ sendErr' # sendErr) \/ sendErr' \subseteq sendErr
  BY DEF Next, AttemptStep, PumpStep, Activate, FlushHeaders, FlushBody, SendFail, AbortDrain,
     ReadResult, ReadDone, Returns, Start, Close, PumpRead, PumpEOF, PumpFatal, PumpLookup, Deliver,
     PumpCancelled, PumpAck, PumpRetire, PumpFailed, ContextEnds, PeerSend, PeerLeaves, Closed,
     CollectStep, CollectReset, CollectCancelled, vars, collVars
<1> QED
  BY <1>1, <1>2, <1>3

\* Batches follow one another, and only the return of one starts the next.
LEMMA BatchMoves ==
  ASSUME Typed, Shares, Addressed, Verdicts, [Next]_vars
  PROVE  \/ main'.batch = main.batch
         \/ ReadDone /\ main.fatal = "none" /\ main'.batch = main.batch + 1
BY StartEffect, ReadResultEffect, ReadDoneEffect, MainEffect

LEMMA ReturnedStep ==
  ASSUME Typed, Shares, Addressed, Verdicts, ReturnedEarlier, [Next]_vars
  PROVE  ReturnedEarlier'
<1>0. main.batch \in Nat /\ Batches \subseteq Nat
  BY DEF Typed, MainRec, Batches
<1>1. ASSUME NEW b \in Batches, cause'[b] = "returned"
      PROVE  b < main'.batch
  <2>1. CASE cause[b] = "returned"
    BY <1>0, <2>1, BatchMoves DEF ReturnedEarlier
  <2>2. CASE cause[b] # "returned"
    <3>1. ReadDone /\ b = main.batch /\ cause[b] = "none"
      BY <1>1, <2>2, CauseEffect
    <3>2. main.fatal = "none"
      BY <3>1 DEF Verdicts, FatalHasCause
    <3> QED
      BY <1>0, <3>1, <3>2, ReadDoneEffect
  <2> QED
    BY <2>1, <2>2
<1>2. ASSUME NEW b \in Batches, b < main'.batch
      PROVE  cause'[b] # "none"
  <2>1. CASE b < main.batch
    <3>1. cause[b] # "none"
      BY <2>1 DEF ReturnedEarlier
    <3> QED
      BY <3>1, CauseEffect
  <2>2. CASE ~(b < main.batch)
    <3>1. ReadDone /\ b = main.batch
      BY <1>0, <1>2, <2>2, BatchMoves
    <3> QED
      BY <3>1, ReadDoneEffect, Causal DEF Causes
  <2> QED
    BY <2>1, <2>2
<1> QED
  BY <1>1, <1>2 DEF ReturnedEarlier

\* A batch does not return while the pump waits for one of its collectors.
LEMMA SelectStep ==
  ASSUME Typed, Shares, Addressed, Verdicts, ReturnedEarlier, SelectFresh, [Next]_vars
  PROVE  SelectFresh'
<1> SUFFICES ASSUME pump'.at = "select"
             PROVE  /\ cause'[pump'.resp] # "returned"
                    /\ cause'[pump'.resp] = "none" =>
                         pump'.frame.stream \in collectors' /\ pump'.frame.stream[1] = pump'.resp
  BY DEF SelectFresh
<1>0. main.batch \in Nat /\ Batches \subseteq Nat /\ NoBatch \notin Batches
  BY StreamFacts DEF Typed, MainRec, Batches
<1>1. CASE PumpStep
  <2>0. ~PumpRead
    BY DEF PumpRead
  <2>1. /\ PumpLookup /\ pump.at = "dispatch" /\ pump'.frame = pump.frame /\ pump'.resp = pump.resp
        /\ pump.frame.stream \in collectors /\ pump.frame.kind \in {"headers", "data"}
    BY <1>1, <2>0, PumpEffect
  <2>2. UNCHANGED <<cause, collectors>> /\ pump.resp # NoBatch
    BY <2>1 DEF PumpLookup, batchVars
  <2>3. pump.frame.stream[1] = main.batch /\ pump.resp = main.batch /\ main.batch \in Batches
    BY <2>1, <2>2, AtDispatch
  <2>4. cause[main.batch] # "returned"
    BY <1>0, <2>3 DEF ReturnedEarlier
  <2> QED
    BY <2>1, <2>2, <2>3, <2>4
<1>2. CASE ~PumpStep
  <2>1. pump' = pump
    BY <1>2 DEF Next, AttemptStep, Activate, FlushHeaders, FlushBody, SendFail, AbortDrain,
       ReadResult, ReadDone, Returns, Start, Close, ContextEnds, PeerSend, PeerLeaves, Closed,
       CollectStep, CollectReset, CollectCancelled, vars, pumpVars
  <2> DEFINE s == pump.frame.stream
  <2>2. /\ pump.at = "select" /\ pump.resp \in Batches /\ pump.resp <= main.batch
        /\ s \in Streams /\ pump.frame.kind \in {"headers", "data"}
    BY <2>1 DEF Addressed, Working, Known, Typed, PumpRec
  <2>3. /\ cause[pump.resp] # "returned"
        /\ cause[pump.resp] = "none" => s \in collectors /\ s[1] = pump.resp
    BY <2>2 DEF SelectFresh
  <2>4. cause[pump.resp] = "none" => pump.resp = main.batch
    <3>0. pump.resp \in Nat /\ pump.resp <= main.batch /\ main.batch \in Nat
      BY <1>0, <2>2
    <3>1. pump.resp < main.batch \/ pump.resp = main.batch
      BY <3>0
    <3>2. pump.resp < main.batch => cause[pump.resp] # "none"
      BY <2>2 DEF ReturnedEarlier
    <3> QED
      BY <3>1, <3>2
  <2>5. ASSUME cause'[pump.resp] = "returned"
        PROVE  FALSE
    <3>1. ReadDone /\ pump.resp = main.batch /\ cause[main.batch] = "none"
      BY <2>2, <2>3, <2>5, CauseEffect
    <3>2. main.fatal = "none" /\ main.at = "read" /\ main.got = Width[main.batch]
      BY <3>1, ReadDoneEffect DEF Verdicts, FatalHasCause
    <3>3. s \in collectors /\ s \in Of(main.batch)
      BY <2>2, <2>3, <3>1, StreamFacts
    <3>4. Accepted(s) \/ s \in rst
      BY <3>2, <3>3, CleanEnd
    <3> QED
      BY <2>2, <3>3, <3>4 DEF Accepted, Delivering, Verdicts, MarkedReset
  <2>6. ASSUME cause'[pump.resp] = "none"
        PROVE  s \in collectors' /\ s[1] = pump.resp
    <3>1. cause[pump.resp] = "none"
      BY <2>2, <2>6, CauseEffect
    <3>2. pump.resp = main.batch /\ s \in collectors /\ s[1] = pump.resp
      BY <2>3, <2>4, <3>1
    <3>3. ~PumpReset /\ ~PumpRetire /\ ~PumpFailed
      BY <1>2 DEF PumpStep
    <3> QED
      BY <2>6, <3>2, <3>3, CauseEffect
  <2> QED
    BY <2>1, <2>5, <2>6
<1> QED
  BY <1>1, <1>2

LEMMA FailureStep ==
  ASSUME Typed, Shares, Addressed, Verdicts, SelectFresh, FailureTold, [Next]_vars
  PROVE  FailureTold'
<1>1. ASSUME NEW e \in {"eof", "goaway", "orphan"} \cup (Causes \ {"returned"}), Fails(e), main' = main
      PROVE  FailureTold'
  <2>1. pump'.at = "fail" /\ pump'.resp = response
    BY <1>1 DEF Fails, Typed, PumpRec
  <2>2. pumpErr' # "returned" /\ pumpErr' # "none"
    BY <1>1 DEF Fails, FailureTold, Causes
  <2> QED
    BY <1>1, <2>1, <2>2 DEF FailureTold, Addressed
<1>2. CASE PumpEOF \/ PumpFatal
  BY <1>1, <1>2 DEF PumpEOF, PumpFatal
<1>3. CASE PumpCancelled
  <2>1. /\ pump.at = "select" /\ cause[pump.resp] # "none" /\ Fails(cause[pump.resp])
        /\ main' = main
    BY <1>3 DEF PumpCancelled
  <2>2. pump.resp \in Batches
    BY <2>1 DEF Addressed, Typed, PumpRec
  <2>3. cause[pump.resp] \in Causes \ {"returned"}
    BY <2>1, <2>2 DEF SelectFresh, Typed
  <2> QED
    BY <1>1, <2>1, <2>3
<1>4. CASE PumpAck
  BY <1>1, <1>4 DEF PumpAck, Typed, PumpRec, FailureTold
<1>5. CASE PumpFailed
  BY <1>5 DEF PumpFailed, FailureTold, Typed, PumpRec
<1>6. CASE PumpRead \/ PumpReset \/ PumpRetire
  <2>0. pump \in PumpRec
    BY DEF Typed
  <2>1. pumpErr' = pumpErr /\ pump'.at \in {"dispatch", "read"}
    <3>1. CASE PumpRead
      BY <3>1 DEF PumpRead
    <3>2. CASE PumpReset
      BY <2>0, <3>2 DEF PumpReset, PumpRec
    <3>3. CASE PumpRetire
      BY <2>0, <3>3 DEF PumpRetire, PumpRec
    <3> QED
      BY <1>6, <3>1, <3>2, <3>3
  <2> QED
    BY <2>1 DEF FailureTold
<1>7. CASE PumpLookup \/ \E o \in BOOLEAN : Deliver(o)
  <2>1. pumpErr' = pumpErr /\ ~PumpRead /\ PumpStep
    BY <1>7 DEF PumpLookup, Deliver, PumpRead, PumpStep
  <2>2. pump'.at \in {"select", "ack", "retire"}
    <3>1. CASE PumpLookup /\ pump.frame.stream \in collectors
      BY <3>1 DEF PumpLookup, Typed, PumpRec
    <3>2. CASE PumpLookup /\ pump.frame.stream \notin collectors
      BY <3>2, CountTypes DEF PumpLookup, Typed, PumpRec
    <3>3. ASSUME NEW o \in BOOLEAN, Deliver(o)
          PROVE  pump'.at \in {"select", "ack", "retire"}
      BY <3>3, RightBatch, CountTypes DEF Deliver
    <3> QED
      BY <1>7, <3>1, <3>2, <3>3
  <2> QED
    BY <2>1, <2>2 DEF FailureTold
<1>8. CASE ~PumpStep
  <2>1. UNCHANGED <<pump, pumpErr>>
    BY <1>8 DEF Next, AttemptStep, Activate, FlushHeaders, FlushBody, SendFail, AbortDrain,
       ReadResult, ReadDone, Returns, Start, Close, ContextEnds, PeerSend, PeerLeaves, Closed,
       CollectStep, CollectReset, CollectCancelled, vars, pumpVars
  <2>2. ASSUME pump.at = "fail"
        PROVE  pump.resp \in {NoBatch, main'.batch} \/ main'.at \in {"start", "close", "closed"}
    <3>1. pumpErr # "none" /\ \/ pump.resp \in {NoBatch, main.batch}
                              \/ main.at \in {"start", "close", "closed"}
      BY <2>2 DEF FailureTold
    <3>2. CASE Start
      BY <3>1, <3>2, StartEffect
    <3>3. CASE ReadResult
      BY <3>1, <3>3, ReadResultEffect
    <3>4. CASE ReadDone
      BY <3>4, ReadDoneEffect
    <3> QED
      BY <3>1, <3>2, <3>3, <3>4, MainEffect
  <2> QED
    BY <2>1, <2>2 DEF FailureTold
<1> QED
  BY <1>2, <1>3, <1>4, <1>5, <1>6, <1>7, <1>8 DEF PumpStep

LEMMA DeliveredStep ==
  ASSUME Typed, Typed', Shares, Addressed, Verdicts, DeliveredOver, [Next]_vars
  PROVE  DeliveredOver'
<1> SUFFICES ASSUME pump'.at \in {"ack", "retire"}, pump'.delivered, pump'.frame.end
             PROVE  coll'[pump'.frame.stream].at = "done"
  BY DEF DeliveredOver
<1>1. ASSUME pump.at \in {"ack", "retire"}, pump.delivered, pump'.frame = pump.frame
      PROVE  coll'[pump'.frame.stream].at = "done"
  <2>1. coll[pump.frame.stream].at = "done" /\ pump.frame.stream \in Streams
    BY <1>1 DEF DeliveredOver, Addressed, Working, Known
  <2> QED
    BY <1>1, <2>1, DoneStays
<1>2. CASE PumpStep
  <2>0. ~PumpRead
    BY DEF PumpRead
  <2>1. ASSUME NEW o \in BOOLEAN, Deliver(o), pump'.frame = pump.frame
        PROVE  coll'[pump'.frame.stream].at = "done"
    <3>1. PICK s : s = pump.frame.stream
      OBVIOUS
    <3> QED
      BY <2>1, <3>1, DeliverEffect
  <2> QED
    BY <1>1, <1>2, <2>0, <2>1, PumpEffect
<1>3. CASE ~PumpStep
  <2>1. pump' = pump
    BY <1>3 DEF Next, AttemptStep, Activate, FlushHeaders, FlushBody, SendFail, AbortDrain,
       ReadResult, ReadDone, Returns, Start, Close, ContextEnds, PeerSend, PeerLeaves, Closed,
       CollectStep, CollectReset, CollectCancelled, vars, pumpVars
  <2> QED
    BY <1>1, <2>1
<1> QED
  BY <1>2, <1>3

LEMMA RunningStep ==
  ASSUME Typed, Shares, Addressed, Verdicts, FailureTold, DeliveredOver, RunningKnown, [Next]_vars
  PROVE  RunningKnown'
<1> SUFFICES ASSUME main'.at \in {"activate", "headers", "body", "read"},
                    cause'[main'.batch] = "none",
                    NEW s \in Of(main'.batch), coll'[s].at = "run", s \notin rst'
             PROVE  s \in collectors'
  BY DEF RunningKnown
<1>1. CASE Start
  BY <1>1, StartEffect
<1>2. CASE ~Start
  <2>1. /\ main'.batch = main.batch /\ main.batch \in Batches
        /\ main.at \in {"activate", "headers", "body", "read"}
    BY <1>2, ReadResultEffect, ReadDoneEffect, MainEffect
  <2>2. cause[main.batch] = "none" /\ s \in Streams
    BY <2>1, CauseEffect, StreamFacts
  <2>3. coll[s].at = "run" /\ s \notin rst
    BY <1>2, <2>2, DoneStays, MarkEffect
  <2>4. s \in collectors
    BY <2>1, <2>2, <2>3 DEF RunningKnown
  <2>5. ~(PumpRetire /\ s = pump.frame.stream /\ pump.frame.end /\ pump.delivered)
    BY <2>3 DEF PumpRetire, DeliveredOver
  <2>6. ~(PumpFailed /\ pump.resp # NoBatch /\ cause'[pump.resp] # "none")
    BY <2>1 DEF PumpFailed, FailureTold
  <2> QED
    BY <2>1, <2>4, <2>5, <2>6, CauseEffect
<1> QED
  BY <1>1, <1>2

LEMMA EndsStep ==
  ASSUME Typed, Typed', Shares, Addressed, Verdicts, Ends, [Next]_vars
  PROVE  Ends'
BY SendersStep, ReturnedStep, SelectStep, FailureStep, DeliveredStep, RunningStep DEF Ends


-----------------------------------------------------------------------------
(* The invariant and what follows from it *)

Invariant == Typed /\ Shares /\ Addressed /\ Ranks /\ Verdicts /\ Ends

LEMMA Initially == Init => Invariant
<1> SUFFICES ASSUME Init
             PROVE  Invariant
  OBVIOUS
<1> USE StreamFacts
<1>1. main = [at |-> "start", batch |-> 1, got |-> 0, streamErr |-> FALSE, fatal |-> "none",
              outcome |-> "none"]
      /\ pump = [at |-> "read", frame |-> NoFrame, resp |-> NoBatch, delivered |-> FALSE]
  BY DEF Init, NewMain
<1>2. main \in MainRec /\ pump \in PumpRec
  BY <1>1 DEF MainRec, PumpRec, NoFrame, Frame
<1>3. Typed
  <2>1. wire \in Seq(Frame) /\ Len(wire) = 0 /\ 0 <= MaxWire
    BY BatchAssumption DEF Init
  <2>2. coll \in [Streams -> [at : {"off", "run", "done"}, seq : Nat \cup {-1}]]
    BY DEF Init
  <2>3. results \in Seq(Streams \X {"ok", "reset", "malformed", "cancelled"}) /\ order \in Seq(Streams)
    BY DEF Init
  <2> QED
    BY <1>2, <2>1, <2>2, <2>3 DEF Init, Typed
<1>4. Shares
  BY <1>1 DEF Init, Shares, AtWork
<1>5. Addressed
  BY <1>1 DEF Init, Addressed, Working
<1>6. Ranks
  BY <1>1 DEF Init, Ranks, RanksFollowWire, Ranked, InOrder, Pending, Holding, Before
<1>7. \A s \in Streams : ~(s[1] < main.batch)
  BY <1>1 DEF Batches
<1>8. Verdicts
  BY <1>1, <1>7 DEF Init, Verdicts, MarkedReset, ResultsRight, NoneMissing, FatalHasCause,
     EarlierOver, OutcomeRight
<1>9. Ends
  BY <1>1 DEF Init, Ends, SendersTold, ReturnedEarlier, SelectFresh, FailureTold, DeliveredOver,
     RunningKnown, Batches
<1> QED
  BY <1>3, <1>4, <1>5, <1>6, <1>8, <1>9 DEF Invariant

\* Every step of the pump, of the collectors, of attempt and of the peer keeps
\* the invariant.
LEMMA InvariantStep == Invariant /\ [Next]_vars => Invariant'
BY TypeStep, SharesStep, AddressedStep, RanksStep, VerdictsStep, EndsStep DEF Invariant

LEMMA Always == Spec => []Invariant
BY Initially, InvariantStep, PTL DEF Spec

\* Whatever the peer answers, resets or drops, and wherever a batch is
\* cancelled, the pump, the collectors and attempt stay in their states.
THEOREM BatchTypeCorrect == Spec => []TypeOK
<1>1. Invariant => TypeOK
  BY TypedIs DEF Invariant
<1> QED
  BY <1>1, Always, PTL

\* The arrival numbers that the pump writes into a batch's responses are the
\* order in which their final headers came off the connection, whatever order
\* the collector goroutines ran in and whatever else came in between.
THEOREM RanksHold == Spec => []RanksFollowWire
<1>1. Invariant => RanksFollowWire
  BY DEF Invariant, Ranks
<1> QED
  BY <1>1, Always, PTL

\* A connection is kept only when every stream of its batch is over on both
\* sides, a reset or a cancellation of one batch never reaches the next, the end
\* of a batch never fails the pump of a kept connection, and while a batch lives
\* the pump knows each of its collectors that waits.
THEOREM Isolated == Spec => []BatchesIsolated
<1>1. Invariant => BatchesIsolated
  <2> SUFFICES ASSUME Invariant
               PROVE  BatchesIsolated
    OBVIOUS
  <2>1. ASSUME NEW b \in Batches, Kept(b)
        PROVE  /\ \A s \in Of(b) : peer[s] \in {"ended", "reset"} /\ coll[s].at = "done"
               /\ main.outcome = "ok" => \A s \in Of(b) : coll[s].seq >= 0 /\ s \notin rst
               /\ main.outcome = "reset" => Of(b) \cap rst # {}
    <3>1. main.batch = b + 1 /\ main.outcome \in {"ok", "reset"} /\ b \in Nat
      BY <2>1 DEF Kept, Batches
    <3>2. main.batch - 1 = b /\ b < main.batch
      BY <3>1
    <3>3. \A s \in Of(b) : s \in Streams /\ s[1] = b
      BY StreamFacts
    <3>4. \A s \in Of(b) : Accepted(s) \/ (s \in rst /\ coll[s].at = "done")
      BY <3>2, <3>3 DEF Invariant, Verdicts, EarlierOver
    <3>5. \A s \in Of(b) : peer[s] \in {"ended", "reset"} /\ coll[s].at = "done"
      BY <3>4 DEF Accepted, Invariant, Verdicts, MarkedReset
    <3>6. main.outcome = "ok" => \A s \in Of(b) : Accepted(s)
      BY <3>2 DEF Invariant, Verdicts, OutcomeRight
    <3>7. main.outcome = "reset" => Of(b) \cap rst # {}
      BY <3>2 DEF Invariant, Verdicts, OutcomeRight
    <3> QED
      BY <3>5, <3>6, <3>7 DEF Accepted
  <2>2. \A b \in sendErr : Of(b) \cap rst # {}
    BY DEF Invariant, Ends, SendersTold
  <2>3. pumpErr # "returned"
    BY DEF Invariant, Ends, FailureTold
  <2>4. main.at \in {"headers", "body", "read"} /\ cause[main.batch] = "none"
          => \A s \in Of(main.batch) : coll[s].at = "run" /\ s \notin rst => s \in collectors
    BY DEF Invariant, Ends, RunningKnown
  <2> QED
    BY <2>1, <2>2, <2>3, <2>4 DEF BatchesIsolated
<1> QED
  BY <1>1, Always, PTL
=============================================================================
