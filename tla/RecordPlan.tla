----------------------------- MODULE RecordPlan -----------------------------
(***************************************************************************)
(* How a body that does not fit one TLS record is cut into records         *)
(* (src/tth2/conn.go).  len, sent and caps are sequences over the streams  *)
(* of a batch: body length, bytes already sent, and the most that may be   *)
(* sent now.  A plan gives the bytes each stream contributes to the next   *)
(* record; a plan without bytes is the code's nil.                         *)
(***************************************************************************)
EXTENDS Integers, Sequences, FiniteSetsExt, SequencesExt

CONSTANTS
  Budget,      \* tlsRecordPlaintextBudget
  FrameHeader, \* http2FrameHeaderSize
  Floor,       \* greedyCreditRecordFloor
  UsefulCap,   \* the 64 bytes below which a frame is microscopic
  Lead         \* the 32 of "one thirty-second of its body"

ASSUME PlanAssumption ==
  /\ Budget \in Nat /\ FrameHeader \in Nat /\ Floor \in Nat
  /\ UsefulCap \in Nat /\ Lead \in Nat \ {0}
  /\ Budget > FrameHeader

Carrying(len) == {i \in DOMAIN len : len[i] > 0}
Nothing(len) == [i \in DOMAIN len |-> 0]

\* The element of a one-element set: it binds a value that is used repeatedly.
Only(T) == CHOOSE x \in T : TRUE

Payload(plan) == FoldLeft(+, 0, plan)

\* Frame headers are charged for the streams that contribute bytes.
RecordBytes(plan) ==
  Payload(plan) + FrameHeader * Cardinality({i \in DOMAIN plan : plan[i] > 0})

\* lessBodyProgress: normalised progress after a proposed record.
LessBodyProgress(len, sent, plan, a, b) ==
  (sent[a] + plan[a]) * len[b] < (sent[b] + plan[b]) * len[a]

\* The scan for the least-progressed stream keeps the first of equals.
LeastProgressed(len, sent, plan, S) ==
  CHOOSE a \in S :
    \A b \in S \ {a} : \/ LessBodyProgress(len, sent, plan, a, b)
                       \/ a < b /\ ~LessBodyProgress(len, sent, plan, b, a)

-----------------------------------------------------------------------------
\* One fraction of the scale brings every stream to the same progress.
ProgressScale(len) ==
  LET longest == Max({len[i] : i \in Carrying(len)})
  IN  2 ^ (CHOOSE k \in 1..longest : 2 ^ (k - 1) <= longest /\ longest < 2 ^ k)

Towards(len, sent, caps, progress) ==
  [i \in DOMAIN len |->
     Min({caps[i],
          Max({0, (progress * len[i]) \div ProgressScale(len) - sent[i]})})]

Fits(plan, credit) == Payload(plan) <= credit /\ RecordBytes(plan) <= Budget

\* The binary search: the furthest common progress that fits.
CommonProgress(len, sent, caps, credit) ==
  Towards(len, sent, caps,
          Max({q \in 0..ProgressScale(len) :
                 Fits(Towards(len, sent, caps, q), credit)}))

\* The residual pass: one more byte for the least-progressed stream that has
\* room for it, while there is credit.
OneMoreByte(len, sent, caps, credit, plan) ==
  LET room == {i \in Carrying(len) :
                 plan[i] < caps[i]
                 /\ Fits([plan EXCEPT ![i] = @ + 1], credit)}
  IN  IF room = {} THEN plan
      ELSE [plan EXCEPT ![LeastProgressed(len, sent, plan, room)] = @ + 1]

PlanGreedyIntermediateRecord(len, sent, caps, credit) ==
  LET after[k \in 0..Min({credit, Budget})] ==
        IF k = 0 THEN CommonProgress(len, sent, caps, credit)
        ELSE Only({OneMoreByte(len, sent, caps, credit, plan) :
                     plan \in {after[k - 1]}})
  IN  after[Min({credit, Budget})]

-----------------------------------------------------------------------------
\* The most a stream may lead the others in one scarce record.
LeadBudget(len, i) == Max({1, (len[i] + Lead - 1) \div Lead})

\* A stream behind the furthest one by a granule of its body.
Lagging(len, sent, i) ==
  \E j \in Carrying(len) :
    LET behind == sent[j] * len[i] - sent[i] * len[j]
    IN  behind >= len[j] /\ Lead * behind >= len[j] * len[i]

ScarceCandidates(len, sent, caps) ==
  LET useful == Min({UsefulCap, Max({caps[i] : i \in Carrying(len)})})
  IN  {i \in Carrying(len) :
         caps[i] > 0 /\ (caps[i] >= useful \/ Lagging(len, sent, i))}

\* One turn of the loop: a chunk for the least-progressed candidate.
ScarceChunk(len, sent, caps, credit, plan) ==
  LET open == {i \in ScarceCandidates(len, sent, caps) :
                 /\ plan[i] < caps[i] /\ plan[i] < LeadBudget(len, i)
                 /\ plan[i] = 0 => RecordBytes(plan) + FrameHeader + 1 <= Budget}
      best == LeastProgressed(len, sent, plan, open)
      header == IF plan[best] = 0 THEN FrameHeader ELSE 0
      chunk == Min({credit - Payload(plan), caps[best] - plan[best],
                    LeadBudget(len, best) - plan[best],
                    Budget - RecordBytes(plan) - header})
  IN  IF open = {} \/ chunk <= 0 THEN plan ELSE [plan EXCEPT ![best] = @ + chunk]

PlanScarceCreditRecord(len, sent, caps, credit) ==
  LET after[k \in 0..Min({credit, Budget})] ==
        IF k = 0 THEN Nothing(len)
        ELSE Only({ScarceChunk(len, sent, caps, credit, plan) :
                     plan \in {after[k - 1]}})
  IN  after[Min({credit, Budget})]

-----------------------------------------------------------------------------
\* The choice of sendGreedyBodyPhase: below the floor the scarce plan is taken
\* when it leaves no byte unsent that the greedy one would send.
Preferred(greedy, scarce) ==
  IF /\ Payload(greedy) > 0 /\ RecordBytes(greedy) < Floor
     /\ \/ Payload(scarce) > Payload(greedy)
        \/ /\ Payload(scarce) = Payload(greedy)
           /\ RecordBytes(scarce) <= RecordBytes(greedy)
  THEN scarce ELSE greedy

PlanRecord(len, sent, caps, credit) ==
  Only({Preferred(g, s) :
          g \in {PlanGreedyIntermediateRecord(len, sent, caps, credit)},
          s \in {PlanScarceCreditRecord(len, sent, caps, credit)}})
=============================================================================
