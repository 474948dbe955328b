-------------------------- MODULE OriginPoolProofs --------------------------
(***************************************************************************)
(* Proofs about OriginPool for every number of callers, closers,           *)
(* connections and slots.                                                  *)
(***************************************************************************)
EXTENDS OriginPool, FiniteSetTheorems, SequenceTheorems, TLAPS

\* The number of callers in a set S of places, when caller c moves from its
\* place to another.
LEMMA CountMove ==
  ASSUME NEW S, NEW f \in [Callers -> Places], NEW c \in Callers, NEW to,
         IsFiniteSet(Callers)
  PROVE  LET In(g) == {d \in Callers : g[d] \in S}
             g == [f EXCEPT ![c] = to]
         IN  /\ Cardinality(In(f)) \in Nat
             /\ Cardinality(In(g)) \in Nat
             /\ f[c] \in S /\ to \in S => Cardinality(In(g)) = Cardinality(In(f))
             /\ f[c] \notin S /\ to \notin S =>
                  Cardinality(In(g)) = Cardinality(In(f))
             /\ f[c] \in S /\ to \notin S =>
                  Cardinality(In(g)) = Cardinality(In(f)) - 1
             /\ f[c] \notin S /\ to \in S =>
                  Cardinality(In(g)) = Cardinality(In(f)) + 1
<1> DEFINE In(h) == {d \in Callers : h[d] \in S}
           g == [f EXCEPT ![c] = to]
<1>1. IsFiniteSet(In(f)) /\ IsFiniteSet(In(g))
  BY FS_Subset
<1>2. Cardinality(In(f)) \in Nat /\ Cardinality(In(g)) \in Nat
  BY <1>1, FS_CardinalityType
<1>3. CASE to \in S
  <2>1. In(g) = In(f) \cup {c}
    BY <1>3
  <2> QED
    BY <1>1, <1>2, <1>3, <2>1, FS_AddElement
<1>4. CASE to \notin S
  <2>1. In(g) = In(f) \ {c}
    BY <1>4
  <2> QED
    BY <1>1, <1>2, <1>4, <2>1, FS_RemoveElement
<1> QED
  BY <1>2, <1>3, <1>4

\* 1 for a place in S and 0 for one outside.
Weight(S, p) == IF p \in S THEN 1 ELSE 0

\* How a move of one caller changes the two sets the slot accounting counts.
LEMMA MoveCounts ==
  ASSUME TypeOK, NEW c \in Callers, NEW from, NEW to, Goto(c, from, to)
  PROVE  /\ Cardinality(Holders) \in Nat
         /\ Cardinality(Occupiers) \in Nat
         /\ Cardinality(Holders') =
              Cardinality(Holders) + Weight(Holding, to) - Weight(Holding, from)
         /\ Cardinality(Occupiers') =
              Cardinality(Occupiers) + Weight(Occupying, to)
                                     - Weight(Occupying, from)
<1>1. pc \in [Callers -> Places] /\ pc[c] = from /\ pc' = [pc EXCEPT ![c] = to]
  BY DEF TypeOK, Goto
<1>2. IsFiniteSet(Callers)
  BY PoolAssumption
<1>3. /\ Holders = {d \in Callers : pc[d] \in Holding}
      /\ Holders' = {d \in Callers : [pc EXCEPT ![c] = to][d] \in Holding}
      /\ Occupiers = {d \in Callers : pc[d] \in Occupying}
      /\ Occupiers' = {d \in Callers : [pc EXCEPT ![c] = to][d] \in Occupying}
  BY <1>1, Zenon DEF Holders, Occupiers
<1> HIDE DEF Holding, Occupying, Places
<1>4. /\ Cardinality(Holders) \in Nat
      /\ Cardinality(Holders') =
           Cardinality(Holders) + Weight(Holding, to) - Weight(Holding, from)
  BY <1>1, <1>2, <1>3, CountMove DEF Weight
<1>5. /\ Cardinality(Occupiers) \in Nat
      /\ Cardinality(Occupiers') =
           Cardinality(Occupiers) + Weight(Occupying, to)
                                  - Weight(Occupying, from)
  BY <1>1, <1>2, <1>3, CountMove DEF Weight
<1> QED
  BY <1>4, <1>5

-----------------------------------------------------------------------------
\* A caller that is about to use, pool or close a connection has one.
HasConn ==
  \A c \in Callers :
    pc[c] \in {"ping", "use", "leased", "put", "close"} => call[c].conn \in Conns

\* The strengthening under which the slot accounting is inductive.
SlotInv == TypeOK /\ TokensConserved /\ ConnectionBound /\ HasConn

\* What takeIdle leaves in the idle list.
LEMMA TakeIdleList ==
  ASSUME NEW s \in Seq(Conns), NEW k \in 0..Len(s)
  PROVE  LET t == SubSeq(s, k + 2, Len(s))
         IN  /\ t \in Seq(Conns)
             /\ Len(t) = IF k < Len(s) THEN Len(s) - k - 1 ELSE 0
             /\ \A i \in 1..Len(t) : t[i] = s[k + 1 + i]
             /\ k < Len(s) => s[k + 1] \in Conns
<1>1. \A i \in k + 2 .. Len(s) : s[i] \in Conns
  OBVIOUS
<1> DEFINE t == SubSeq(s, k + 2, Len(s))
<1>2. /\ t \in Seq(Conns)
      /\ Len(t) = IF k + 2 <= Len(s) + 1 THEN Len(s) - (k + 2) + 1 ELSE 0
      /\ \A i \in 1..Len(t) : t[i] = s[k + 1 + i]
  BY <1>1, SubSeqProperties, Len(s) \in Nat
<1>3. Len(t) = IF k < Len(s) THEN Len(s) - k - 1 ELSE 0
  BY <1>2, Len(s) \in Nat
<1> QED
  BY <1>2, <1>3

\* g differs from f in caller c only, where the fields ownership depends on are
\* conn x, epoch e and expired set E.
Updates(f, g, c, x, e, E) ==
  /\ g \in [Callers -> Call]
  /\ g[c].conn = x /\ g[c].seen = e /\ g[c].expired = E
  /\ \A d \in Callers \ {c} : g[d] = f[d]

\* The end of a caller's context changes nothing that ownership depends on.
LEMMA SetCancelled ==
  ASSUME NEW f \in [Callers -> Call], NEW c \in Callers, NEW b \in BOOLEAN
  PROVE  Updates(f, [f EXCEPT ![c].cancelled = b], c,
                 f[c].conn, f[c].seen, f[c].expired)
<1> DEFINE t == [f[c] EXCEPT !.cancelled = b]
<1>1. t \in Call /\ t.conn = f[c].conn /\ t.seen = f[c].seen
      /\ t.expired = f[c].expired
  BY DEF Call
<1>2. [f EXCEPT ![c].cancelled = b] = [f EXCEPT ![c] = t]
  OBVIOUS
<1> QED
  BY <1>1, <1>2 DEF Updates

\* Recording how an attempt or a ping ended keeps the caller's connection.
LEMMA SetOutcome ==
  ASSUME NEW f \in [Callers -> Call], NEW c \in Callers, NEW o \in Outcomes
  PROVE  Updates(f, [f EXCEPT ![c].outcome = o], c,
                 f[c].conn, f[c].seen, f[c].expired)
<1> DEFINE t == [f[c] EXCEPT !.outcome = o]
<1>1. t \in Call /\ t.conn = f[c].conn /\ t.seen = f[c].seen
      /\ t.expired = f[c].expired
  BY DEF Call
<1>2. [f EXCEPT ![c].outcome = o] = [f EXCEPT ![c] = t]
  OBVIOUS
<1> QED
  BY <1>1, <1>2 DEF Updates

\* So does clearing the mark of a reused connection, as ConnLease does.
LEMMA SetProven ==
  ASSUME NEW f \in [Callers -> Call], NEW c \in Callers, NEW o \in Outcomes
  PROVE  Updates(f, [f EXCEPT ![c].outcome = o, ![c].reused = FALSE], c,
                 f[c].conn, f[c].seen, f[c].expired)
<1> DEFINE t == [f[c] EXCEPT !.outcome = o, !.reused = FALSE]
<1>1. t \in Call /\ t.conn = f[c].conn /\ t.seen = f[c].seen
      /\ t.expired = f[c].expired
  BY DEF Call
<1>2. [f EXCEPT ![c].outcome = o, ![c].reused = FALSE] = [f EXCEPT ![c] = t]
  OBVIOUS
<1> QED
  BY <1>1, <1>2 DEF Updates

\* A dial, a discard or putIdle sets the connection and nothing else.
LEMMA SetConn ==
  ASSUME NEW f \in [Callers -> Call], NEW c \in Callers,
         NEW x \in Conns \cup {NoConn}
  PROVE  Updates(f, [f EXCEPT ![c].conn = x], c,
                 x, f[c].seen, f[c].expired)
<1> DEFINE t == [f[c] EXCEPT !.conn = x]
<1>1. t \in Call /\ t.conn = x /\ t.seen = f[c].seen
      /\ t.expired = f[c].expired
  BY DEF Call
<1>2. [f EXCEPT ![c].conn = x] = [f EXCEPT ![c] = t]
  OBVIOUS
<1> QED
  BY <1>1, <1>2 DEF Updates

\* Closing an expired connection shrinks the expired set and nothing else.
LEMMA SetExpired ==
  ASSUME NEW f \in [Callers -> Call], NEW c \in Callers, NEW E \in SUBSET Conns
  PROVE  Updates(f, [f EXCEPT ![c].expired = E], c,
                 f[c].conn, f[c].seen, E)
<1> DEFINE t == [f[c] EXCEPT !.expired = E]
<1>1. t \in Call /\ t.conn = f[c].conn /\ t.seen = f[c].seen
      /\ t.expired = E
  BY DEF Call
<1>2. [f EXCEPT ![c].expired = E] = [f EXCEPT ![c] = t]
  OBVIOUS
<1> QED
  BY <1>1, <1>2 DEF Updates

\* takeIdle sets the connection, the epoch and the expired set together.
LEMMA SetTaken ==
  ASSUME NEW f \in [Callers -> Call], NEW c \in Callers,
         NEW x \in Conns \cup {NoConn}, NEW e \in Nat, NEW E \in SUBSET Conns,
         NEW b \in BOOLEAN
  PROVE  Updates(f, [f EXCEPT ![c].seen = e, ![c].expired = E, ![c].conn = x,
                            ![c].reused = b], c,
                 x, e, E)
<1> DEFINE t == [f[c] EXCEPT !.seen = e, !.expired = E, !.conn = x, !.reused = b]
<1>1. t \in Call /\ t.conn = x /\ t.seen = e
      /\ t.expired = E
  BY DEF Call
<1>2. [f EXCEPT ![c].seen = e, ![c].expired = E, ![c].conn = x,
                            ![c].reused = b] = [f EXCEPT ![c] = t]
  OBVIOUS
<1> QED
  BY <1>1, <1>2 DEF Updates

\* A fault of the peer keeps the fault budget in its type.
LEMMA FaultType ==
  ASSUME faults \in Nat \cup {Unlimited}, SpendFault
  PROVE  faults' \in Nat \cup {Unlimited}
BY DEF SpendFault

\* TypeOK but for the range of tokens, which the accounting itself gives.
TypeButTokens ==
  /\ idle \in Seq(Conns)
  /\ epoch \in Nat
  /\ state \in [Conns -> {"unused", "open", "failed"}]
  /\ pc \in [Callers -> Places]
  /\ call \in [Callers -> Call]
  /\ closing \in [Closers -> SUBSET Conns]
  /\ faults \in Nat \cup {Unlimited}
  /\ marked \in SUBSET Conns

\* A move keeps the accounting when the tokens balance it and the idle list
\* pays for the slot the caller comes to occupy, or is left empty.
LEMMA MoveKeepsSlots ==
  ASSUME SlotInv, NEW c \in Callers, NEW from, NEW to, Goto(c, from, to),
         TypeButTokens', HasConn', tokens' \in Nat,
         tokens' = tokens + Weight(Holding, from) - Weight(Holding, to),
         \/ Len(idle') = 0
         \/ Len(idle') + Weight(Occupying, to)
              <= Len(idle) + Weight(Occupying, from)
  PROVE  SlotInv'
<1>1. /\ Cardinality(Holders) \in Nat
      /\ Cardinality(Occupiers) \in Nat
      /\ Cardinality(Holders') =
           Cardinality(Holders) + Weight(Holding, to) - Weight(Holding, from)
      /\ Cardinality(Occupiers') =
           Cardinality(Occupiers) + Weight(Occupying, to)
                                  - Weight(Occupying, from)
  BY MoveCounts DEF SlotInv
<1>2. /\ MaxConns \in Nat /\ Len(idle) \in Nat /\ Len(idle') \in Nat
      /\ tokens \in Nat
      /\ Weight(Holding, from) \in 0..1 /\ Weight(Holding, to) \in 0..1
      /\ Weight(Occupying, from) \in 0..1 /\ Weight(Occupying, to) \in 0..1
  BY PoolAssumption DEF SlotInv, TypeOK, TypeButTokens, Weight
<1>3. TokensConserved'
  BY <1>1, <1>2 DEF SlotInv, TokensConserved
<1>4. /\ IsFiniteSet(Holders') /\ Occupiers' \subseteq Holders'
      /\ Cardinality(Holders') \in Nat
      /\ Cardinality(Occupiers') <= Cardinality(Holders')
  <2>1. IsFiniteSet(Holders')
    BY PoolAssumption, FS_Subset DEF Holders
  <2>2. Occupiers' \subseteq Holders'
    BY DEF Holders, Occupiers, Occupying
  <2> QED
    BY <2>1, <2>2, FS_Subset, FS_CardinalityType
<1>5. tokens' \in 0..MaxConns
  BY <1>2, <1>3, <1>4 DEF TokensConserved
<1>6. ConnectionBound'
  <2>1. CASE Len(idle') = 0
    BY <2>1, <1>2, <1>3, <1>4, <1>5, <1>1 DEF ConnectionBound, TokensConserved
  <2>2. CASE Len(idle') + Weight(Occupying, to)
               <= Len(idle) + Weight(Occupying, from)
    BY <2>2, <1>1, <1>2 DEF ConnectionBound, SlotInv
  <2> QED
    BY <2>1, <2>2
<1> QED
  BY <1>3, <1>5, <1>6 DEF SlotInv, TypeOK, TypeButTokens

\* A step that moves nobody keeps the accounting when the idle list does not
\* grow.
LEMMA StayKeepsSlots ==
  ASSUME SlotInv, UNCHANGED <<pc, tokens>>, TypeButTokens', HasConn',
         Len(idle') <= Len(idle)
  PROVE  SlotInv'
<1>1. Holders' = Holders /\ Occupiers' = Occupiers
  BY DEF Holders, Occupiers
<1>2. Cardinality(Occupiers) \in Nat
  BY PoolAssumption, FS_Subset, FS_CardinalityType DEF Occupiers
<1>3. MaxConns \in Nat /\ Len(idle) \in Nat /\ Len(idle') \in Nat
  BY PoolAssumption DEF SlotInv, TypeOK, TypeButTokens
<1>4. ConnectionBound'
  BY <1>1, <1>2, <1>3 DEF SlotInv, ConnectionBound
<1> QED
  BY <1>1, <1>4 DEF SlotInv, TypeOK, TypeButTokens, TokensConserved

\* The slot accounting survives every step of a caller.
LEMMA CallerStepSlots ==
  ASSUME SlotInv, NEW c \in Callers,
         \/ \E k \in Kinds[c] : Enter(c, k)
         \/ Cancel(c)
         \/ AcquireToken(c)
         \/ CallStep(c)
         \/ \E o \in Outcomes : LeaseSend(c, o)
  PROVE  SlotInv'
<1>n. MaxConns \in Nat /\ Len(idle) \in Nat /\ tokens \in Nat
  BY PoolAssumption DEF SlotInv, TypeOK
<1>t. TypeOK /\ HasConn
  BY DEF SlotInv
<1>f. call \in [Callers -> Call] /\ c \in Callers /\ call[c] \in Call
  BY <1>t DEF TypeOK
<1>k. NoCall \in Call /\ NoCall.conn = NoConn
  BY DEF NoCall, NewCall, Call, Outcomes
<1> USE DEF Weight, Holding, Occupying, Places
<1>a. ASSUME NEW k \in Kinds[c], Enter(c, k) PROVE SlotInv'
  <2>1. NewCall(k) \in Call
    BY PoolAssumption DEF NewCall, Call, Outcomes
  <2>2. TypeButTokens' /\ HasConn'
    BY <1>a, <1>t, <2>1 DEF TypeOK, TypeButTokens, HasConn, Enter, Goto
  <2> QED
    BY <1>a, <1>n, <2>2, MoveKeepsSlots DEF Enter
<1>b. ASSUME Cancel(c) PROVE SlotInv'
  <2>1. Updates(call, call', c, call[c].conn, call[c].seen, call[c].expired)
    BY <1>b, <1>f, SetCancelled, TRUE \in BOOLEAN DEF Cancel
  <2>2. TypeButTokens' /\ HasConn'
    BY <1>b, <1>t, <2>1 DEF TypeOK, TypeButTokens, HasConn, Updates, Cancel
  <2> QED
    BY <1>b, <1>n, <2>2, StayKeepsSlots DEF Cancel
<1>c. ASSUME AcquireToken(c) PROVE SlotInv'
  <2>1. TypeButTokens' /\ HasConn'
    BY <1>c, <1>t DEF TypeOK, TypeButTokens, HasConn, AcquireToken, Goto
  <2> QED
    BY <1>c, <1>n, <2>1, MoveKeepsSlots DEF AcquireToken
<1>d. ASSUME AcquireEnter(c) PROVE SlotInv'
  <2>1. TypeButTokens' /\ HasConn'
    BY <1>d, <1>t, <1>k
    DEF TypeOK, TypeButTokens, HasConn, AcquireEnter, Return, Goto
  <2>2. CASE call[c].cancelled
    BY <1>d, <1>n, <2>1, <2>2, MoveKeepsSlots DEF AcquireEnter, Return
  <2>3. CASE ~call[c].cancelled
    BY <1>d, <1>n, <2>1, <2>3, MoveKeepsSlots DEF AcquireEnter
  <2> QED
    BY <2>2, <2>3
<1>e. ASSUME AcquireCancelled(c) PROVE SlotInv'
  <2>1. TypeButTokens' /\ HasConn'
    BY <1>e, <1>t, <1>k
    DEF TypeOK, TypeButTokens, HasConn, AcquireCancelled, Return, Goto
  <2> QED
    BY <1>e, <1>n, <2>1, MoveKeepsSlots DEF AcquireCancelled, Return
<1>g. ASSUME NEW k \in 0..Len(idle), TakeIdle(c, k) PROVE SlotInv'
  <2> DEFINE x == IF k < Len(idle) THEN idle[k + 1] ELSE NoConn
             E == {idle[i] : i \in 1..k}
  <2>1. /\ idle' \in Seq(Conns)
        /\ Len(idle') = IF k < Len(idle) THEN Len(idle) - k - 1 ELSE 0
        /\ k < Len(idle) => idle[k + 1] \in Conns
    BY <1>g, <1>t, TakeIdleList DEF TakeIdle, Taking, TypeOK
  <2>2. x \in Conns \cup {NoConn} /\ E \in SUBSET Conns /\ epoch \in Nat
        /\ (x # NoConn) \in BOOLEAN
    BY <1>t, <1>n, <2>1 DEF TypeOK
  <2>3. call' = [call EXCEPT ![c].seen = epoch, ![c].expired = E,
                             ![c].conn = x, ![c].reused = x # NoConn]
    BY <1>g DEF TakeIdle, Taking, OldestLeft
  <2>4. Updates(call, call', c, x, epoch, E)
    <3> HIDE DEF x, E
    <3> QED
      BY <1>f, <2>2, <2>3, SetTaken
  <2>5. TypeButTokens' /\ HasConn'
    BY <1>g, <1>t, <2>1, <2>4
    DEF TypeOK, TypeButTokens, HasConn, TakeIdle, Taking, Goto, Updates
  <2>6. Goto(c, "take", "evict") /\ tokens' = tokens
    BY <1>g DEF TakeIdle, Taking
  <2>7. Len(idle') = 0 \/ Len(idle') + 1 <= Len(idle)
    BY <1>n, <2>1
  <2> QED
    BY <1>n, <2>5, <2>6, <2>7, MoveKeepsSlots
<1>h. ASSUME NEW x \in Conns, Evict(c, x) PROVE SlotInv'
  <2>1. (call[c].expired \ {x}) \in SUBSET Conns
    BY <1>f DEF Call
  <2>2. Updates(call, call', c, call[c].conn, call[c].seen,
                call[c].expired \ {x})
    BY <1>h, <1>f, <2>1, SetExpired DEF Evict
  <2>3. TypeButTokens' /\ HasConn'
    BY <1>h, <1>t, <2>2
    DEF TypeOK, TypeButTokens, HasConn, Updates, Evict, CloseConn
  <2> QED
    BY <1>h, <1>n, <2>3, StayKeepsSlots DEF Evict
<1>i. ASSUME NEW x \in Conns, DialOk(c, x) PROVE SlotInv'
  <2>1. Updates(call, call', c, x, call[c].seen, call[c].expired)
    BY <1>i, <1>f, SetConn DEF DialOk
  <2>2. Start(c, FALSE) \in {"ping", "use", "leased"}
    BY DEF Start
  <2>3. TypeButTokens' /\ HasConn'
    BY <1>i, <1>t, <2>1, <2>2
    DEF TypeOK, TypeButTokens, HasConn, Updates, DialOk, Goto
  <2>4. PICK to \in {"ping", "use", "leased"} : Goto(c, "dial", to)
    BY <1>i, <2>2 DEF DialOk
  <2> QED
    BY <1>i, <1>n, <2>3, <2>4, MoveKeepsSlots DEF DialOk
<1>j. ASSUME AcquireProceed(c) PROVE SlotInv'
  <2>1. Start(c, TRUE) \in {"ping", "use", "leased"}
    BY DEF Start
  <2>2. call[c].conn # NoConn => call[c].conn \in Conns
    BY <1>f DEF Call
  <2>3. TypeButTokens' /\ HasConn'
    BY <1>j, <1>t, <2>1, <2>2
    DEF TypeOK, TypeButTokens, HasConn, AcquireProceed, Goto
  <2>4. PICK to \in {"ping", "use", "leased", "dial"} : Goto(c, "evict", to)
    BY <1>j, <2>1 DEF AcquireProceed
  <2> QED
    BY <1>j, <1>n, <2>3, <2>4, MoveKeepsSlots DEF AcquireProceed
<1>l. ASSUME DialFail(c) PROVE SlotInv'
  <2>1. TypeButTokens' /\ HasConn'
    BY <1>l, <1>t, <1>k DEF TypeOK, TypeButTokens, HasConn, DialFail, Return, Goto
  <2> QED
    BY <1>l, <1>n, <2>1, MoveKeepsSlots DEF DialFail, Return
<1>m. ASSUME NEW o \in Outcomes, PingEnd(c, o) PROVE SlotInv'
  <2>1. Updates(call, call', c, call[c].conn, call[c].seen, call[c].expired)
    BY <1>m, <1>f, SetOutcome DEF PingEnd
  <2>2. PICK to \in {"put", "close", "leased"} : Goto(c, "ping", to)
    BY <1>m DEF PingEnd
  <2>3. UNCHANGED <<tokens, idle, epoch, state, closing, marked>>
        /\ faults' \in Nat \cup {Unlimited}
    BY <1>m, <1>t, FaultType DEF PingEnd, TypeOK
  <2>4. TypeButTokens' /\ HasConn'
    BY <1>t, <2>1, <2>2, <2>3
    DEF TypeOK, TypeButTokens, HasConn, Updates, Goto
  <2> QED
    BY <1>n, <2>2, <2>3, <2>4, MoveKeepsSlots
<1>o. ASSUME NEW o \in Outcomes, AttemptEnd(c, o) PROVE SlotInv'
  <2>1. Updates(call, call', c, call[c].conn, call[c].seen, call[c].expired)
    BY <1>o, <1>f, SetOutcome DEF AttemptEnd
  <2>2. PICK to \in {"put", "close", "leased"} : Goto(c, "use", to)
    BY <1>o DEF AttemptEnd
  <2>3. UNCHANGED <<tokens, idle, epoch, state, closing, marked>>
        /\ faults' \in Nat \cup {Unlimited}
    BY <1>o, <1>t, FaultType DEF AttemptEnd, AttemptEnds, TypeOK
  <2>4. TypeButTokens' /\ HasConn'
    BY <1>t, <2>1, <2>2, <2>3
    DEF TypeOK, TypeButTokens, HasConn, Updates, Goto
  <2> QED
    BY <1>n, <2>2, <2>3, <2>4, MoveKeepsSlots
<1>p. ASSUME NEW o \in Outcomes, LeaseSend(c, o) PROVE SlotInv'
  <2>1. Updates(call, call', c, call[c].conn, call[c].seen, call[c].expired)
    BY <1>p, <1>f, SetProven DEF LeaseSend
  <2>2. PICK to \in {"put", "close", "leased"} : Goto(c, "leased", to)
    BY <1>p DEF LeaseSend
  <2>3. UNCHANGED <<tokens, idle, epoch, state, closing, marked>>
        /\ faults' \in Nat \cup {Unlimited}
    BY <1>p, <1>t, FaultType DEF LeaseSend, AttemptEnds, TypeOK
  <2>4. TypeButTokens' /\ HasConn'
    BY <1>t, <2>1, <2>2, <2>3
    DEF TypeOK, TypeButTokens, HasConn, Updates, Goto
  <2> QED
    BY <1>n, <2>2, <2>3, <2>4, MoveKeepsSlots
<1>q. ASSUME NEW to \in {"put", "close"}, LeaseEnd(c, to) PROVE SlotInv'
  <2>1. Updates(call, call', c, call[c].conn, call[c].seen, call[c].expired)
    BY <1>q, <1>f, SetProven, "ok" \in Outcomes
    DEF LeaseEnd, Outcomes
  <2>2. TypeButTokens' /\ HasConn'
    BY <1>q, <1>t, <2>1
    DEF TypeOK, TypeButTokens, HasConn, Updates, LeaseEnd, Goto
  <2> QED
    BY <1>q, <1>n, <2>2, MoveKeepsSlots DEF LeaseEnd
<1>r. ASSUME PutIdle(c) PROVE SlotInv'
  <2>1. CASE call[c].seen # epoch
    <3>1. TypeButTokens' /\ HasConn'
      BY <1>r, <1>t, <2>1 DEF TypeOK, TypeButTokens, HasConn, PutIdle, Goto
    <3> QED
      BY <1>r, <1>n, <2>1, <3>1, MoveKeepsSlots DEF PutIdle
  <2>2. CASE call[c].seen = epoch
    <3>0. /\ Goto(c, "put", "release")
          /\ idle' = Append(idle, call[c].conn)
          /\ call' = [call EXCEPT ![c].conn = NoConn]
      BY <1>r, <2>2, Zenon DEF PutIdle
    <3>1. call[c].conn \in Conns
      BY <1>r, <1>t, <2>2 DEF HasConn, PutIdle, Goto
    <3>2. Updates(call, call', c, NoConn, call[c].seen, call[c].expired)
      BY <1>f, <3>0, SetConn
    <3>3. idle' \in Seq(Conns) /\ Len(idle') = Len(idle) + 1
      BY <1>t, <3>0, <3>1, AppendProperties DEF TypeOK
    <3>4. TypeButTokens' /\ HasConn'
      BY <1>r, <1>t, <2>2, <3>2, <3>3
      DEF TypeOK, TypeButTokens, HasConn, Updates, PutIdle, Goto
    <3> QED
      BY <1>r, <1>n, <2>2, <3>3, <3>4, MoveKeepsSlots DEF PutIdle
  <2> QED
    BY <2>1, <2>2
<1>s. ASSUME CloseHeld(c) PROVE SlotInv'
  <2>1. Updates(call, call', c, NoConn, call[c].seen, call[c].expired)
    BY <1>s, <1>f, SetConn DEF CloseHeld
  <2>2. TypeButTokens' /\ HasConn'
    BY <1>s, <1>t, <2>1
    DEF TypeOK, TypeButTokens, HasConn, Updates, CloseHeld, CloseConn, Goto
  <2> QED
    BY <1>s, <1>n, <2>2, MoveKeepsSlots DEF CloseHeld
<1>u. ASSUME Release(c) PROVE SlotInv'
  <2>1. TypeButTokens' /\ HasConn'
    BY <1>u, <1>t DEF TypeOK, TypeButTokens, HasConn, Release, Goto
  <2> QED
    BY <1>u, <1>n, <2>1, MoveKeepsSlots DEF Release
<1>v. ASSUME Decide(c) PROVE SlotInv'
  <2>1. TypeButTokens' /\ HasConn'
    BY <1>v, <1>t, <1>k DEF TypeOK, TypeButTokens, HasConn, Decide, Return, Goto
  <2>2. CASE Retries(c)
    BY <1>v, <1>n, <2>1, <2>2, MoveKeepsSlots DEF Decide
  <2>3. CASE ~Retries(c)
    BY <1>v, <1>n, <2>1, <2>3, MoveKeepsSlots DEF Decide, Return
  <2> QED
    BY <2>2, <2>3
<1> QED
  BY <1>a, <1>b, <1>c, <1>d, <1>e, <1>g, <1>h, <1>i, <1>j, <1>l, <1>m, <1>o,
     <1>p, <1>q, <1>r, <1>s, <1>u, <1>v DEF CallStep

\* The slot accounting survives every step.
LEMMA NextSlots == SlotInv /\ [Next]_vars => SlotInv'
<1> SUFFICES ASSUME SlotInv, [Next]_vars PROVE SlotInv'
  OBVIOUS
<1>n. Len(idle) \in Nat
  BY DEF SlotInv, TypeOK
<1>1. ASSUME NEW c \in Callers,
             \/ \E k \in Kinds[c] : Enter(c, k)
             \/ Cancel(c)
             \/ AcquireToken(c)
             \/ CallStep(c)
             \/ \E o \in Outcomes : LeaseSend(c, o)
      PROVE  SlotInv'
  BY <1>1, CallerStepSlots
<1>2. ASSUME NEW x \in Conns, ConnFails(x) PROVE SlotInv'
  <2>1. TypeButTokens' /\ HasConn'
    BY <1>2
    DEF SlotInv, TypeOK, TypeButTokens, HasConn, ConnFails, SpendFault
  <2> QED
    BY <1>n, <1>2, <2>1, StayKeepsSlots DEF ConnFails
<1>3. ASSUME NEW k \in Closers, CloseIdleTake(k) PROVE SlotInv'
  <2>1. Pooled \in SUBSET Conns
    BY <1>n DEF SlotInv, TypeOK, Pooled
  <2>2. TypeButTokens' /\ HasConn' /\ Len(idle') = 0
    BY <1>3, <2>1
    DEF SlotInv, TypeOK, TypeButTokens, HasConn, CloseIdleTake, Closing
  <2> QED
    BY <1>n, <1>3, <2>2, StayKeepsSlots DEF CloseIdleTake, Closing
<1>4. ASSUME NEW k \in Closers, NEW x \in Conns, CloseIdleClose(k, x)
      PROVE  SlotInv'
  <2>1. TypeButTokens' /\ HasConn'
    BY <1>4
    DEF SlotInv, TypeOK, TypeButTokens, HasConn, CloseIdleClose, CloseConn
  <2> QED
    BY <1>n, <1>4, <2>1, StayKeepsSlots DEF CloseIdleClose
<1>5. ASSUME UNCHANGED vars PROVE SlotInv'
  <2>1. TypeButTokens' /\ HasConn'
    BY <1>5 DEF SlotInv, TypeOK, TypeButTokens, HasConn, vars
  <2> QED
    BY <1>n, <1>5, <2>1, StayKeepsSlots DEF vars
<1> QED
  BY <1>1, <1>2, <1>3, <1>4, <1>5 DEF Next

\* A new pool, with all its tokens in the channel, satisfies the accounting.
LEMMA InitSlots == Init => SlotInv
<1> SUFFICES ASSUME Init PROVE SlotInv
  OBVIOUS
<1>1. NoCall \in Call
  BY DEF NoCall, NewCall, Call, Outcomes
<1>2. TypeOK /\ HasConn
  BY <1>1, PoolAssumption DEF Init, TypeOK, HasConn, Places, Holding
<1>3. Holders = {} /\ Occupiers = {}
  BY DEF Init, Holders, Occupiers, Holding, Occupying
<1>4. TokensConserved /\ ConnectionBound
  BY <1>3, FS_EmptySet, PoolAssumption
  DEF Init, TokensConserved, ConnectionBound
<1> QED
  BY <1>2, <1>4 DEF SlotInv

-----------------------------------------------------------------------------
\* The pool's state stays well typed: in particular the token channel never
\* blocks a returning caller, because it never holds more than its capacity.
THEOREM PoolTypeCorrect == Spec => []TypeOK
<1>1. SlotInv => TypeOK
  BY DEF SlotInv
<1> QED
  BY <1>1, InitSlots, NextSlots, PTL DEF Spec

\* acquire, putIdle and discard neither lose nor duplicate a slot, whatever
\* the number of callers and the limit.
THEOREM SlotsConserved == Spec => []TokensConserved
<1>1. SlotInv => TokensConserved
  BY DEF SlotInv
<1> QED
  BY <1>1, InitSlots, NextSlots, PTL DEF Spec

\* The connections the pool accounts for never exceed MaxConnsPerHost, although
\* idle connections hold no token.
THEOREM ConnectionsBounded == Spec => []ConnectionBound
<1>1. SlotInv => ConnectionBound
  BY DEF SlotInv
<1> QED
  BY <1>1, InitSlots, NextSlots, PTL DEF Spec

-----------------------------------------------------------------------------
(* OriginPool implements ConnectionPool                                    *)
(*                                                                         *)
(* The refinement mapping reads the promise's variables off the pool's     *)
(* state.  A step of the pool is a step of the promise because every       *)
(* connection has one owner: the idle list, the caller it is checked out   *)
(* to, or the caller or closer that took it to close it.                   *)

\* The places where a caller has no connection checked out.
Empty == {"out", "acquire", "select", "take", "dial", "release", "decide"}

\* Where a caller may have a connection, and where it may have expired ones.
Placed ==
  \A c \in Callers :
    /\ pc[c] \in Empty => call[c].conn = NoConn
    /\ pc[c] # "evict" => call[c].expired = {}

\* No connection is idle twice, or has two owners.
OneOwner ==
  /\ \A i, j \in 1..Len(idle) : idle[i] = idle[j] => i = j
  /\ \A c \in Callers, x \in Pooled : x # call[c].conn /\ x \notin call[c].expired
  /\ \A k \in Closers, x \in Pooled : x \notin closing[k]
  /\ \A c, d \in Callers :
       /\ call[c].conn \notin call[d].expired
       /\ c # d => /\ call[c].conn # NoConn => call[c].conn # call[d].conn
                   /\ \A x \in call[c].expired : x \notin call[d].expired
  /\ \A c \in Callers, k \in Closers :
       /\ call[c].conn \notin closing[k]
       /\ \A x \in call[c].expired : x \notin closing[k]
  /\ \A k, l \in Closers : k # l => \A x \in closing[k] : x \notin closing[l]

Existing == {x \in Conns : state[x] # "unused"}

\* Whatever has an owner exists, and so does what CloseIdleConnections marked.
OwnedExist ==
  /\ Pooled \subseteq Existing
  /\ marked \subseteq Existing
  /\ \A c \in Callers :
       /\ call[c].expired \subseteq Existing
       /\ call[c].conn # NoConn => call[c].conn \in Existing
  /\ \A k \in Closers : closing[k] \subseteq Existing

\* What putIdle may still pool was not there when CloseIdleConnections last ran.
Current ==
  /\ \A x \in Pooled : x \notin marked
  /\ \A c \in Callers :
       /\ call[c].seen <= epoch
       /\ call[c].conn # NoConn /\ call[c].seen = epoch => call[c].conn \notin marked

\* Every connection has one owner, which knows whether it may be pooled again.
OwnerInv == Placed /\ OneOwner /\ OwnedExist /\ Current

-----------------------------------------------------------------------------
\* The connections that only wait to be closed.
Doomed == UNION ({call[c].expired : c \in Callers} \cup {closing[k] : k \in Closers})

\* Who has a doomed connection: the caller that found it expired, or the closer
\* that took it.
LEMMA DoomedOwner ==
  ASSUME NEW x
  PROVE  x \in Doomed <=> \/ \E c \in Callers : x \in call[c].expired
                         \/ \E k \in Closers : x \in closing[k]
BY DEF Doomed

\* A step that moves no connection between owners, closes none and opens none is
\* no step of the promise.
LEMMA QuietStep ==
  ASSUME TypeOK, OneOwner, OwnedExist, Current, NEW c \in Callers, NEW e \in Nat,
         Updates(call, call', c, call[c].conn, e, call[c].expired),
         e <= epoch, call[c].conn # NoConn => e = call[c].seen,
         UNCHANGED <<idle, epoch, closing, marked>>, Existing' = Existing
  PROVE  /\ OneOwner' /\ OwnedExist' /\ Current'
         /\ UNCHANGED Promise!poolVars
<1>1. \A d \in Callers : /\ call'[d].conn = call[d].conn
                         /\ call'[d].expired = call[d].expired
  BY DEF Updates
<1>2. \A d \in Callers : d # c => call'[d].seen = call[d].seen
  BY DEF Updates
<1>3. Pooled' = Pooled
  BY DEF Pooled
<1>4. OneOwner'
  BY <1>1, <1>3 DEF OneOwner
<1>5. OwnedExist'
  BY <1>1, <1>3 DEF OwnedExist
<1>6. Current'
  BY <1>1, <1>2, <1>3 DEF Current, Updates
<1>7. Doomed' = Doomed
  BY <1>1 DEF Doomed
<1>8. [d \in Callers |-> call'[d].conn] = [d \in Callers |-> call[d].conn]
  BY <1>1
<1> QED
  BY <1>4, <1>5, <1>6, <1>7, <1>8 DEF Promise!poolVars, Existing, Doomed

\* takeIdle: the caller comes to own the oldest connection that is left, and the
\* expired ones, which wait to be closed.
LEMMA TakeStep ==
  ASSUME TypeOK, OwnerInv, NEW c \in Callers, NEW k \in 0..Len(idle), TakeIdle(c, k)
  PROVE  /\ OneOwner' /\ OwnedExist' /\ Current'
         /\ Promise!Take(c, k)
<1> DEFINE x == OldestLeft(k)
           E == {idle[i] : i \in 1..k}
<1>1. /\ idle \in Seq(Conns) /\ Len(idle) \in Nat /\ epoch \in Nat
      /\ call \in [Callers -> Call]
  BY DEF TypeOK
<1>2. /\ idle' \in Seq(Conns)
      /\ Len(idle') = IF k < Len(idle) THEN Len(idle) - k - 1 ELSE 0
      /\ \A i \in 1..Len(idle') : idle'[i] = idle[k + 1 + i]
      /\ k < Len(idle) => idle[k + 1] \in Conns
  BY <1>1, TakeIdleList DEF TakeIdle, Taking
<1>3. x \in Conns \cup {NoConn} /\ E \in SUBSET Conns
  BY <1>1, <1>2 DEF OldestLeft
<1>4. Updates(call, call', c, x, epoch, E)
  <2>1. call' = [call EXCEPT ![c].seen = epoch, ![c].expired = E,
                             ![c].conn = x, ![c].reused = x # NoConn]
    BY DEF TakeIdle, Taking
  <2>2. (x # NoConn) \in BOOLEAN
    OBVIOUS
  <2> HIDE DEF x, E
  <2> QED
    BY <1>1, <1>3, <2>1, <2>2, SetTaken
<1>5. call[c].conn = NoConn /\ call[c].expired = {}
  BY DEF OwnerInv, Placed, TakeIdle, Taking, Goto, Empty
<1>6. /\ Pooled' \subseteq Pooled /\ E \subseteq Pooled
      /\ x # NoConn => x \in Pooled
  <2>1. \A i \in 1..Len(idle') : k + 1 + i \in 1..Len(idle)
    BY <1>1, <1>2
  <2>2. Pooled' \subseteq Pooled
    BY <1>2, <2>1 DEF Pooled
  <2>3. E \subseteq Pooled
    BY <1>1 DEF Pooled
  <2>4. x # NoConn => x \in Pooled
    BY <1>1 DEF Pooled, OldestLeft
  <2> QED
    BY <2>2, <2>3, <2>4
<1>7. /\ \A y \in Pooled' : y # x /\ y \notin E
      /\ x \notin E
      /\ \A i, j \in 1..Len(idle') : idle'[i] = idle'[j] => i = j
  <2>1. \A i, j \in 1..Len(idle) : idle[i] = idle[j] => i = j
    BY DEF OwnerInv, OneOwner
  <2>2. NoConn \notin Conns
    BY PoolAssumption
  <2> QED
    BY <1>1, <1>2, <1>3, <2>1, <2>2 DEF Pooled, OldestLeft
<1>8. /\ call'[c].conn = x /\ call'[c].expired = E /\ call'[c].seen = epoch
      /\ \A d \in Callers : d # c => call'[d] = call[d]
  BY <1>4 DEF Updates
<1>9. UNCHANGED <<closing, epoch, marked, state>>
  BY DEF TakeIdle, Taking
<1> HIDE DEF x, E
<1>10. NoConn \notin Pooled /\ NoConn \notin Conns
  BY <1>1, PoolAssumption DEF Pooled
<1>11. OneOwner'
  <2>1. \A d \in Callers, y \in Pooled' : y # call'[d].conn /\ y \notin call'[d].expired
    BY <1>6, <1>7, <1>8 DEF OwnerInv, OneOwner
  <2>2. \A j \in Closers, y \in Pooled' : y \notin closing'[j]
    BY <1>6, <1>9 DEF OwnerInv, OneOwner
  <2>3. \A d \in Callers : /\ call'[d].conn \notin E
                           /\ d # c => x \notin call'[d].expired
    BY <1>1, <1>3, <1>6, <1>7, <1>8, <1>10 DEF OwnerInv, OneOwner, TypeOK, Call
  <2>4. \A d, f \in Callers : call'[d].conn \notin call'[f].expired
    BY <1>7, <1>8, <2>3 DEF OwnerInv, OneOwner
  <2>5. \A d, f \in Callers : d # f =>
          /\ call'[d].conn # NoConn => call'[d].conn # call'[f].conn
          /\ \A y \in call'[d].expired : y \notin call'[f].expired
    BY <1>6, <1>8 DEF OwnerInv, OneOwner
  <2>6. \A d \in Callers, j \in Closers :
          /\ call'[d].conn \notin closing'[j]
          /\ \A y \in call'[d].expired : y \notin closing'[j]
    BY <1>6, <1>5, <1>8, <1>9 DEF OwnerInv, OneOwner
  <2>7. \A j, l \in Closers : j # l => \A y \in closing'[j] : y \notin closing'[l]
    BY <1>9 DEF OwnerInv, OneOwner
  <2> QED
    BY <1>7, <2>1, <2>2, <2>4, <2>5, <2>6, <2>7 DEF OneOwner
<1>12. OwnedExist'
  BY <1>6, <1>8, <1>9 DEF OwnerInv, OwnedExist, Existing
<1>13. Current'
  BY <1>1, <1>6, <1>8, <1>9 DEF OwnerInv, Current
<1>14. Promise!Take(c, k)
  <2>1. Doomed' = Doomed \cup E
    BY <1>5, <1>8, <1>9, DoomedOwner DEF Doomed
  <2>2. [d \in Callers |-> call'[d].conn]
          = [[d \in Callers |-> call[d].conn] EXCEPT ![c] = x]
    BY <1>8
  <2>3. idle' = SubSeq(idle, k + 2, Len(idle))
    BY DEF TakeIdle, Taking
  <2>4. x = IF k < Len(idle) THEN idle[k + 1] ELSE NoConn
    BY DEF x, OldestLeft
  <2> QED
    BY <1>5, <1>9, <2>1, <2>2, <2>3, <2>4 DEF Promise!Take, Doomed, E
<1> QED
  BY <1>11, <1>12, <1>13, <1>14

\* The connections callers use are no more than the callers that occupy a slot
\* with one.
LEMMA InUseBound ==
  ASSUME SlotInv, Placed, NEW c \in Callers, pc[c] = "dial"
  PROVE  Len(idle) + Cardinality(Promise!InUse) < MaxConns
<1> DEFINE Users == Occupiers \ {c}
<1>1. IsFiniteSet(Occupiers)
  BY PoolAssumption, FS_Subset DEF Occupiers
<1>2. c \in Occupiers
  BY DEF Occupiers, Occupying, Holding
<1>3. /\ IsFiniteSet(Users)
      /\ Cardinality(Users) = Cardinality(Occupiers) - 1
  BY <1>1, <1>2, FS_RemoveElement
<1>4. \A y \in Promise!InUse : \E d \in Users : y = call[d].conn
  <2> SUFFICES ASSUME NEW d \in Callers, call[d].conn # NoConn
               PROVE  d \in Users
    BY DEF Promise!InUse
  <2>1. pc[d] \in Places /\ pc[d] \notin Empty /\ d # c
    BY DEF SlotInv, TypeOK, Placed, Empty
  <2> QED
    BY <2>1 DEF Occupiers, Occupying, Holding, Places, Empty
<1> DEFINE Used == {call[d].conn : d \in Users}
<1>5. IsFiniteSet(Used) /\ Cardinality(Used) <= Cardinality(Users)
  <2> DEFINE f == [d \in Users |-> call[d].conn]
  <2>1. f \in Surjection(Users, Used)
    BY DEF Surjection
  <2> QED
    BY <1>3, <2>1, FS_Surjection
<1>6. IsFiniteSet(Promise!InUse) /\ Cardinality(Promise!InUse) <= Cardinality(Used)
  BY <1>4, <1>5, FS_Subset
<1>7. /\ Cardinality(Promise!InUse) \in Nat /\ Cardinality(Used) \in Nat
      /\ Cardinality(Occupiers) \in Nat /\ Len(idle) \in Nat /\ MaxConns \in Nat
  BY <1>1, <1>5, <1>6, FS_CardinalityType, PoolAssumption DEF SlotInv, TypeOK
<1> QED
  BY <1>3, <1>5, <1>6, <1>7 DEF SlotInv, ConnectionBound

\* The promise counts as the pool does.
LEMMA PromiseCounts ==
  ASSUME NEW S
  PROVE  Promise!Cardinality(S) = Cardinality(S)
BY DEF Promise!Cardinality, Cardinality

\* acquire dials: the new connection belongs to the caller.
LEMMA OpenStep ==
  ASSUME SlotInv, OwnerInv, NEW c \in Callers, NEW x \in Conns, DialOk(c, x)
  PROVE  /\ OneOwner' /\ OwnedExist' /\ Current'
         /\ Promise!Open(c, x)
<1>1. /\ call \in [Callers -> Call] /\ state \in [Conns -> {"unused", "open", "failed"}]
      /\ pc[c] = "dial"
  BY DEF SlotInv, TypeOK, DialOk, Goto
<1>2. Updates(call, call', c, x, call[c].seen, call[c].expired)
  BY <1>1, SetConn DEF DialOk
<1>3. /\ call'[c].conn = x /\ call'[c].expired = call[c].expired
      /\ call'[c].seen = call[c].seen
      /\ \A d \in Callers : d # c => call'[d] = call[d]
  BY <1>2 DEF Updates
<1>4. call[c].conn = NoConn /\ x # NoConn
  BY <1>1, PoolAssumption DEF OwnerInv, Placed, Empty
<1>5. Existing' = Existing \cup {x} /\ x \notin Existing
  BY <1>1 DEF DialOk, Existing
<1>6. UNCHANGED <<idle, closing, epoch, marked>> /\ Pooled' = Pooled
  BY DEF DialOk, Pooled
<1>7. /\ x \notin Pooled /\ x \notin marked
      /\ \A d \in Callers : x # call[d].conn /\ x \notin call[d].expired
      /\ \A k \in Closers : x \notin closing[k]
  BY <1>4, <1>5 DEF OwnerInv, OwnedExist
<1>8. OneOwner'
  BY <1>3, <1>6, <1>7 DEF OwnerInv, OneOwner
<1>9. OwnedExist'
  BY <1>3, <1>5, <1>6 DEF OwnerInv, OwnedExist
<1>10. Current'
  BY <1>3, <1>6, <1>7 DEF OwnerInv, Current
<1>11. Promise!Open(c, x)
  <2>1. [d \in Callers |-> call'[d].conn]
          = [[d \in Callers |-> call[d].conn] EXCEPT ![c] = x]
    BY <1>3
  <2>2. Doomed' = Doomed
    BY <1>3, <1>6 DEF Doomed
  <2>3. Len(idle) + Cardinality(Promise!InUse) < MaxConns
    BY <1>1, InUseBound DEF OwnerInv
  <2>4. {y \in Conns : state'[y] # "unused"} = {y \in Conns : state[y] # "unused"} \cup {x}
        /\ x \notin {y \in Conns : state[y] # "unused"}
    BY <1>5 DEF Existing
  <2>5. [d \in Callers |-> call[d].conn][c] = NoConn
    BY <1>4
  <2> QED
    BY <1>6, <2>1, <2>2, <2>3, <2>4, <2>5, PromiseCounts DEF Promise!Open, Doomed
<1> QED
  BY <1>8, <1>9, <1>10, <1>11

\* putIdle pools a connection: it passes from the caller to the idle list.
LEMMA GiveBackStep ==
  ASSUME SlotInv, OwnerInv, NEW c \in Callers, PutIdle(c), call[c].seen = epoch
  PROVE  /\ OneOwner' /\ OwnedExist' /\ Current'
         /\ Promise!GiveBack(c)
<1> DEFINE x == call[c].conn
<1>1. /\ call \in [Callers -> Call] /\ idle \in Seq(Conns) /\ Len(idle) \in Nat
      /\ pc[c] = "put" /\ idle' = Append(idle, x)
      /\ call' = [call EXCEPT ![c].conn = NoConn]
  BY DEF SlotInv, TypeOK, PutIdle, Goto
<1>2. x \in Conns /\ x # NoConn
  BY <1>1, PoolAssumption DEF SlotInv, HasConn
<1>3. Updates(call, call', c, NoConn, call[c].seen, call[c].expired)
  BY <1>1, SetConn
<1>4. /\ call'[c].conn = NoConn /\ call'[c].expired = call[c].expired
      /\ call'[c].seen = call[c].seen
      /\ \A d \in Callers : d # c => call'[d] = call[d]
  BY <1>3 DEF Updates
<1>5. UNCHANGED <<closing, epoch, marked, state>>
  BY DEF PutIdle
<1>6. /\ Len(idle') = Len(idle) + 1 /\ idle'[Len(idle) + 1] = x
      /\ \A i \in 1..Len(idle) : idle'[i] = idle[i]
  BY <1>1, <1>2, AppendProperties
<1> HIDE DEF x
<1>7. Pooled' = Pooled \cup {x}
  BY <1>1, <1>6 DEF Pooled
<1>8. /\ x \notin Pooled /\ x \notin marked
      /\ \A d \in Callers : (d # c => x # call[d].conn) /\ x \notin call[d].expired
      /\ \A k \in Closers : x \notin closing[k]
  BY <1>2 DEF OwnerInv, OneOwner, Current, x
<1>9. OneOwner'
  <2>1. \A i, j \in 1..Len(idle') : idle'[i] = idle'[j] => i = j
    <3>1. \A i \in 1..Len(idle) : idle[i] # x
      BY <1>8 DEF Pooled
    <3>2. \A i, j \in 1..Len(idle) : idle[i] = idle[j] => i = j
      BY DEF OwnerInv, OneOwner
    <3> QED
      BY <1>1, <1>6, <3>1, <3>2
  <2>2. NoConn \notin Pooled' /\ (\A d \in Callers : NoConn \notin call[d].expired)
        /\ (\A k \in Closers : NoConn \notin closing[k])
    BY <1>1, <1>2, <1>7, PoolAssumption DEF SlotInv, TypeOK, Call, Pooled
  <2>3. \A d \in Callers, y \in Pooled' : y # call'[d].conn /\ y \notin call'[d].expired
    BY <1>4, <1>7, <1>8, <2>2 DEF OwnerInv, OneOwner
  <2>4. \A d, f \in Callers : call'[d].conn \notin call'[f].expired
    BY <1>4, <2>2 DEF OwnerInv, OneOwner
  <2>5. \A d, f \in Callers : d # f =>
          /\ call'[d].conn # NoConn => call'[d].conn # call'[f].conn
          /\ \A y \in call'[d].expired : y \notin call'[f].expired
    BY <1>4, <2>2 DEF OwnerInv, OneOwner
  <2>6. \A d \in Callers, j \in Closers :
          /\ call'[d].conn \notin closing'[j]
          /\ \A y \in call'[d].expired : y \notin closing'[j]
    BY <1>4, <1>5, <2>2 DEF OwnerInv, OneOwner
  <2> QED
    BY <1>5, <1>7, <1>8, <2>1, <2>3, <2>4, <2>5, <2>6 DEF OwnerInv, OneOwner
<1>10. OwnedExist'
  <2>1. x \in Existing
    BY <1>2 DEF OwnerInv, OwnedExist, x
  <2> QED
    BY <1>4, <1>5, <1>7, <2>1 DEF OwnerInv, OwnedExist, Existing
<1>11. Current'
  BY <1>4, <1>5, <1>7, <1>8 DEF OwnerInv, Current
<1>12. Promise!GiveBack(c)
  <2>1. [d \in Callers |-> call'[d].conn]
          = [[d \in Callers |-> call[d].conn] EXCEPT ![c] = NoConn]
    BY <1>4
  <2>2. Doomed' = Doomed
    BY <1>4, <1>5 DEF Doomed
  <2> QED
    BY <1>1, <1>2, <1>5, <1>8, <2>1, <2>2 DEF Promise!GiveBack, Doomed, x
<1> QED
  BY <1>9, <1>10, <1>11, <1>12

\* The connection x that a step closes had one owner, which gives it up: what is
\* left has its owner still.
LEMMA Closed ==
  ASSUME TypeOK, NEW x \in Conns, CloseConn(x)
  PROVE  /\ Existing' = Existing \ {x}
         /\ marked' = marked \ {x}
BY DEF CloseConn, Existing, TypeOK

\* discard and putIdle's stale branch close the connection of the caller.
LEMMA DiscardStep ==
  ASSUME SlotInv, OwnerInv, NEW c \in Callers, CloseHeld(c)
  PROVE  /\ OneOwner' /\ OwnedExist' /\ Current'
         /\ Promise!Discard(c)
<1> DEFINE x == call[c].conn
<1>1. /\ call \in [Callers -> Call] /\ pc[c] = "close" /\ CloseConn(x)
      /\ call' = [call EXCEPT ![c].conn = NoConn]
  BY DEF SlotInv, TypeOK, CloseHeld, Goto
<1>2. x \in Conns /\ x # NoConn
  BY <1>1, PoolAssumption DEF SlotInv, HasConn
<1>3. Updates(call, call', c, NoConn, call[c].seen, call[c].expired)
  BY <1>1, SetConn
<1>4. /\ call'[c].conn = NoConn /\ call'[c].expired = call[c].expired
      /\ call'[c].seen = call[c].seen
      /\ \A d \in Callers : d # c => call'[d] = call[d]
  BY <1>3 DEF Updates
<1>5. UNCHANGED <<idle, closing, epoch>> /\ Pooled' = Pooled
  BY DEF CloseHeld, Pooled
<1>6. Existing' = Existing \ {x} /\ marked' = marked \ {x}
  BY <1>1, <1>2, Closed DEF SlotInv
<1>7. /\ x \notin Pooled
      /\ \A d \in Callers : (d # c => x # call[d].conn) /\ x \notin call[d].expired
      /\ \A k \in Closers : x \notin closing[k]
  BY <1>2 DEF OwnerInv, OneOwner
<1>8. NoConn \notin Pooled /\ (\A d \in Callers : NoConn \notin call[d].expired)
      /\ (\A k \in Closers : NoConn \notin closing[k])
  BY <1>1, PoolAssumption DEF SlotInv, TypeOK, Call, Pooled
<1> HIDE DEF x
<1>9. OneOwner'
  <2>1. \A d \in Callers, y \in Pooled : y # call'[d].conn /\ y \notin call'[d].expired
    BY <1>4, <1>8 DEF OwnerInv, OneOwner
  <2>2. \A d, f \in Callers : call'[d].conn \notin call'[f].expired
    BY <1>4, <1>8 DEF OwnerInv, OneOwner
  <2>3. \A d, f \in Callers : d # f =>
          /\ call'[d].conn # NoConn => call'[d].conn # call'[f].conn
          /\ \A y \in call'[d].expired : y \notin call'[f].expired
    BY <1>4 DEF OwnerInv, OneOwner
  <2>4. \A d \in Callers, j \in Closers :
          /\ call'[d].conn \notin closing'[j]
          /\ \A y \in call'[d].expired : y \notin closing'[j]
    BY <1>4, <1>5, <1>8 DEF OwnerInv, OneOwner
  <2> QED
    BY <1>5, <2>1, <2>2, <2>3, <2>4 DEF OwnerInv, OneOwner
<1>10. OwnedExist'
  BY <1>4, <1>5, <1>6, <1>7 DEF OwnerInv, OwnedExist
<1>11. Current'
  BY <1>4, <1>5, <1>6 DEF OwnerInv, Current
<1>12. Promise!Discard(c)
  <2>1. [d \in Callers |-> call'[d].conn]
          = [[d \in Callers |-> call[d].conn] EXCEPT ![c] = NoConn]
    BY <1>4
  <2>2. Doomed' = Doomed
    BY <1>4, <1>5 DEF Doomed
  <2>3. [d \in Callers |-> call[d].conn][c] = x
    BY DEF x
  <2> QED
    BY <1>2, <1>5, <1>6, <2>1, <2>2, <2>3 DEF Promise!Discard, Doomed, Existing
<1> QED
  BY <1>9, <1>10, <1>11, <1>12

\* acquire closes a connection it found expired.
LEMMA EvictStep ==
  ASSUME SlotInv, OwnerInv, NEW c \in Callers, NEW x \in Conns, Evict(c, x)
  PROVE  /\ OneOwner' /\ OwnedExist' /\ Current'
         /\ Promise!Destroy(x)
<1>1. /\ call \in [Callers -> Call] /\ x \in call[c].expired /\ CloseConn(x)
      /\ call' = [call EXCEPT ![c].expired = call[c].expired \ {x}]
      /\ (call[c].expired \ {x}) \in SUBSET Conns
  BY DEF SlotInv, TypeOK, Evict, Call
<1>2. Updates(call, call', c, call[c].conn, call[c].seen, call[c].expired \ {x})
  BY <1>1, SetExpired
<1>3. /\ call'[c].conn = call[c].conn /\ call'[c].expired = call[c].expired \ {x}
      /\ call'[c].seen = call[c].seen
      /\ \A d \in Callers : d # c => call'[d] = call[d]
  BY <1>2 DEF Updates
<1>4. UNCHANGED <<idle, closing, epoch>> /\ Pooled' = Pooled
  BY DEF Evict, Pooled
<1>5. Existing' = Existing \ {x} /\ marked' = marked \ {x}
  BY <1>1, Closed DEF SlotInv
<1>6. /\ x \notin Pooled
      /\ \A d \in Callers : (d # c => x \notin call[d].expired) /\ x # call[d].conn
      /\ \A k \in Closers : x \notin closing[k]
  BY <1>1 DEF OwnerInv, OneOwner
<1>7. OneOwner'
  <2>1. \A d \in Callers : /\ call'[d].conn = call[d].conn
                           /\ call'[d].expired \subseteq call[d].expired
    BY <1>3
  <2> QED
    BY <1>4, <2>1 DEF OwnerInv, OneOwner
<1>8. OwnedExist'
  BY <1>3, <1>4, <1>5, <1>6 DEF OwnerInv, OwnedExist
<1>9. Current'
  BY <1>3, <1>4, <1>5 DEF OwnerInv, Current
<1>10. Promise!Destroy(x)
  <2>1. [d \in Callers |-> call'[d].conn] = [d \in Callers |-> call[d].conn]
    BY <1>3
  <2>2. \A y : y \in Doomed' <=> \/ \E d \in Callers : y \in call'[d].expired
                               \/ \E k \in Closers : y \in closing'[k]
    BY DEF Doomed
  <2>3. Doomed' = Doomed \ {x} /\ x \in Doomed
    BY <1>1, <1>3, <1>4, <1>6, <2>2, DoomedOwner
  <2> QED
    BY <1>4, <1>5, <2>1, <2>3 DEF Promise!Destroy, Doomed, Existing
<1> QED
  BY <1>7, <1>8, <1>9, <1>10

\* CloseIdleConnections closes one of the connections it took.
LEMMA CloseIdleStep ==
  ASSUME SlotInv, OwnerInv, NEW k \in Closers, NEW x \in Conns, CloseIdleClose(k, x)
  PROVE  /\ OneOwner' /\ OwnedExist' /\ Current'
         /\ Promise!Destroy(x)
<1>1. /\ x \in closing[k] /\ CloseConn(x) /\ closing \in [Closers -> SUBSET Conns]
      /\ closing' = [closing EXCEPT ![k] = closing[k] \ {x}]
  BY DEF SlotInv, TypeOK, CloseIdleClose
<1>2. /\ closing'[k] = closing[k] \ {x}
      /\ \A j \in Closers : j # k => closing'[j] = closing[j]
  BY <1>1
<1>3. UNCHANGED <<idle, call, epoch>> /\ Pooled' = Pooled
  BY DEF CloseIdleClose, Pooled
<1>4. Existing' = Existing \ {x} /\ marked' = marked \ {x}
  BY <1>1, Closed DEF SlotInv
<1>5. /\ x \notin Pooled
      /\ \A d \in Callers : x # call[d].conn /\ x \notin call[d].expired
      /\ \A j \in Closers : j # k => x \notin closing[j]
  BY <1>1 DEF OwnerInv, OneOwner
<1>6. OneOwner'
  <2>1. \A j \in Closers : closing'[j] \subseteq closing[j]
    BY <1>2
  <2> QED
    BY <1>3, <2>1 DEF OwnerInv, OneOwner
<1>7. OwnedExist'
  BY <1>2, <1>3, <1>4, <1>5 DEF OwnerInv, OwnedExist
<1>8. Current'
  BY <1>3, <1>4 DEF OwnerInv, Current
<1>9. Promise!Destroy(x)
  <2>1. \A y : y \in Doomed' <=> \/ \E d \in Callers : y \in call'[d].expired
                               \/ \E j \in Closers : y \in closing'[j]
    BY DEF Doomed
  <2>2. Doomed' = Doomed \ {x} /\ x \in Doomed
    BY <1>1, <1>2, <1>3, <1>5, <2>1, DoomedOwner
  <2> QED
    BY <1>3, <1>4, <2>2 DEF Promise!Destroy, Doomed, Existing
<1> QED
  BY <1>6, <1>7, <1>8, <1>9

\* CloseIdleConnections takes the idle list and moves the epoch, so that nothing
\* checked out before may be pooled again.
LEMMA RetireStep ==
  ASSUME SlotInv, OwnerInv, NEW k \in Closers, CloseIdleTake(k)
  PROVE  /\ OneOwner' /\ OwnedExist' /\ Current'
         /\ Promise!Retire
<1>1. /\ closing[k] = {} /\ closing \in [Closers -> SUBSET Conns]
      /\ closing' = [closing EXCEPT ![k] = Pooled]
      /\ idle' = << >> /\ epoch' = epoch + 1 /\ epoch \in Nat
      /\ marked' = Existing
  BY DEF SlotInv, TypeOK, CloseIdleTake, Closing, Existing
<1>2. /\ closing'[k] = Pooled
      /\ \A j \in Closers : j # k => closing'[j] = closing[j]
  BY <1>1
<1>3. Pooled' = {} /\ Len(idle') = 0 /\ UNCHANGED <<call, state>> /\ Existing' = Existing
  BY <1>1 DEF CloseIdleTake, Closing, Pooled, Existing
<1>4. OneOwner'
  <2>1. \A d \in Callers, j \in Closers :
          /\ call[d].conn \notin closing'[j]
          /\ \A y \in call[d].expired : y \notin closing'[j]
    BY <1>2 DEF OwnerInv, OneOwner
  <2>2. \A j, l \in Closers : j # l => \A y \in closing'[j] : y \notin closing'[l]
    BY <1>2 DEF OwnerInv, OneOwner
  <2>3. \A i, j \in 1..Len(idle') : idle'[i] = idle'[j] => i = j
    BY <1>3
  <2> QED
    BY <1>3, <2>1, <2>2, <2>3 DEF OwnerInv, OneOwner
<1>5. OwnedExist'
  BY <1>1, <1>2, <1>3 DEF OwnerInv, OwnedExist
<1>6. Current'
  <2>1. \A d \in Callers : call[d].seen \in Nat /\ call[d].seen <= epoch
    BY DEF SlotInv, TypeOK, Call, OwnerInv, Current
  <2> QED
    BY <1>1, <1>3, <2>1 DEF Current
<1>7. Promise!Retire
  <2>1. \A y : y \in Doomed' <=> \/ \E d \in Callers : y \in call'[d].expired
                               \/ \E j \in Closers : y \in closing'[j]
    BY DEF Doomed
  <2>2. Doomed' = Doomed \cup Pooled
    BY <1>1, <1>2, <1>3, <2>1, DoomedOwner
  <2>3. Pooled = {idle[i] : i \in DOMAIN idle}
    BY DEF SlotInv, TypeOK, Pooled
  <2> QED
    BY <1>1, <1>3, <2>2, <2>3 DEF Promise!Retire, Doomed, Existing
<1> QED
  BY <1>4, <1>5, <1>6, <1>7

-----------------------------------------------------------------------------
\* Where callers may have connections, after a move of caller c.
LEMMA MovePlaced ==
  ASSUME TypeOK, Placed, NEW c \in Callers, NEW x, NEW e, NEW E, NEW from, NEW to,
         Goto(c, from, to), Updates(call, call', c, x, e, E),
         to \in Empty => x = NoConn,
         to # "evict" => E = {}
  PROVE  Placed'
BY DEF TypeOK, Placed, Goto, Updates

\* A step of a caller that only moves it is no step of the promise.
LEMMA QuietMove ==
  ASSUME TypeOK, OwnerInv, NEW c \in Callers, NEW from, NEW to, Goto(c, from, to),
         Updates(call, call', c, call[c].conn, call[c].seen, call[c].expired),
         from \notin Empty => to \notin Empty, from # "evict",
         UNCHANGED <<idle, epoch, closing, marked, state>>
  PROVE  OwnerInv' /\ UNCHANGED Promise!poolVars
<1>1. call[c] \in Call /\ call[c].seen \in Nat /\ pc[c] = from
  BY DEF TypeOK, Call, Goto
<1>2. call[c].seen <= epoch /\ Existing' = Existing
  BY DEF OwnerInv, Current, Existing
<1>3. OneOwner' /\ OwnedExist' /\ Current' /\ UNCHANGED Promise!poolVars
  BY <1>1, <1>2, QuietStep DEF OwnerInv
<1>4. /\ to \in Empty => call[c].conn = NoConn
      /\ call[c].expired = {}
  BY <1>1 DEF OwnerInv, Placed
<1>5. Placed'
  BY <1>4, MovePlaced DEF OwnerInv
<1> QED
  BY <1>3, <1>5 DEF OwnerInv

\* A caller that returns without a connection is no step of the promise either.
LEMMA QuietReturn ==
  ASSUME TypeOK, OwnerInv, NEW c \in Callers, NEW k \in {"batch", "ping", "lease"},
         NEW from \in Empty, NEW to \in Empty,
         Goto(c, from, to), call' = [call EXCEPT ![c] = NewCall(k)],
         UNCHANGED <<idle, epoch, closing, marked, state>>
  PROVE  OwnerInv' /\ UNCHANGED Promise!poolVars
<1>1. call \in [Callers -> Call] /\ epoch \in Nat /\ pc[c] = from
  BY DEF TypeOK, Goto
<1>2. call[c].conn = NoConn /\ call[c].expired = {}
  BY <1>1 DEF OwnerInv, Placed, Empty
<1>3. Updates(call, call', c, NoConn, 0, {})
  BY <1>1 DEF Updates, NewCall, Call, Outcomes
<1>4. Existing' = Existing
  BY DEF Existing
<1>5. OneOwner' /\ OwnedExist' /\ Current' /\ UNCHANGED Promise!poolVars
  <2>1. Updates(call, call', c, call[c].conn, 0, call[c].expired)
    BY <1>2, <1>3
  <2>2. 0 \in Nat /\ 0 <= epoch
    BY <1>1
  <2> QED
    BY <1>2, <1>4, <2>1, <2>2, QuietStep DEF OwnerInv
<1>6. Placed'
  BY <1>3, MovePlaced DEF OwnerInv, Empty
<1> QED
  BY <1>5, <1>6 DEF OwnerInv

\* Every step of a caller keeps the ownership of connections, and is a step of the
\* promise or none.
LEMMA CallerStepPromise ==
  ASSUME SlotInv, OwnerInv, NEW c \in Callers,
         \/ \E k \in Kinds[c] : Enter(c, k)
         \/ Cancel(c)
         \/ AcquireToken(c)
         \/ CallStep(c)
         \/ \E o \in Outcomes : LeaseSend(c, o)
  PROVE  OwnerInv' /\ [Promise!Next]_(Promise!poolVars)
<1>t. TypeOK /\ HasConn
  BY DEF SlotInv
<1>f. call \in [Callers -> Call] /\ call[c] \in Call
  BY <1>t DEF TypeOK
<1>s. Updates(call, call, c, call[c].conn, call[c].seen, call[c].expired)
  BY <1>f DEF Updates
<1> DEFINE Quiet == OwnerInv' /\ UNCHANGED Promise!poolVars
<1>a. ASSUME NEW k \in Kinds[c], Enter(c, k) PROVE Quiet
  <2>1. k \in {"batch", "ping", "lease"} /\ "out" \in Empty /\ "acquire" \in Empty
    BY PoolAssumption DEF Empty
  <2> QED
    BY <1>a, <1>t, <2>1, QuietReturn DEF Enter
<1>b. ASSUME Cancel(c) PROVE Quiet
  <2>1. Updates(call, call', c, call[c].conn, call[c].seen, call[c].expired)
    BY <1>b, <1>f, SetCancelled, TRUE \in BOOLEAN DEF Cancel
  <2>2. UNCHANGED <<idle, epoch, closing, marked, state, pc>> /\ Existing' = Existing
        /\ call[c].seen \in Nat /\ call[c].seen <= epoch
    BY <1>b, <1>f DEF Cancel, Existing, Call, OwnerInv, Current
  <2>3. Placed'
    BY <2>1, <2>2 DEF OwnerInv, Placed, Updates
  <2> QED
    BY <1>t, <2>1, <2>2, <2>3, QuietStep DEF OwnerInv
<1>c. ASSUME AcquireToken(c) PROVE Quiet
  BY <1>c, <1>t, <1>s, QuietMove DEF AcquireToken, Empty
<1>d. ASSUME AcquireEnter(c) PROVE Quiet
  <2>1. CASE call[c].cancelled
    BY <1>d, <1>t, <2>1, QuietReturn DEF AcquireEnter, Return, NoCall, Empty
  <2>2. CASE ~call[c].cancelled
    BY <1>d, <1>t, <1>s, <2>2, QuietMove DEF AcquireEnter, Empty
  <2> QED
    BY <2>1, <2>2
<1>e. ASSUME AcquireCancelled(c) PROVE Quiet
  BY <1>e, <1>t, QuietReturn DEF AcquireCancelled, Return, NoCall, Empty
<1>g. ASSUME NEW k \in 0..Len(idle), TakeIdle(c, k)
      PROVE  OwnerInv' /\ Promise!Next
  <2>1. OneOwner' /\ OwnedExist' /\ Current' /\ Promise!Take(c, k)
    BY <1>g, <1>t, TakeStep
  <2>2. Placed'
    BY <1>g, <1>t DEF OwnerInv, Placed, TakeIdle, Taking, Goto, TypeOK, Empty
  <2> QED
    BY <2>1, <2>2 DEF OwnerInv, Promise!Next
<1>h. ASSUME NEW x \in Conns, Evict(c, x) PROVE OwnerInv' /\ Promise!Next
  <2>1. OneOwner' /\ OwnedExist' /\ Current' /\ Promise!Destroy(x)
    BY <1>h, EvictStep
  <2>2. Placed'
    BY <1>h, <1>t DEF OwnerInv, Placed, Evict, TypeOK, Call
  <2> QED
    BY <2>1, <2>2 DEF OwnerInv, Promise!Next
<1>i. ASSUME NEW x \in Conns, DialOk(c, x) PROVE OwnerInv' /\ Promise!Next
  <2>1. OneOwner' /\ OwnedExist' /\ Current' /\ Promise!Open(c, x)
    BY <1>i, OpenStep
  <2>2. Start(c, FALSE) \notin Empty /\ Start(c, FALSE) # "evict"
    BY DEF Start, Empty
  <2>3. Updates(call, call', c, x, call[c].seen, call[c].expired)
    BY <1>i, <1>f, SetConn DEF DialOk
  <2>4. call[c].expired = {}
    BY <1>i DEF OwnerInv, Placed, DialOk, Goto
  <2>5. Placed'
    BY <1>i, <1>t, <2>2, <2>3, <2>4, MovePlaced DEF OwnerInv, DialOk
  <2> QED
    BY <2>1, <2>5 DEF OwnerInv, Promise!Next
<1>j. ASSUME AcquireProceed(c) PROVE Quiet
  <2>1. Start(c, TRUE) \notin Empty
    BY DEF Start, Empty
  <2>2. PICK to : Goto(c, "evict", to) /\ (to \in Empty => call[c].conn = NoConn)
    BY <1>j, <2>1 DEF AcquireProceed
  <2>3. call[c].expired = {}
    BY <1>j DEF AcquireProceed
  <2>4. Placed'
    BY <1>j, <1>t, <1>s, <2>2, <2>3, MovePlaced DEF OwnerInv, AcquireProceed
  <2>5. UNCHANGED <<idle, epoch, closing, marked, state, call>> /\ Existing' = Existing
        /\ call[c].seen \in Nat /\ call[c].seen <= epoch
    BY <1>j, <1>f DEF AcquireProceed, Existing, Call, OwnerInv, Current
  <2> QED
    BY <1>t, <1>s, <2>4, <2>5, QuietStep DEF OwnerInv
<1>l. ASSUME DialFail(c) PROVE Quiet
  BY <1>l, <1>t, QuietReturn DEF DialFail, Return, NoCall, Empty
<1>m. ASSUME NEW o \in Outcomes, PingEnd(c, o) PROVE Quiet
  <2>1. Updates(call, call', c, call[c].conn, call[c].seen, call[c].expired)
    BY <1>m, <1>f, SetOutcome DEF PingEnd
  <2>2. PICK to \in {"put", "close", "leased"} : Goto(c, "ping", to)
    BY <1>m DEF PingEnd
  <2> QED
    BY <1>m, <1>t, <2>1, <2>2, QuietMove DEF PingEnd, Empty
<1>o. ASSUME NEW o \in Outcomes, AttemptEnd(c, o) PROVE Quiet
  <2>1. Updates(call, call', c, call[c].conn, call[c].seen, call[c].expired)
    BY <1>o, <1>f, SetOutcome DEF AttemptEnd
  <2>2. PICK to \in {"put", "close", "leased"} : Goto(c, "use", to)
    BY <1>o DEF AttemptEnd
  <2> QED
    BY <1>o, <1>t, <2>1, <2>2, QuietMove DEF AttemptEnd, Empty
<1>p. ASSUME NEW o \in Outcomes, LeaseSend(c, o) PROVE Quiet
  <2>1. Updates(call, call', c, call[c].conn, call[c].seen, call[c].expired)
    BY <1>p, <1>f, SetProven DEF LeaseSend
  <2>2. PICK to \in {"put", "close", "leased"} : Goto(c, "leased", to)
    BY <1>p DEF LeaseSend
  <2> QED
    BY <1>p, <1>t, <2>1, <2>2, QuietMove DEF LeaseSend, Empty
<1>q. ASSUME NEW to \in {"put", "close"}, LeaseEnd(c, to) PROVE Quiet
  <2>1. Updates(call, call', c, call[c].conn, call[c].seen, call[c].expired)
    BY <1>q, <1>f, SetProven DEF LeaseEnd, Outcomes
  <2> QED
    BY <1>q, <1>t, <2>1, QuietMove DEF LeaseEnd, Empty
<1>r. ASSUME PutIdle(c) PROVE OwnerInv' /\ [Promise!Next]_(Promise!poolVars)
  <2>1. CASE call[c].seen # epoch
    BY <1>r, <1>t, <1>s, <2>1, QuietMove DEF PutIdle, Empty
  <2>2. CASE call[c].seen = epoch
    <3>1. OneOwner' /\ OwnedExist' /\ Current' /\ Promise!GiveBack(c)
      BY <1>r, <2>2, GiveBackStep
    <3>2. Goto(c, "put", "release") /\ call' = [call EXCEPT ![c].conn = NoConn]
      BY <1>r, <2>2, Zenon DEF PutIdle
    <3>3. Updates(call, call', c, NoConn, call[c].seen, call[c].expired)
      BY <1>f, <3>2, SetConn
    <3>4. call[c].expired = {}
      BY <3>2 DEF OwnerInv, Placed, Goto
    <3>5. Placed'
      BY <1>t, <3>2, <3>3, <3>4, MovePlaced DEF OwnerInv
    <3> QED
      BY <3>1, <3>5 DEF OwnerInv, Promise!Next
  <2> QED
    BY <2>1, <2>2
<1>u. ASSUME CloseHeld(c) PROVE OwnerInv' /\ Promise!Next
  <2>1. OneOwner' /\ OwnedExist' /\ Current' /\ Promise!Discard(c)
    BY <1>u, DiscardStep
  <2>2. Updates(call, call', c, NoConn, call[c].seen, call[c].expired)
    BY <1>u, <1>f, SetConn DEF CloseHeld
  <2>3. call[c].expired = {}
    BY <1>u DEF OwnerInv, Placed, CloseHeld, Goto
  <2>4. Placed'
    BY <1>u, <1>t, <2>2, <2>3, MovePlaced DEF OwnerInv, CloseHeld
  <2> QED
    BY <2>1, <2>4 DEF OwnerInv, Promise!Next
<1>v. ASSUME Release(c) PROVE Quiet
  BY <1>v, <1>t, <1>s, QuietMove DEF Release, Empty
<1>w. ASSUME Decide(c) PROVE Quiet
  <2>1. CASE Retries(c)
    BY <1>w, <1>t, <1>s, <2>1, QuietMove DEF Decide, Empty
  <2>2. CASE ~Retries(c)
    BY <1>w, <1>t, <2>2, QuietReturn DEF Decide, Return, NoCall, Empty
  <2> QED
    BY <2>1, <2>2
<1> QED
  BY <1>a, <1>b, <1>c, <1>d, <1>e, <1>g, <1>h, <1>i, <1>j, <1>l, <1>m, <1>o,
     <1>p, <1>q, <1>r, <1>u, <1>v, <1>w DEF CallStep

\* So is every step of the pool.
LEMMA NextPromise ==
  ASSUME SlotInv, OwnerInv, [Next]_vars
  PROVE  OwnerInv' /\ [Promise!Next]_(Promise!poolVars)
<1>1. ASSUME NEW c \in Callers,
             \/ \E k \in Kinds[c] : Enter(c, k)
             \/ Cancel(c)
             \/ AcquireToken(c)
             \/ CallStep(c)
             \/ \E o \in Outcomes : LeaseSend(c, o)
      PROVE  OwnerInv' /\ [Promise!Next]_(Promise!poolVars)
  BY <1>1, CallerStepPromise
<1>2. ASSUME NEW x \in Conns, ConnFails(x)
      PROVE  OwnerInv' /\ UNCHANGED Promise!poolVars
  <2>1. UNCHANGED <<idle, epoch, closing, marked, call, pc>> /\ Existing' = Existing
    BY <1>2 DEF ConnFails, Existing, SlotInv, TypeOK
  <2>2. OwnerInv'
    BY <2>1 DEF OwnerInv, Placed, OneOwner, OwnedExist, Current, Pooled
  <2> QED
    BY <2>1, <2>2 DEF Promise!poolVars, Existing
<1>3. ASSUME NEW k \in Closers, CloseIdleTake(k)
      PROVE  OwnerInv' /\ Promise!Next
  <2>1. OneOwner' /\ OwnedExist' /\ Current' /\ Promise!Retire
    BY <1>3, RetireStep
  <2>2. Placed'
    BY <1>3 DEF OwnerInv, Placed, CloseIdleTake, Closing
  <2> QED
    BY <2>1, <2>2 DEF OwnerInv, Promise!Next
<1>4. ASSUME NEW k \in Closers, NEW x \in Conns, CloseIdleClose(k, x)
      PROVE  OwnerInv' /\ Promise!Next
  <2>1. OneOwner' /\ OwnedExist' /\ Current' /\ Promise!Destroy(x)
    BY <1>4, CloseIdleStep
  <2>2. Placed'
    BY <1>4 DEF OwnerInv, Placed, CloseIdleClose
  <2> QED
    BY <2>1, <2>2 DEF OwnerInv, Promise!Next
<1>5. CASE UNCHANGED vars
  <2>1. UNCHANGED <<idle, epoch, closing, marked, call, pc, state>>
    BY <1>5 DEF vars
  <2>2. OwnerInv'
    BY <2>1 DEF OwnerInv, Placed, OneOwner, OwnedExist, Current, Pooled, Existing
  <2> QED
    BY <2>1, <2>2 DEF Promise!poolVars
<1> QED
  BY <1>1, <1>2, <1>3, <1>4, <1>5 DEF Next

\* A new pool owns nothing, as the promise begins.
LEMMA InitPromise == Init => OwnerInv /\ Promise!Init
<1> SUFFICES ASSUME Init PROVE OwnerInv /\ Promise!Init
  OBVIOUS
<1>1. /\ Len(idle) = 0 /\ Pooled = {}
      /\ \A c \in Callers : /\ call[c].conn = NoConn /\ call[c].expired = {}
                            /\ call[c].seen = 0
      /\ \A k \in Closers : closing[k] = {}
      /\ marked = {} /\ Existing = {} /\ epoch = 0
  BY DEF Init, Pooled, NoCall, NewCall, Existing
<1>2. OwnerInv
  BY <1>1 DEF Init, OwnerInv, Placed, OneOwner, OwnedExist, Current
<1>3. Doomed = {}
  BY <1>1, DoomedOwner
<1>4. [c \in Callers |-> call[c].conn] = [c \in Callers |-> NoConn]
  BY <1>1
<1> QED
  BY <1>1, <1>2, <1>3, <1>4 DEF Init, Promise!Init, Existing, Doomed

-----------------------------------------------------------------------------
\* However the critical sections and token operations of callers and closers
\* interleave, the pool is one in which connections have one user at a time, none
\* is forgotten, no dial passes MaxConnsPerHost, and none that existed when
\* CloseIdleConnections ran is pooled again.
THEOREM PoolImplementsPromise == Spec => PoolRefinement
<1>1. SlotInv /\ OwnerInv /\ [Next]_vars
        => SlotInv' /\ OwnerInv' /\ [Promise!Next]_(Promise!poolVars)
  BY NextSlots, NextPromise
<1>2. Init => SlotInv /\ OwnerInv /\ Promise!Init
  BY InitSlots, InitPromise
<1> QED
  BY <1>1, <1>2, PTL DEF Spec, PoolRefinement, Promise!Spec
=============================================================================
