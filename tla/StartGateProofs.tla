--------------------------- MODULE StartGateProofs --------------------------
(***************************************************************************)
(* Proofs about StartGate for every number of groups and senders, and any  *)
(* pacing: the gates of a group hold, and a finished group explains itself.*)
(***************************************************************************)
EXTENDS StartGate, FiniteSetTheorems, SequenceTheorems, WellFoundedInduction, TLAPS

Causes == {"none", "deadline", "broken", "stop", "closed"}

\* The places before the start gate opens.
Early == {"prepare", "ready", "join", "open", "try", "sleep", "validate"}

GroupRec ==
  [pc : Early \cup {"prefixes", "readyFinal", "delay", "collect", "done"},
   charged : BOOLEAN, limited : BOOLEAN, cause : Causes, origin : Senders \cup {"none"}, idx : Nat,
   start : BOOLEAN, finish : BOOLEAN, prefixes : Nat, head : BOOLEAN,
   changed : BOOLEAN, paused : BOOLEAN, bcause : Causes, watching : BOOLEAN,
   err : Causes]

SenderRec ==
  [pc : {"idle", "gate", "prefix", "final", "respond", "done"},
   ready : BOOLEAN, broken : BOOLEAN, released : BOOLEAN, active : BOOLEAN,
   complete : BOOLEAN, failure : Causes \cup {"failed", "cancelled"}]

Typed == grp \in [Groups -> GroupRec] /\ snd \in [Senders -> SenderRec]

\* A sender is under way from its release until it returns.
UnderWay == {"prefix", "final", "respond"}

\* The senders that have sent their prefix, as long as nothing failed.
Passed == {"final", "respond", "done"}
PassedBy(g) == {s \in Team(g) : snd[s].pc \in Passed}

\* The prefixes the coordinator has collected are those of its senders.
Counted(g) ==
  /\ grp[g].idx \in 1..Len(Members[g])
  /\ grp[g].cause = "none" => grp[g].prefixes = Cardinality(PassedBy(g))
  /\ grp[g].prefixes = Len(Members[g]) =>
       \A s \in Team(g) : snd[s].pc \in Passed /\ snd[s].released

\* What a sender has done shows that its group opened its gates.
Gated(g) ==
  /\ grp[g].pc \in Early => ~grp[g].start
  /\ grp[g].pc = "prepare" =>
       grp[g].prefixes = 0 /\ \A s \in Team(g) : snd[s].pc = "idle"
  /\ g \in LastByte /\ (grp[g].finish \/ grp[g].pc \in {"readyFinal", "delay"}) =>
       grp[g].prefixes = Len(Members[g])
  /\ \A s \in Team(g) :
       /\ snd[s].pc \in UnderWay => snd[s].released
       /\ snd[s].released => grp[g].start
       /\ g \in LastByte /\ snd[s].pc = "respond" => grp[g].finish
       /\ g \in LastByte /\ grp[g].cause = "none" /\ snd[s].pc = "done" => grp[g].finish
       /\ snd[s].pc = "idle" => grp[g].pc = "prepare"

\* A group without a cause has no failure, and a finished one blames its origin.
Blamed(g) ==
  /\ grp[g].cause = "none" => grp[g].origin = "none"
  /\ \A s \in Team(g) :
       /\ snd[s].active => snd[s].pc \in UnderWay
       /\ grp[g].cause = "none" /\ snd[s].pc = "done" =>
            snd[s].released /\ snd[s].complete /\ snd[s].failure = "none"
  /\ grp[g].pc = "done" =>
       /\ \A s \in Team(g) : snd[s].pc = "done"
       /\ grp[g].err = "none" =>
            \A s \in Team(g) : snd[s].complete /\ snd[s].failure = "none" /\ snd[s].released
       /\ grp[g].err # "none" =>
            \A s \in Team(g) : snd[s].failure # "none" \/ snd[s].complete
       /\ grp[g].origin # "none" => \A s \in Team(g) :
            s = grp[g].origin <=> snd[s].failure = grp[g].err

Sound(g) == Counted(g) /\ Gated(g) /\ Blamed(g)

\* The strengthening under which the properties of the gates are inductive.
GateInv == Typed /\ \A g \in Groups : Sound(g)

-----------------------------------------------------------------------------
\* Min finds the least member of a set of naturals.
LEMMA MinIn ==
  ASSUME NEW N, N \subseteq Nat, N # {}
  PROVE  Min(N) \in N /\ \A n \in N : Min(N) <= n
<1> DEFINE R == {ss \in Nat \X Nat : ss[1] < ss[2]}
<1>1. IsWellFoundedOn(R, Nat)
  BY NatLessThanWellFounded DEF OpToRel
<1> HIDE DEF R
<1>2. \E m \in N : \A n \in N : ~(<<n, m>> \in R)
  BY <1>1, WFMin
<1>3. \A m, n \in N : ~(<<n, m>> \in R) => m <= n
  BY DEF R
<1>4. \E m \in N : \A n \in N : m <= n
  BY <1>2, <1>3
<1> QED
  BY <1>4 DEF Min

\* Each sender belongs to one group, and a group has no more senders than requests.
LEMMA Teams ==
  /\ \A s \in Senders : Owner(s) \in Groups /\ s \in Team(Owner(s))
  /\ \A g \in Groups : \A s \in Team(g) : s \in Senders /\ Owner(s) = g
  /\ \A g \in Groups : /\ Len(Members[g]) \in Nat \ {0}
                       /\ DOMAIN Members[g] = 1..Len(Members[g])
                       /\ \A i \in 1..Len(Members[g]) : Members[g][i] \in Team(g)
                       /\ IsFiniteSet(Team(g))
                       /\ Cardinality(Team(g)) <= Len(Members[g])
<1>1. \A s \in Senders : Owner(s) \in Groups /\ s \in Team(Owner(s))
  BY DEF Senders, Owner, Team
<1>2. \A g \in Groups : \A s \in Team(g) : s \in Senders
  BY DEF Senders, Team
<1>3. \A g \in Groups : \A s \in Team(g) : Owner(s) = g
  BY <1>1, <1>2, GateAssumption
<1>4. ASSUME NEW g \in Groups
      PROVE  /\ Len(Members[g]) \in Nat \ {0}
             /\ DOMAIN Members[g] = 1..Len(Members[g])
             /\ \A i \in 1..Len(Members[g]) : Members[g][i] \in Team(g)
             /\ IsFiniteSet(Team(g))
             /\ Cardinality(Team(g)) <= Len(Members[g])
  <2> DEFINE m == Members[g]
             n == Len(m)
  <2>1. m \in Seq(Team(g)) /\ m # << >>
    BY GateAssumption
  <2>2. n \in Nat \ {0} /\ DOMAIN m = 1..n /\ \A i \in 1..n : m[i] \in Team(g)
    BY <2>1
  <2>3. m \in Surjection(1..n, Team(g))
    <3>1. m \in [1..n -> Team(g)]
      BY <2>1, LenProperties
    <3>2. \A s \in Team(g) : \E i \in 1..n : m[i] = s
      BY <2>2 DEF Team, Range
    <3> HIDE DEF m, n
    <3> QED
      BY <3>1, <3>2 DEF Surjection
  <2>4. IsFiniteSet(1..n) /\ Cardinality(1..n) = n
    BY <2>2, FS_Interval
  <2> QED
    BY <2>2, <2>3, <2>4, FS_Surjection
<1> QED
  BY <1>1, <1>2, <1>3, <1>4

\* Only group g and its senders changed.
Only(g) ==
  /\ \A h \in Groups \ {g} : grp'[h] = grp[h]
  /\ \A s \in Senders \ Team(g) : snd'[s] = snd[s]

\* A group that did not change is as sound as before.
LEMMA OthersSound ==
  ASSUME GateInv, NEW g \in Groups, Only(g), Typed', Sound(g)'
  PROVE  GateInv'
<1>1. ASSUME NEW h \in Groups, h # g PROVE Sound(h)'
  <2>1. grp'[h] = grp[h] /\ \A s \in Team(h) : snd'[s] = snd[s]
    BY <1>1, Teams DEF Only
  <2>2. PassedBy(h)' = PassedBy(h)
    BY <2>1 DEF PassedBy
  <2>3. Sound(h)
    BY DEF GateInv
  <2>4. Counted(h)'
    BY <2>1, <2>2, <2>3 DEF Sound, Counted
  <2>5. Gated(h)'
    BY <2>1, <2>3 DEF Sound, Gated
  <2>6. Blamed(h)'
    BY <2>1, <2>3 DEF Sound, Blamed
  <2> QED
    BY <2>4, <2>5, <2>6 DEF Sound
<1> QED
  BY <1>1 DEF GateInv

\* A coordinator goes on: it keeps what it counted and knows of a failure, opens the
\* start gate when it leaves the early places, and the finish gate of a synchronised
\* group with all prefixes in hand.
GoesOn(g, r) ==
  /\ r \in GroupRec /\ r.idx \in 1..Len(Members[g])
  /\ r.prefixes = grp[g].prefixes
  /\ r.cause = "none" => grp[g].cause = "none" /\ r.origin = "none"
  /\ grp[g].pc # "done" /\ r.pc # "done"
  /\ r.pc = "prepare" <=> grp[g].pc = "prepare"
  /\ r.pc \in Early => grp[g].pc \in Early /\ r.start = grp[g].start
  /\ grp[g].start => r.start
  /\ grp[g].finish /\ grp[g].start => r.finish
  /\ g \in LastByte /\ (r.finish \/ r.pc \in {"readyFinal", "delay"}) =>
       \/ grp[g].finish \/ grp[g].pc \in {"readyFinal", "delay"}
       \/ grp[g].prefixes = Len(Members[g])

LEMMA CoordinatorMoves ==
  ASSUME GateInv, NEW g \in Groups, NEW r, GoesOn(g, r),
         grp' = [grp EXCEPT ![g] = r], UNCHANGED snd
  PROVE  GateInv'
<1>1. Typed /\ Sound(g)
  BY DEF GateInv
<1>2. Typed' /\ grp'[g] = r /\ Only(g)
  BY <1>1 DEF Typed, Only, GoesOn
<1>3. PassedBy(g)' = PassedBy(g)
  BY DEF PassedBy
<1>4. Counted(g)'
  BY <1>1, <1>2, <1>3 DEF Sound, Counted, GoesOn
<1>5. Gated(g)'
  <2>1. \A s \in Team(g) : grp[g].cause = "none" /\ snd[s].pc = "done" => grp[g].start
    BY <1>1 DEF Sound, Gated, Blamed
  <2> QED
    BY <1>1, <1>2, <2>1, Zenon DEF Sound, Gated, GoesOn, UnderWay
<1>6. Blamed(g)'
  BY <1>1, <1>2 DEF Sound, Blamed, GoesOn
<1> QED
  BY <1>2, <1>4, <1>5, <1>6, OthersSound DEF Sound

\* A sender goes on, and tells its group of a failure or a prefix.
Carries(g, s, r, q) ==
  /\ r \in GroupRec /\ q \in SenderRec
  /\ r.pc = grp[g].pc /\ r.idx = grp[g].idx /\ r.err = grp[g].err
  /\ r.start = grp[g].start /\ r.finish = grp[g].finish
  /\ r.cause = "none" => grp[g].cause = "none" /\ r.origin = "none"
  /\ snd[s].pc # "done" /\ (snd[s].pc = "idle" <=> q.pc = "idle")
  /\ snd[s].pc \in Passed => q.pc \in Passed
  /\ \/ /\ r.prefixes = grp[g].prefixes
        /\ r.cause = "none" => (q.pc \in Passed <=> snd[s].pc \in Passed)
     \/ /\ r.prefixes = grp[g].prefixes + 1 /\ grp[g].cause = "none"
        /\ snd[s].pc = "prefix" /\ q.pc \in {"final", "respond"}
  /\ snd[s].released => q.released
  /\ q.released => snd[s].released \/ grp[g].start
  /\ q.pc \in UnderWay => q.released
  /\ g \in LastByte /\ q.pc = "respond" => grp[g].finish
  /\ q.active => q.pc \in UnderWay
  /\ r.cause = "none" /\ q.pc = "done" =>
       /\ q.released /\ q.complete /\ q.failure = "none"
       /\ g \in LastByte => grp[g].finish

\* The prefixes stay those of the senders that passed: when the last one is in, all
\* have passed.
LEMMA CountedMoves ==
  ASSUME GateInv, NEW g \in Groups, NEW s \in Team(g), NEW r, NEW q,
         Carries(g, s, r, q),
         grp' = [grp EXCEPT ![g] = r], snd' = [snd EXCEPT ![s] = q]
  PROVE  Counted(g)'
<1> DEFINE P == PassedBy(g)
           n == Len(Members[g])
<1>1. /\ Typed /\ Counted(g) /\ Gated(g) /\ Blamed(g)
      /\ s \in Senders /\ Team(g) \subseteq Senders
  BY Teams DEF GateInv, Sound
<1>2. /\ grp'[g] = r /\ snd'[s] = q
      /\ \A t \in Team(g) : t # s => snd'[t] = snd[t]
  BY <1>1 DEF Typed
<1>3. /\ IsFiniteSet(Team(g)) /\ Cardinality(Team(g)) <= n /\ n \in Nat
      /\ P \subseteq Team(g)
  BY Teams DEF PassedBy
<1>4. IsFiniteSet(P) /\ Cardinality(P) \in Nat /\ grp[g].prefixes \in Nat
  BY <1>1, <1>3, FS_Subset, FS_CardinalityType DEF Typed, GroupRec
<1>5. CASE r.prefixes = grp[g].prefixes
  <2>1. r.cause = "none" => PassedBy(g)' = P /\ grp[g].cause = "none"
    <3>1. ASSUME r.cause = "none" PROVE q.pc \in Passed <=> snd[s].pc \in Passed
      BY <1>4, <1>5, <3>1 DEF Carries
    <3>2. ASSUME r.cause = "none" PROVE PassedBy(g)' = P
      BY <1>2, <3>1, <3>2 DEF PassedBy
    <3> QED
      BY <3>2 DEF Carries
  <2>2. r.prefixes = n => \A t \in Team(g) : snd'[t].pc \in Passed /\ snd'[t].released
    BY <1>1, <1>2, <1>5 DEF Counted, Carries
  <2>3. r.idx \in 1..n
    BY <1>1 DEF Counted, Carries
  <2> QED
    BY <1>1, <1>2, <1>5, <2>1, <2>2, <2>3 DEF Counted
<1>6. CASE /\ r.prefixes = grp[g].prefixes + 1 /\ grp[g].cause = "none"
           /\ snd[s].pc = "prefix" /\ q.pc \in {"final", "respond"}
  <2>1. PassedBy(g)' = P \cup {s} /\ s \notin P
    BY <1>2, <1>6 DEF PassedBy, Passed
  <2>2. Cardinality(P \cup {s}) = Cardinality(P) + 1
    BY <1>4, <2>1, FS_AddElement
  <2>3. r.prefixes = Cardinality(PassedBy(g)')
    BY <1>1, <1>6, <2>1, <2>2 DEF Counted
  <2>4. r.prefixes = n => PassedBy(g)' = Team(g)
    <3>1. PassedBy(g)' \in SUBSET Team(g)
      BY <1>3, <2>1
    <3>2. /\ Cardinality(PassedBy(g)') <= Cardinality(Team(g))
          /\ Cardinality(Team(g)) = Cardinality(PassedBy(g)') => Team(g) = PassedBy(g)'
      BY <1>3, <3>1, FS_Subset
    <3>3. Cardinality(Team(g)) \in Nat
      BY <1>3, FS_CardinalityType
    <3>4. Cardinality(PassedBy(g)') \in Nat
      BY <1>4, <2>1, <2>2
    <3> QED
      BY <1>3, <2>3, <3>2, <3>3, <3>4
  <2>5. \A t \in Team(g) : snd'[t].pc \in Passed => snd'[t].released
    <3>1. q.released
      BY <1>6 DEF Carries, UnderWay
    <3>2. \A t \in Team(g) : t # s /\ snd[t].pc \in Passed => snd[t].released
      BY <1>1, <1>6 DEF Gated, Blamed, UnderWay, Passed
    <3> QED
      BY <1>2, <3>1, <3>2
  <2>6. r.prefixes = n => \A t \in Team(g) : snd'[t].pc \in Passed
    BY <2>4 DEF PassedBy
  <2>7. r.idx \in 1..n
    BY <1>1 DEF Counted, Carries
  <2> QED
    BY <1>2, <2>3, <2>5, <2>6, <2>7 DEF Counted
<1> QED
  BY <1>5, <1>6 DEF Carries

LEMMA SenderMoves ==
  ASSUME GateInv, NEW g \in Groups, NEW s \in Team(g), NEW r, NEW q,
         Carries(g, s, r, q),
         grp' = [grp EXCEPT ![g] = r], snd' = [snd EXCEPT ![s] = q]
  PROVE  GateInv'
<1>1. /\ Typed /\ Counted(g) /\ Gated(g) /\ Blamed(g)
      /\ s \in Senders /\ Team(g) \subseteq Senders
  BY Teams DEF GateInv, Sound
<1>2. /\ grp'[g] = r /\ snd'[s] = q
      /\ \A t \in Team(g) : t # s => snd'[t] = snd[t]
  BY <1>1 DEF Typed
<1>3. Typed' /\ Only(g)
  BY <1>1 DEF Typed, Only, Carries
<1>4. Counted(g)'
  BY CountedMoves
<1>5. Gated(g)'
  <2>1. grp[g].pc = "prepare" => r.prefixes = 0 /\ q.pc = "idle"
    BY <1>1 DEF Gated, Carries
  <2>2. g \in LastByte /\ (r.finish \/ r.pc \in {"readyFinal", "delay"}) =>
          r.prefixes = Len(Members[g])
    <3>1. ASSUME g \in LastByte, r.finish \/ r.pc \in {"readyFinal", "delay"}
          PROVE  r.prefixes = Len(Members[g])
      <4>1. grp[g].prefixes = Len(Members[g])
        BY <1>1, <3>1 DEF Gated, Carries
      <4>2. snd[s].pc \in Passed
        BY <1>1, <4>1 DEF Counted
      <4>3. snd[s].pc # "prefix"
        BY <4>2 DEF Passed
      <4> QED
        BY <4>1, <4>3 DEF Carries
    <3> QED
      BY <3>1
  <2>3. /\ q.pc \in UnderWay => q.released
        /\ q.released => r.start
        /\ g \in LastByte /\ q.pc = "respond" => r.finish
        /\ g \in LastByte /\ r.cause = "none" /\ q.pc = "done" => r.finish
    BY <1>1 DEF Gated, Carries
  <2> QED
    BY <1>1, <1>2, <2>1, <2>2, <2>3 DEF Gated, Carries
<1>6. Blamed(g)'
  <2>1. grp[g].pc # "done"
    BY <1>1 DEF Blamed, Carries
  <2> QED
    BY <1>1, <1>2, <2>1 DEF Blamed, Carries
<1> QED
  BY <1>3, <1>4, <1>5, <1>6, OthersSound DEF Sound

-----------------------------------------------------------------------------
\* A failure that is recorded leaves a cause behind, and keeps the group's place.
LEMMA FailedRec ==
  ASSUME NEW rec \in GroupRec, NEW who \in Senders \cup {"none"},
         NEW c \in Causes \ {"none"}
  PROVE  LET r == Failed(rec, who, c)
         IN  /\ r \in GroupRec /\ r.cause # "none"
             /\ r.pc = rec.pc /\ r.idx = rec.idx /\ r.err = rec.err
             /\ r.start = rec.start /\ r.finish = rec.finish
             /\ r.prefixes = rec.prefixes /\ r.bcause = rec.bcause
             /\ rec.cause # "none" => r = rec
             /\ rec.cause = "none" => r.origin = who /\ r.cause = c
<1>1. CASE rec.cause # "none"
  BY <1>1 DEF Failed
<1>2. CASE rec.cause = "none"
  BY <1>2 DEF Failed, GroupRec
<1> QED
  BY <1>1, <1>2

\* The first sender that was not released is one of the group.
LEMMA FirstUnreleased ==
  ASSUME NEW g \in Groups, Unreleased(g) # {}
  PROVE  Members[g][Min(Unreleased(g))] \in Senders
<1>1. Unreleased(g) \subseteq DOMAIN Members[g] /\ DOMAIN Members[g] \subseteq Nat
  BY Teams DEF Unreleased
<1>2. Min(Unreleased(g)) \in Unreleased(g)
  BY <1>1, MinIn
<1> QED
  BY <1>1, <1>2, Teams

\* The timers and the caller cancel a group and move nobody.
LEMMA TimersMove ==
  ASSUME GateInv, NEW g \in Groups,
         BudgetFires(g) \/ ReadinessEnds(g) \/ ParentStops(g)
           \/ \E s \in Team(g) : ExecutionFires(s)
  PROVE  GateInv'
<1>1. /\ Typed /\ Counted(g) /\ Gated(g) /\ Blamed(g) /\ grp[g] \in GroupRec
  BY DEF GateInv, Sound, Typed
<1>2. CASE BudgetFires(g)
  <2> DEFINE r == [grp[g] EXCEPT !.bcause = "deadline"]
  <2>1. GoesOn(g, r)
    BY <1>1, <1>2 DEF BudgetFires, GoesOn, GroupRec, Causes, Counted, Blamed
  <2> QED
    BY <1>2, <2>1, CoordinatorMoves DEF BudgetFires
<1>3. CASE ReadinessEnds(g)
  <2> DEFINE d == [grp[g] EXCEPT !.watching = FALSE]
             m == Members[g][Min(Unreleased(g))]
             r == IF Unreleased(g) = {} THEN d
                  ELSE Failed(d, m, BudgetCause(grp[g]))
  <2>1. /\ d \in GroupRec /\ d.pc = grp[g].pc /\ d.idx = grp[g].idx
        /\ d.start = grp[g].start /\ d.finish = grp[g].finish
        /\ d.prefixes = grp[g].prefixes /\ d.cause = grp[g].cause
        /\ d.origin = grp[g].origin
    BY <1>1 DEF GroupRec
  <2>2. BudgetCause(grp[g]) \in Causes \ {"none"}
    BY <1>1, <1>3 DEF ReadinessEnds, BudgetCause, GroupRec
  <2>3. grp' = [grp EXCEPT ![g] = r] /\ UNCHANGED snd /\ grp[g].pc # "done"
    BY <1>3 DEF ReadinessEnds
  <2>4. Unreleased(g) # {} => m \in Senders
    BY FirstUnreleased
  <2> HIDE DEF d, m
  <2>5. GoesOn(g, r)
    <3>1. CASE Unreleased(g) = {}
      BY <1>1, <2>1, <2>3, <3>1 DEF GoesOn, Counted, Blamed
    <3>2. CASE Unreleased(g) # {}
      <4> DEFINE e == Failed(d, m, BudgetCause(grp[g]))
      <4>1. /\ e \in GroupRec /\ e.cause # "none"
            /\ e.pc = d.pc /\ e.idx = d.idx
            /\ e.start = d.start /\ e.finish = d.finish
            /\ e.prefixes = d.prefixes
        BY <2>1, <2>2, <2>4, <3>2, FailedRec
      <4>2. r = e
        BY <3>2
      <4> HIDE DEF e, r
      <4> QED
        BY <1>1, <2>1, <2>3, <4>1, <4>2 DEF GoesOn, Counted
    <3> QED
      BY <3>1, <3>2
  <2> QED
    BY <2>3, <2>5, CoordinatorMoves
<1>4. ASSUME NEW who \in Senders \cup {"none"}, NEW c \in Causes \ {"none"},
             grp' = [grp EXCEPT ![g] = Failed(grp[g], who, c)], UNCHANGED snd,
             grp[g].pc # "done"
      PROVE  GateInv'
  <2> DEFINE e == Failed(grp[g], who, c)
  <2>1. /\ e \in GroupRec /\ e.cause # "none"
        /\ e.pc = grp[g].pc /\ e.idx = grp[g].idx
        /\ e.start = grp[g].start /\ e.finish = grp[g].finish
        /\ e.prefixes = grp[g].prefixes
    BY <1>1, FailedRec
  <2>2. grp' = [grp EXCEPT ![g] = e]
    BY <1>4
  <2> HIDE DEF e
  <2>3. GoesOn(g, e)
    BY <1>1, <1>4, <2>1 DEF GoesOn, Counted
  <2> QED
    BY <1>4, <2>2, <2>3, CoordinatorMoves
<1>5. CASE ParentStops(g)
  <2>1. /\ grp' = [grp EXCEPT ![g] = Failed(grp[g], "none", "stop")]
        /\ UNCHANGED snd /\ grp[g].pc # "done"
    BY <1>1, <1>5 DEF ParentStops, Typed
  <2> QED
    BY <1>4, <2>1 DEF Causes
<1>6. ASSUME NEW s \in Team(g), ExecutionFires(s) PROVE GateInv'
  <2>1. Owner(s) = g /\ s \in Senders
    BY Teams
  <2>2. grp' = [grp EXCEPT ![g] = Failed(grp[g], s, "deadline")] /\ UNCHANGED snd
    BY <1>6, <2>1 DEF ExecutionFires
  <2>3. grp[g].pc # "done"
    BY <1>1, <1>6 DEF Blamed, ExecutionFires, UnderWay
  <2> QED
    BY <1>4, <2>1, <2>2, <2>3 DEF Causes
<1> QED
  BY <1>2, <1>3, <1>5, <1>6


-----------------------------------------------------------------------------
\* Each step of a coordinator that moves no sender goes on.
LEMMA StepsOfReadiness ==
  ASSUME GateInv, NEW g \in Groups, NEW final \in BOOLEAN, WaitReady(g, final)
  PROVE  GateInv'
<1> DEFINE rec == grp[g]
           s == Members[g][rec.idx]
           next == [rec EXCEPT !.idx = @ + 1]
           last == [rec EXCEPT !.idx = 1, !.pc = IF final THEN "delay"
                      ELSE IF rec.charged THEN "join" ELSE "open"]
           fail == Failed(rec, s, "broken")
           end == [fail EXCEPT !.pc = "collect"]
<1>1. /\ Typed /\ Counted(g) /\ Gated(g) /\ Blamed(g) /\ grp[g] \in GroupRec
  BY DEF GateInv, Sound, Typed
<1>2. rec.pc = (IF final THEN "readyFinal" ELSE "ready") /\ UNCHANGED snd
  BY DEF WaitReady
<1>3. Len(Members[g]) \in Nat \ {0} /\ s \in Senders
  BY <1>1, Teams DEF Counted
<1>4. CASE grp' = [grp EXCEPT ![g] = IF rec.idx < Len(Members[g]) THEN next ELSE last]
  <2>1. CASE rec.idx < Len(Members[g])
    <3>1. GoesOn(g, next)
      BY <1>1, <1>2, <1>3, <2>1 DEF GoesOn, GroupRec, Counted, Blamed, Early
    <3> HIDE DEF next, last
    <3> QED
      BY <1>2, <1>4, <2>1, <3>1, CoordinatorMoves
  <2>2. CASE ~(rec.idx < Len(Members[g]))
    <3>1. last.pc \in (IF final THEN {"delay"} ELSE {"join", "open"})
      BY <1>1, Zenon DEF GroupRec
    <3>2. /\ last \in GroupRec /\ last.idx = 1 /\ last.prefixes = rec.prefixes
          /\ last.cause = rec.cause /\ last.origin = rec.origin
          /\ last.start = rec.start /\ last.finish = rec.finish
      BY <1>1 DEF GroupRec, Early
    <3> HIDE DEF next, last
    <3>3. GoesOn(g, last)
      BY <1>1, <1>2, <1>3, <3>1, <3>2 DEF GoesOn, Counted, Blamed, Early
    <3> QED
      BY <1>2, <1>4, <2>2, <3>3, CoordinatorMoves
  <2> QED
    BY <2>1, <2>2
<1>5. CASE grp' = [grp EXCEPT ![g] = end]
  <2>1. /\ fail \in GroupRec /\ fail.cause # "none" /\ fail.idx = rec.idx
        /\ fail.start = rec.start /\ fail.finish = rec.finish
        /\ fail.prefixes = rec.prefixes
    BY <1>1, <1>3, FailedRec DEF Causes
  <2> HIDE DEF fail
  <2>2. GoesOn(g, end)
    BY <1>1, <1>2, <2>1 DEF GoesOn, GroupRec, Counted, Early
  <2> HIDE DEF end
  <2> QED
    BY <1>2, <1>5, <2>2, CoordinatorMoves
<1> QED
  BY <1>4, <1>5 DEF WaitReady

\* A group that opens its start gate goes on.
LEMMA OpeningGoesOn ==
  ASSUME GateInv, NEW g \in Groups, grp[g].pc \in Early \ {"prepare"}
  PROVE  GoesOn(g, Opened(g, grp[g]))
<1>1. /\ Typed /\ Counted(g) /\ Gated(g) /\ Blamed(g) /\ grp[g] \in GroupRec
  BY DEF GateInv, Sound, Typed
<1>2. Len(Members[g]) \in Nat
  BY Teams
<1> DEFINE p == IF g \in LastByte THEN "prefixes" ELSE "collect"
           b == g \notin LastByte
           r == [grp[g] EXCEPT !.start = TRUE, !.finish = b, !.pc = p]
<1>3. Opened(g, grp[g]) = r
  BY DEF Opened
<1>4. p \in {"prefixes", "collect"} /\ b \in BOOLEAN
  OBVIOUS
<1> HIDE DEF p
<1>5. /\ r \in GroupRec /\ r.pc = p /\ r.start /\ r.finish = b
      /\ r.idx = grp[g].idx /\ r.prefixes = grp[g].prefixes
      /\ r.cause = grp[g].cause /\ r.origin = grp[g].origin
  BY <1>1, <1>4 DEF GroupRec
<1> HIDE DEF r
<1>6. GoesOn(g, r)
  BY <1>1, <1>2, <1>4, <1>5 DEF GoesOn, Counted, Gated, Blamed, Early
<1> QED
  BY <1>3, <1>6

LEMMA StepsOfOpening ==
  ASSUME GateInv, NEW g \in Groups,
         OpenUncharged(g) \/ JoinQueue(g) \/ WakeUp(g) \/ CollectPrefixes(g) \/ OpenFinish(g)
  PROVE  GateInv'
<1>1. /\ Typed /\ Counted(g) /\ Gated(g) /\ Blamed(g) /\ grp[g] \in GroupRec
  BY DEF GateInv, Sound, Typed
<1>2. Len(Members[g]) \in Nat
  BY Teams
<1>3. CASE OpenUncharged(g)
  <2> DEFINE rec == grp[g]
             back == [rec EXCEPT !.pc = "ready"]
  <2>1. grp' = [grp EXCEPT ![g] = IF Validated(g) THEN Opened(g, rec) ELSE back]
        /\ UNCHANGED snd /\ rec.pc = "open"
    BY <1>1, <1>3, Zenon DEF OpenUncharged, Typed
  <2>2. GoesOn(g, Opened(g, rec))
    BY <2>1, OpeningGoesOn DEF Early
  <2>3. GoesOn(g, back)
    BY <1>1, <2>1 DEF GoesOn, GroupRec, Counted, Gated, Blamed, Early
  <2> HIDE DEF back
  <2>4. CASE Validated(g)
    BY <2>1, <2>2, <2>4, CoordinatorMoves
  <2>5. CASE ~Validated(g)
    BY <2>1, <2>3, <2>5, CoordinatorMoves
  <2> QED
    BY <2>4, <2>5
<1>4. CASE JoinQueue(g)
  <2> DEFINE r == [grp[g] EXCEPT !.pc = "try"]
  <2>1. GoesOn(g, r)
    BY <1>1, <1>4 DEF JoinQueue, GoesOn, GroupRec, Counted, Gated, Blamed, Early
  <2>2. grp' = [grp EXCEPT ![g] = r] /\ UNCHANGED snd
    BY <1>4 DEF JoinQueue
  <2> HIDE DEF r
  <2> QED
    BY <2>1, <2>2, CoordinatorMoves
<1>5. CASE WakeUp(g)
  <2> DEFINE r == [grp[g] EXCEPT !.pc = "try", !.head = FALSE, !.changed = FALSE]
  <2>1. GoesOn(g, r)
    BY <1>1, <1>5 DEF WakeUp, GoesOn, GroupRec, Counted, Gated, Blamed, Early
  <2>2. grp' = [grp EXCEPT ![g] = r] /\ UNCHANGED snd
    BY <1>1, <1>5 DEF WakeUp, Typed
  <2> HIDE DEF r
  <2> QED
    BY <2>1, <2>2, CoordinatorMoves
<1>6. CASE CollectPrefixes(g)
  <2> DEFINE r == [grp[g] EXCEPT !.pc = "readyFinal"]
             e == [grp[g] EXCEPT !.pc = "collect"]
  <2>1. UNCHANGED snd /\ grp[g].pc = "prefixes"
    BY <1>6 DEF CollectPrefixes
  <2>2. CASE grp[g].prefixes = Len(Members[g]) /\ grp' = [grp EXCEPT ![g] = r]
    <3>1. GoesOn(g, r)
      BY <1>1, <2>1, <2>2 DEF GoesOn, GroupRec, Counted, Gated, Blamed, Early
    <3> HIDE DEF r
    <3> QED
      BY <2>1, <2>2, <3>1, CoordinatorMoves
  <2>3. CASE grp' = [grp EXCEPT ![g] = e]
    <3>1. GoesOn(g, e)
      BY <1>1, <2>1 DEF GoesOn, GroupRec, Counted, Gated, Blamed, Early
    <3> HIDE DEF e
    <3> QED
      BY <2>1, <2>3, <3>1, CoordinatorMoves
  <2> QED
    BY <1>6, <2>2, <2>3 DEF CollectPrefixes
<1>7. CASE OpenFinish(g)
  <2> DEFINE rec == grp[g]
             e == [rec EXCEPT !.pc = "collect"]
             f == [rec EXCEPT !.finish = TRUE, !.pc = "collect"]
             b == [rec EXCEPT !.pc = "readyFinal"]
  <2>1. /\ UNCHANGED snd /\ rec.pc = "delay"
        /\ grp' = [grp EXCEPT ![g] = IF rec.cause # "none" THEN e ELSE IF Validated(g) THEN f ELSE b]
    BY <1>1, <1>7, Zenon DEF OpenFinish, Typed
  <2>2. GoesOn(g, e) /\ GoesOn(g, f) /\ GoesOn(g, b)
    BY <1>1, <2>1 DEF GoesOn, GroupRec, Counted, Gated, Blamed, Early
  <2> HIDE DEF e, f, b
  <2>3. CASE rec.cause # "none"
    BY <2>1, <2>2, <2>3, CoordinatorMoves
  <2>4. CASE rec.cause = "none" /\ Validated(g)
    BY <2>1, <2>2, <2>4, CoordinatorMoves
  <2>5. CASE rec.cause = "none" /\ ~Validated(g)
    BY <2>1, <2>2, <2>5, CoordinatorMoves
  <2> QED
    BY <2>3, <2>4, <2>5
<1> QED
  BY <1>3, <1>4, <1>5, <1>6, <1>7


\* A turn at the pacer ends the group's wait, puts it to sleep, or lets it validate.
LEMMA StepsOfPacing ==
  ASSUME GateInv, NEW g \in Groups, TryCommit(g)
  PROVE  GateInv'
<1> DEFINE rec == grp[g]
           c == BudgetCause(rec)
           fail == Failed(rec, "none", c)
           ended == Resumed([fail EXCEPT !.pc = "collect"])
           again == Resumed([rec EXCEPT !.pc = "ready"])
           asleep == [Paused(rec) EXCEPT !.pc = "sleep", !.head = queue[1] = g]
           begun == [Resumed(rec) EXCEPT !.pc = "validate"]
<1>1. /\ Typed /\ Counted(g) /\ Gated(g) /\ Blamed(g) /\ rec \in GroupRec
  BY DEF GateInv, Sound, Typed
<1>2. rec.pc = "try" /\ UNCHANGED snd
  BY DEF TryCommit
<1>3. Len(Members[g]) \in Nat
  BY Teams
<1>4. CASE c # "none"
  <2>1. c \in Causes \ {"none"}
    BY <1>1, <1>4 DEF BudgetCause, GroupRec
  <2>2. /\ fail \in GroupRec /\ fail.cause # "none" /\ fail.idx = rec.idx
        /\ fail.start = rec.start /\ fail.finish = rec.finish
        /\ fail.prefixes = rec.prefixes
    BY <1>1, <2>1, FailedRec
  <2>3. grp' = [grp EXCEPT ![g] = ended]
    BY <1>4 DEF TryCommit, Leaves
  <2> HIDE DEF fail
  <2>5. /\ ended \in GroupRec /\ ended.pc = "collect" /\ ended.cause # "none"
        /\ ended.idx = rec.idx /\ ended.prefixes = rec.prefixes
        /\ ended.start = rec.start /\ ended.finish = rec.finish
    BY <2>2 DEF GroupRec, Resumed
  <2> HIDE DEF ended
  <2>4. GoesOn(g, ended)
    BY <1>1, <1>2, <2>5 DEF GoesOn, Counted, Early
  <2> QED
    BY <1>2, <2>3, <2>4, CoordinatorMoves
<1>5. CASE c = "none" /\ ~AllReady(g)
  <2>1. grp' = [grp EXCEPT ![g] = again]
    BY <1>5 DEF TryCommit, Leaves
  <2>2. GoesOn(g, again)
    BY <1>1, <1>2, <1>3 DEF GoesOn, GroupRec, Counted, Gated, Blamed, Early, Resumed
  <2> HIDE DEF again
  <2> QED
    BY <1>2, <2>1, <2>2, CoordinatorMoves
<1>6. CASE c = "none" /\ AllReady(g) /\ ~Eligible(g)
  <2>1. grp' = [grp EXCEPT ![g] = asleep]
    BY <1>6 DEF TryCommit
  <2>2. (queue[1] = g) \in BOOLEAN
    OBVIOUS
  <2>3. GoesOn(g, asleep)
    BY <1>1, <1>2, <1>3, <2>2 DEF GoesOn, GroupRec, Counted, Gated, Blamed, Early, Paused
  <2> HIDE DEF asleep
  <2> QED
    BY <1>2, <2>1, <2>3, CoordinatorMoves
<1>7. CASE c = "none" /\ AllReady(g) /\ Eligible(g)
  <2>1. grp' = [grp EXCEPT ![g] = begun]
    BY <1>7 DEF TryCommit
  <2>2. GoesOn(g, begun)
    BY <1>1, <1>2, <1>3 DEF GoesOn, GroupRec, Counted, Gated, Blamed, Early, Resumed
  <2> HIDE DEF begun
  <2> QED
    BY <1>2, <2>1, <2>2, CoordinatorMoves
<1> QED
  BY <1>4, <1>5, <1>6, <1>7

\* Validation under the pacer's lock opens the start gate or sends the group back.
LEMMA StepsOfValidation ==
  ASSUME GateInv, NEW g \in Groups, Commit(g)
  PROVE  GateInv'
<1> DEFINE rec == grp[g]
           opened == Resumed(Opened(g, rec))
           again == Resumed([rec EXCEPT !.pc = "ready"])
<1>1. /\ Typed /\ Counted(g) /\ Gated(g) /\ Blamed(g) /\ rec \in GroupRec
  BY DEF GateInv, Sound, Typed
<1>2. rec.pc = "validate" /\ UNCHANGED snd
  BY DEF Commit
<1>3. GoesOn(g, Opened(g, rec))
  BY <1>2, OpeningGoesOn DEF Early
<1>4. ASSUME NEW r, GoesOn(g, r) PROVE GoesOn(g, Resumed(r))
  <2> DEFINE q == Resumed(r)
  <2>1. r \in GroupRec
    BY <1>4 DEF GoesOn
  <2>2. /\ q \in GroupRec /\ q.pc = r.pc /\ q.idx = r.idx /\ q.prefixes = r.prefixes
        /\ q.cause = r.cause /\ q.origin = r.origin /\ q.start = r.start /\ q.finish = r.finish
    BY <2>1 DEF GroupRec, Resumed
  <2> HIDE DEF q
  <2>3. GoesOn(g, q)
    BY <1>4, <2>2 DEF GoesOn
  <2> QED
    BY <2>3 DEF q
<1>5. GoesOn(g, [rec EXCEPT !.pc = "ready"])
  BY <1>1, <1>2 DEF GoesOn, GroupRec, Counted, Gated, Blamed, Early
<1>6. GoesOn(g, opened) /\ GoesOn(g, again)
  BY <1>3, <1>4, <1>5
<1>7. grp' = [grp EXCEPT ![g] = IF Validated(g) THEN opened ELSE again]
  BY Zenon DEF Commit, Leaves
<1> HIDE DEF opened, again
<1>8. CASE Validated(g)
  BY <1>2, <1>6, <1>7, <1>8, CoordinatorMoves
<1>9. CASE ~Validated(g)
  BY <1>2, <1>6, <1>7, <1>9, CoordinatorMoves
<1> QED
  BY <1>8, <1>9

-----------------------------------------------------------------------------
\* Steps that move all senders of a group at once.
LEMMA PreparedTogether ==
  ASSUME GateInv, NEW g \in Groups, Prepare(g)
  PROVE  GateInv'
<1>1. /\ Typed /\ Counted(g) /\ Gated(g) /\ Blamed(g) /\ grp[g] \in GroupRec
      /\ Team(g) \subseteq Senders /\ grp[g].pc = "prepare"
  BY Teams DEF GateInv, Sound, Typed, Prepare
<1>2. /\ grp' = [grp EXCEPT ![g].pc = "ready"]
      /\ \A s \in Senders : snd'[s] = IF s \in Team(g) THEN [snd[s] EXCEPT !.pc = "gate"] ELSE snd[s]
      /\ snd' \in [Senders -> SenderRec]
  BY <1>1 DEF Prepare, Typed, SenderRec
<1>3. Typed' /\ Only(g)
  BY <1>1, <1>2 DEF Typed, Only, GroupRec, Early
<1>4. /\ grp'[g] = [grp[g] EXCEPT !.pc = "ready"] /\ Len(Members[g]) \in Nat \ {0}
      /\ \A s \in Team(g) : snd'[s] = [snd[s] EXCEPT !.pc = "gate"] /\ snd[s].pc = "idle"
  BY <1>1, <1>2, Teams DEF Typed, Gated
<1>9. \A s \in Team(g) :
        /\ snd'[s].pc = "gate" /\ snd'[s].released = snd[s].released
        /\ snd'[s].active = snd[s].active
  <2> SUFFICES ASSUME NEW s \in Team(g)
               PROVE  /\ snd'[s].pc = "gate" /\ snd'[s].released = snd[s].released
                      /\ snd'[s].active = snd[s].active
    OBVIOUS
  <2>1. snd[s] \in SenderRec
    BY <1>1 DEF Typed
  <2>2. snd'[s] = [snd[s] EXCEPT !.pc = "gate"]
    BY <1>4
  <2> QED
    BY <2>1, <2>2 DEF SenderRec
<1>10. /\ grp'[g].pc = "ready" /\ grp'[g].idx = grp[g].idx /\ grp'[g].prefixes = grp[g].prefixes
       /\ grp'[g].cause = grp[g].cause /\ grp'[g].origin = grp[g].origin
       /\ grp'[g].start = grp[g].start /\ grp'[g].finish = grp[g].finish
  BY <1>1, <1>4 DEF GroupRec
<1>5. PassedBy(g) = {} /\ PassedBy(g)' = {}
  BY <1>4, <1>9 DEF PassedBy, Passed
<1>6. Counted(g)'
  BY <1>1, <1>4, <1>5, <1>10 DEF Counted, Gated
<1>7. Gated(g)'
  BY <1>1, <1>9, <1>10 DEF Gated, Early, UnderWay
<1>8. Blamed(g)'
  BY <1>1, <1>4, <1>9, <1>10 DEF Blamed, UnderWay
<1> QED
  BY <1>3, <1>6, <1>7, <1>8, OthersSound DEF Sound

LEMMA PreparationFailed ==
  ASSUME GateInv, NEW g \in Groups, NEW s \in Team(g), PrepareFails(g, s)
  PROVE  GateInv'
<1> DEFINE why == IF BudgetCause(grp[g]) # "none" THEN BudgetCause(grp[g]) ELSE "broken"
           f == Failed(grp[g], s, why)
<1>1. /\ Typed /\ Counted(g) /\ Gated(g) /\ Blamed(g) /\ grp[g] \in GroupRec
      /\ Team(g) \subseteq Senders /\ grp[g].pc = "prepare"
  BY Teams DEF GateInv, Sound, Typed, PrepareFails
<1>2. why \in Causes \ {"none"}
  BY <1>1 DEF BudgetCause, GroupRec, Causes
<1>3. /\ grp' = [grp EXCEPT ![g] = [f EXCEPT !.pc = "done", !.err = why, !.origin = s]]
      /\ snd' = [t \in Senders |-> IF t \notin Team(g) THEN snd[t]
           ELSE [snd[t] EXCEPT !.pc = "done", !.broken = TRUE, !.failure = IF t = s THEN why ELSE "cancelled"]]
  BY <1>1, Zenon DEF PrepareFails, Typed
<1>4. /\ f \in GroupRec /\ f.cause # "none" /\ f.idx = grp[g].idx
      /\ f.start = grp[g].start /\ f.finish = grp[g].finish /\ f.prefixes = grp[g].prefixes
  BY <1>1, <1>2, FailedRec
<1> HIDE DEF why, f
<1>5. /\ grp'[g] = [f EXCEPT !.pc = "done", !.err = why, !.origin = s]
      /\ \A t \in Team(g) : snd'[t] = [snd[t] EXCEPT !.pc = "done", !.broken = TRUE,
                                           !.failure = IF t = s THEN why ELSE "cancelled"]
      /\ \A t \in Senders \ Team(g) : snd'[t] = snd[t]
  BY <1>1, <1>3 DEF Typed
<1>6. /\ grp'[g] \in GroupRec /\ grp'[g].pc = "done" /\ grp'[g].err = why /\ grp'[g].origin = s
      /\ grp'[g].cause # "none" /\ grp'[g].idx = grp[g].idx /\ grp'[g].start = grp[g].start
      /\ grp'[g].finish = grp[g].finish /\ grp'[g].prefixes = grp[g].prefixes
  <2>1. s \in Senders /\ why \in Causes
    BY <1>1, <1>2
  <2>2. f \in GroupRec
    BY <1>4
  <2>3. grp'[g] = [f EXCEPT !.pc = "done", !.err = why, !.origin = s]
    BY <1>5
  <2>4. /\ grp'[g] \in GroupRec /\ grp'[g].pc = "done" /\ grp'[g].err = why /\ grp'[g].origin = s
        /\ grp'[g].cause = f.cause /\ grp'[g].idx = f.idx /\ grp'[g].start = f.start
        /\ grp'[g].finish = f.finish /\ grp'[g].prefixes = f.prefixes
    BY <2>1, <2>2, <2>3, ZenonT(40) DEF GroupRec
  <2> QED
    BY <1>2, <1>4, <2>4
<1>7. \A t \in Team(g) :
        /\ snd'[t] \in SenderRec /\ snd'[t].pc = "done" /\ snd'[t].active = snd[t].active
        /\ snd'[t].released = snd[t].released /\ snd'[t].complete = snd[t].complete
        /\ snd'[t].failure = IF t = s THEN why ELSE "cancelled"
  <2> SUFFICES ASSUME NEW t \in Team(g)
               PROVE  /\ snd'[t] \in SenderRec /\ snd'[t].pc = "done" /\ snd'[t].active = snd[t].active
                      /\ snd'[t].released = snd[t].released /\ snd'[t].complete = snd[t].complete
                      /\ snd'[t].failure = IF t = s THEN why ELSE "cancelled"
    OBVIOUS
  <2> DEFINE l == IF t = s THEN why ELSE "cancelled"
  <2>1. snd[t] \in SenderRec /\ l \in Causes \cup {"failed", "cancelled"}
    BY <1>1, <1>2 DEF Typed
  <2>2. snd'[t] = [snd[t] EXCEPT !.pc = "done", !.broken = TRUE, !.failure = l]
    BY <1>5
  <2> HIDE DEF l
  <2>3. /\ snd'[t] \in SenderRec /\ snd'[t].pc = "done" /\ snd'[t].active = snd[t].active
        /\ snd'[t].released = snd[t].released /\ snd'[t].complete = snd[t].complete
        /\ snd'[t].failure = l
    BY <2>1, <2>2 DEF SenderRec
  <2> QED
    BY <2>3 DEF l
<1>8. Typed' /\ Only(g)
  <2>1. snd' \in [Senders -> SenderRec]
    BY <1>1, <1>3, <1>5, <1>7 DEF Typed
  <2>2. grp' \in [Groups -> GroupRec] /\ \A h \in Groups \ {g} : grp'[h] = grp[h]
    BY <1>1, <1>3, <1>6 DEF Typed
  <2> QED
    BY <1>5, <2>1, <2>2 DEF Typed, Only
<1>9. Len(Members[g]) \in Nat \ {0} /\ grp[g].prefixes = 0
  BY <1>1, Teams DEF Gated
<1>10. Counted(g)'
  BY <1>1, <1>6, <1>9 DEF Counted
<1>11. Gated(g)'
  BY <1>1, <1>6, <1>7 DEF Gated, Early, UnderWay
<1>12. Blamed(g)'
  <2>1. "cancelled" # why
    BY <1>2 DEF Causes
  <2>2. \A t \in Team(g) : snd[t].pc = "idle" /\ ~snd'[t].active
    BY <1>1, <1>7 DEF Blamed, Gated, UnderWay
  <2>3. \A t \in Team(g) : snd'[t].failure # "none" /\ (t = s <=> snd'[t].failure = why)
    BY <1>2, <1>7, <2>1
  <2> QED
    BY <1>2, <1>6, <1>7, <2>2, <2>3 DEF Blamed
<1> QED
  BY <1>8, <1>10, <1>11, <1>12, OthersSound DEF Sound


LEMMA CancelledTogether ==
  ASSUME GateInv, NEW g \in Groups, SendersCancelled(g)
  PROVE  GateInv'
<1>1. /\ Typed /\ Counted(g) /\ Gated(g) /\ Blamed(g)
      /\ Team(g) \subseteq Senders /\ grp[g].pc = "collect" /\ grp[g].cause # "none"
      /\ grp' = grp
  BY Teams DEF GateInv, Sound, SendersCancelled
<1>2. \A s \in Senders :
        snd'[s] = IF s \in Team(g) /\ snd[s].pc # "done"
                  THEN [snd[s] EXCEPT !.pc = "done", !.active = FALSE, !.failure = "failed", !.broken = TRUE]
                  ELSE snd[s]
  BY DEF SendersCancelled
<1>3. ASSUME NEW s \in Team(g)
      PROVE  /\ snd'[s] \in SenderRec /\ snd'[s].pc = "done"
             /\ snd'[s].released = snd[s].released
             /\ snd'[s].active => snd[s].pc = "done" /\ snd[s].active
  <2>1. snd[s] \in SenderRec
    BY <1>1 DEF Typed
  <2>2. CASE snd[s].pc = "done"
    BY <1>1, <1>2, <2>1, <2>2
  <2>3. CASE snd[s].pc # "done"
    <3>1. snd'[s] = [snd[s] EXCEPT !.pc = "done", !.active = FALSE, !.failure = "failed", !.broken = TRUE]
      BY <1>1, <1>2, <2>3
    <3> QED
      BY <2>1, <3>1 DEF SenderRec
  <2> QED
    BY <2>2, <2>3
<1>4. Typed' /\ Only(g)
  <2>1. \A s \in Senders \ Team(g) : snd'[s] = snd[s]
    BY <1>2
  <2>2. snd' = [s \in Senders |-> snd'[s]]
    BY DEF SendersCancelled
  <2>3. \A s \in Senders : snd'[s] \in SenderRec
    BY <1>1, <1>3, <2>1 DEF Typed
  <2>4. snd' \in [Senders -> SenderRec]
    BY <2>2, <2>3
  <2> QED
    BY <1>1, <2>1, <2>4 DEF Typed, Only
<1>5. Counted(g)'
  BY <1>1, <1>3 DEF Counted, Passed
<1>6. Gated(g)'
  BY <1>1, <1>3 DEF Gated, Early, UnderWay
<1>7. Blamed(g)'
  BY <1>1, <1>3 DEF Blamed, UnderWay
<1> QED
  BY <1>4, <1>5, <1>6, <1>7, OthersSound DEF Sound

LEMMA CollectedTogether ==
  ASSUME GateInv, NEW g \in Groups, Collect(g)
  PROVE  GateInv'
<1> DEFINE rec == grp[g]
           o(s) == Outcome(rec, s)
<1>1. /\ Typed /\ Counted(g) /\ Gated(g) /\ Blamed(g) /\ rec \in GroupRec
      /\ Team(g) \subseteq Senders /\ rec.pc = "collect"
      /\ \A s \in Team(g) : snd[s].pc = "done"
  BY Teams DEF GateInv, Sound, Typed, Collect
<1>2. grp' = [grp EXCEPT ![g] = [rec EXCEPT !.pc = "done", !.err = rec.cause]]
  BY <1>1 DEF Collect, Typed
<1>3. /\ grp'[g] \in GroupRec /\ grp'[g].pc = "done" /\ grp'[g].err = rec.cause
      /\ grp'[g].origin = rec.origin /\ grp'[g].cause = rec.cause /\ grp'[g].idx = rec.idx
      /\ grp'[g].start = rec.start /\ grp'[g].finish = rec.finish /\ grp'[g].prefixes = rec.prefixes
      /\ \A h \in Groups \ {g} : grp'[h] = grp[h]
      /\ grp' \in [Groups -> GroupRec]
  BY <1>1, <1>2 DEF Typed, GroupRec
<1>4. \A s \in Senders :
        snd'[s] = IF s \in Team(g) THEN [snd[s] EXCEPT !.failure = o(s)] ELSE snd[s]
  BY DEF Collect
<1>5. ASSUME NEW s \in Team(g)
      PROVE  /\ snd'[s] \in SenderRec /\ snd'[s].pc = "done" /\ snd'[s].active = snd[s].active
             /\ snd'[s].released = snd[s].released /\ snd'[s].complete = snd[s].complete
             /\ snd'[s].failure = o(s)
  <2>1. snd[s] \in SenderRec /\ snd[s].pc = "done"
    BY <1>1 DEF Typed
  <2>2. o(s) \in Causes \cup {"failed", "cancelled"}
    BY <1>1, <2>1 DEF Outcome, GroupRec, SenderRec, Causes
  <2>3. snd'[s] = [snd[s] EXCEPT !.failure = o(s)]
    BY <1>1, <1>4
  <2> HIDE DEF o
  <2> QED
    BY <2>1, <2>2, <2>3 DEF SenderRec
<1>6. Typed' /\ Only(g)
  <2>1. \A s \in Senders \ Team(g) : snd'[s] = snd[s]
    BY <1>4
  <2>2. snd' = [s \in Senders |-> snd'[s]]
    BY DEF Collect
  <2>3. \A s \in Senders : snd'[s] \in SenderRec
    BY <1>1, <1>5, <2>1 DEF Typed
  <2>4. snd' \in [Senders -> SenderRec]
    BY <2>2, <2>3
  <2> QED
    BY <1>3, <2>1, <2>4 DEF Typed, Only
<1>7. Counted(g)'
  <2>1. PassedBy(g)' = PassedBy(g)
    BY <1>1, <1>5 DEF PassedBy
  <2> QED
    BY <1>1, <1>3, <1>5, <2>1 DEF Counted
<1>8. Gated(g)'
  BY <1>1, <1>3, <1>5 DEF Gated, Early, UnderWay
<1>9. Blamed(g)'
  <2>1. rec.cause = "none" => \A s \in Team(g) : o(s) = "none" /\ snd[s].complete /\ snd[s].released
    BY <1>1 DEF Blamed, Outcome
  <2>2. rec.cause # "none" => \A s \in Team(g) :
          /\ o(s) # "none" \/ snd[s].complete
          /\ s = rec.origin <=> o(s) = rec.cause
    BY <1>1 DEF Outcome, GroupRec, Causes
  <2>3. rec.cause = "none" => rec.origin = "none"
    BY <1>1 DEF Blamed
  <2>4. \A s \in Team(g) : ~snd'[s].active
    BY <1>1, <1>5 DEF Blamed, UnderWay
  <2> HIDE DEF o
  <2> QED
    BY <1>3, <1>5, <2>1, <2>2, <2>3, <2>4 DEF Blamed
<1> QED
  BY <1>6, <1>7, <1>8, <1>9, OthersSound DEF Sound


-----------------------------------------------------------------------------
\* Each step of a sender is one that it carries to its group.
LEMMA SenderSteps ==
  ASSUME GateInv, NEW s \in Senders,
         SenderStep(s) \/ Flip(s) \/ Restore(s) \/ Break(s)
  PROVE  GateInv'
<1> DEFINE g == Owner(s)
<1>1. /\ g \in Groups /\ s \in Team(g) /\ Typed /\ Gated(g) /\ Blamed(g)
      /\ grp[g] \in GroupRec /\ snd[s] \in SenderRec
  BY Teams DEF GateInv, Sound, Typed
<1>2. grp[g].prefixes \in Nat
  BY <1>1 DEF GroupRec
<1>3. /\ grp[g].cause = "none" => grp[g].origin = "none"
      /\ snd[s].pc \in UnderWay => snd[s].released
      /\ snd[s].active => snd[s].pc \in UnderWay
      /\ snd[s].released => grp[g].start
      /\ g \in LastByte /\ snd[s].pc = "respond" => grp[g].finish
  BY <1>1 DEF Gated, Blamed
<1> HIDE DEF g
<1>4. grp = [grp EXCEPT ![g] = grp[g]]
  BY <1>1 DEF Typed
<1>5. ASSUME NEW c \in Causes \ {"none"}, NEW q, snd[s].pc # "done", snd[s].pc # "idle",
             q \in SenderRec, q.pc = "done", ~q.active, q.released = snd[s].released,
             grp' = [grp EXCEPT ![g] = Failed(grp[g], s, c)],
             snd' = [snd EXCEPT ![s] = q]
      PROVE  GateInv'
  <2> DEFINE r == Failed(grp[g], s, c)
  <2>1. /\ r \in GroupRec /\ r.cause # "none"
        /\ r.pc = grp[g].pc /\ r.idx = grp[g].idx /\ r.err = grp[g].err
        /\ r.start = grp[g].start /\ r.finish = grp[g].finish
        /\ r.prefixes = grp[g].prefixes
    BY <1>1, <1>5, FailedRec
  <2>2. grp' = [grp EXCEPT ![g] = r]
    BY <1>5
  <2> HIDE DEF r
  <2>3. Carries(g, s, r, q)
    BY <1>1, <1>3, <1>5, <2>1 DEF Carries, Passed, UnderWay
  <2> QED
    BY <1>1, <1>5, <2>2, <2>3, SenderMoves
<1>6. CASE SenderFails(s)
  <2> DEFINE q == [snd[s] EXCEPT !.pc = "done", !.active = FALSE, !.failure = "failed"]
  <2>1. q \in SenderRec /\ q.pc = "done" /\ ~q.active /\ q.released = snd[s].released
    BY <1>1 DEF SenderRec
  <2>2. /\ snd[s].pc # "done" /\ snd[s].pc # "idle"
        /\ grp' = [grp EXCEPT ![g] = Failed(grp[g], s, "broken")]
        /\ snd' = [snd EXCEPT ![s] = q]
    BY <1>1, <1>6 DEF SenderFails, g, Typed
  <2> HIDE DEF q
  <2>3. "broken" \in Causes \ {"none"}
    BY DEF Causes
  <2> QED
    BY <1>5, <2>1, <2>2, <2>3
<1>7. CASE Release(s)
  <2>1. /\ snd[s].pc = "gate" /\ grp[g].start /\ grp[g].cause = "none"
    BY <1>7 DEF Release, g
  <2>2. CASE BudgetCause(grp[g]) # "none"
    <3> DEFINE c == BudgetCause(grp[g])
               q == [snd[s] EXCEPT !.pc = "done", !.failure = "failed", !.broken = TRUE]
    <3>1. q \in SenderRec /\ q.pc = "done" /\ ~q.active /\ q.released = snd[s].released
      BY <1>1, <1>3, <2>1 DEF SenderRec, UnderWay
    <3>2. c \in Causes \ {"none"}
      BY <1>1, <2>2 DEF BudgetCause, GroupRec
    <3>3. /\ grp' = [grp EXCEPT ![g] = Failed(grp[g], s, c)]
          /\ snd' = [snd EXCEPT ![s] = q]
      BY <1>1, <1>7, <2>2 DEF Release, g, Typed
    <3> HIDE DEF q, c
    <3> QED
      BY <1>5, <2>1, <3>1, <3>2, <3>3
  <2>3. CASE BudgetCause(grp[g]) = "none"
    <3> DEFINE q == [snd[s] EXCEPT !.pc = "prefix", !.released = TRUE, !.active = TRUE]
               d == Closed(grp[g])
               r == IF Cardinality(Unreleased(g)) = 1 THEN [d EXCEPT !.watching = FALSE] ELSE grp[g]
    <3>1. /\ q \in SenderRec /\ q.pc = "prefix" /\ q.released
      BY <1>1 DEF SenderRec
    <3>2. /\ r \in GroupRec
          /\ r.pc = grp[g].pc /\ r.idx = grp[g].idx /\ r.err = grp[g].err
          /\ r.start = grp[g].start /\ r.finish = grp[g].finish
          /\ r.prefixes = grp[g].prefixes
          /\ r.cause = grp[g].cause /\ r.origin = grp[g].origin
      <4>1. d = [grp[g] EXCEPT !.bcause = "closed"]
        BY <2>3 DEF Closed
      <4> HIDE DEF d
      <4>2. [d EXCEPT !.watching = FALSE] = [grp[g] EXCEPT !.bcause = "closed", !.watching = FALSE]
        BY <4>1
      <4>3. CASE Cardinality(Unreleased(g)) = 1
        <5>1. r = [grp[g] EXCEPT !.bcause = "closed", !.watching = FALSE]
          BY <4>2, <4>3
        <5> HIDE DEF r
        <5> QED
          BY <1>1, <5>1 DEF GroupRec, Causes
      <4>4. CASE Cardinality(Unreleased(g)) # 1
        BY <1>1, <4>4
      <4> QED
        BY <4>3, <4>4
    <3>3. grp' = [grp EXCEPT ![g] = r] /\ snd' = [snd EXCEPT ![s] = q]
      BY <1>1, <1>7, <2>3, Zenon DEF Release, g, Typed
    <3> HIDE DEF q, r
    <3>4. Carries(g, s, r, q)
      BY <1>1, <1>3, <2>1, <3>1, <3>2 DEF Carries, Passed, UnderWay
    <3> QED
      BY <1>1, <3>3, <3>4, SenderMoves
  <2> QED
    BY <2>2, <2>3
<1>8. CASE Prefix(s)
  <2> DEFINE p == IF g \in LastByte THEN "final" ELSE "respond"
             q == [snd[s] EXCEPT !.pc = p]
             r == [grp[g] EXCEPT !.prefixes = @ + 1]
  <2>1. /\ snd[s].pc = "prefix" /\ grp[g].cause = "none"
        /\ snd' = [snd EXCEPT ![s] = q]
        /\ grp' = [grp EXCEPT ![g] = r]
    BY <1>1, <1>8 DEF Prefix, g, Typed
  <2>2. p \in {"final", "respond"} /\ (g \in LastByte => p = "final")
    OBVIOUS
  <2> HIDE DEF p
  <2>3. /\ q \in SenderRec /\ q.pc = p /\ q.released = snd[s].released
        /\ q.active = snd[s].active
    BY <1>1, <2>2 DEF SenderRec
  <2>4. /\ r \in GroupRec /\ r.prefixes = grp[g].prefixes + 1
        /\ r.pc = grp[g].pc /\ r.idx = grp[g].idx /\ r.err = grp[g].err
        /\ r.start = grp[g].start /\ r.finish = grp[g].finish
        /\ r.cause = grp[g].cause /\ r.origin = grp[g].origin
    BY <1>1, <1>2 DEF GroupRec
  <2> HIDE DEF q, r
  <2>5. Carries(g, s, r, q)
    BY <1>1, <1>3, <2>1, <2>2, <2>3, <2>4 DEF Carries, Passed, UnderWay
  <2> QED
    BY <1>1, <2>1, <2>5, SenderMoves
<1>9. CASE Final(s)
  <2> DEFINE q == [snd[s] EXCEPT !.pc = "respond"]
  <2>1. /\ snd[s].pc = "final" /\ grp[g].finish
        /\ snd' = [snd EXCEPT ![s] = q]
        /\ grp' = [grp EXCEPT ![g] = grp[g]]
    BY <1>1, <1>4, <1>9 DEF Final, g, Typed
  <2>2. /\ q \in SenderRec /\ q.pc = "respond" /\ q.released = snd[s].released
        /\ q.active = snd[s].active
    BY <1>1 DEF SenderRec
  <2> HIDE DEF q
  <2>3. Carries(g, s, grp[g], q)
    BY <1>1, <1>3, <2>1, <2>2 DEF Carries, Passed, UnderWay
  <2> QED
    BY <1>1, <2>1, <2>3, SenderMoves
<1>10. ASSUME NEW overdue \in BOOLEAN, Respond(s, overdue) PROVE GateInv'
  <2> DEFINE l == IF overdue \/ grp[g].cause # "none" THEN "failed" ELSE "none"
             q == [snd[s] EXCEPT !.pc = "done", !.active = FALSE, !.complete = TRUE, !.failure = l]
  <2>1. snd[s].pc = "respond" /\ snd' = [snd EXCEPT ![s] = q]
    BY <1>1, <1>10 DEF Respond, g, Typed
  <2>2. l \in {"failed", "none"} /\ (~overdue /\ grp[g].cause = "none" => l = "none")
    OBVIOUS
  <2> HIDE DEF l
  <2>3. /\ q \in SenderRec /\ q.pc = "done" /\ ~q.active /\ q.complete
        /\ q.released = snd[s].released /\ q.failure = l
    BY <1>1, <2>2 DEF SenderRec, Causes
  <2> HIDE DEF q
  <2>4. CASE overdue
    <3>1. grp' = [grp EXCEPT ![g] = Failed(grp[g], s, "deadline")]
      BY <1>1, <1>10, <2>4 DEF Respond, g, Typed
    <3>2. "deadline" \in Causes \ {"none"}
      BY DEF Causes
    <3> QED
      BY <1>5, <2>1, <2>3, <3>1, <3>2
  <2>5. CASE ~overdue
    <3>1. grp' = [grp EXCEPT ![g] = grp[g]]
      BY <1>1, <1>10, <2>5 DEF Respond, g, Typed
    <3>2. Carries(g, s, grp[g], q)
      BY <1>1, <1>3, <2>1, <2>2, <2>3, <2>5 DEF Carries, Passed, UnderWay
    <3> QED
      BY <1>1, <2>1, <3>1, <3>2, SenderMoves
  <2> QED
    BY <2>4, <2>5
<1>11. ASSUME NEW q \in SenderRec, q.pc = snd[s].pc, q.released = snd[s].released,
              q.active = snd[s].active, snd[s].pc # "done",
              snd' = [snd EXCEPT ![s] = q],
              grp' = [grp EXCEPT ![g] = [grp[g] EXCEPT !.changed = grp[g].pc = "sleep"]]
       PROVE  GateInv'
  <2> DEFINE b == grp[g].pc = "sleep"
             r == [grp[g] EXCEPT !.changed = b]
  <2>1. b \in BOOLEAN
    OBVIOUS
  <2>2. grp' = [grp EXCEPT ![g] = r]
    BY <1>11
  <2> HIDE DEF b
  <2>3. /\ r \in GroupRec /\ r.prefixes = grp[g].prefixes
        /\ r.pc = grp[g].pc /\ r.idx = grp[g].idx /\ r.err = grp[g].err
        /\ r.start = grp[g].start /\ r.finish = grp[g].finish
        /\ r.cause = grp[g].cause /\ r.origin = grp[g].origin
    BY <1>1, <2>1 DEF GroupRec
  <2> HIDE DEF r
  <2>4. Carries(g, s, r, q)
    BY <1>1, <1>3, <1>11, <2>3 DEF Carries, Passed, UnderWay
  <2> QED
    BY <1>1, <1>11, <2>2, <2>4, SenderMoves
<1>12. ASSUME NEW b \in BOOLEAN, snd' = [snd EXCEPT ![s] = [snd[s] EXCEPT !.ready = b]],
              snd[s].pc # "done",
              grp' = [grp EXCEPT ![g] = [grp[g] EXCEPT !.changed = grp[g].pc = "sleep"]]
       PROVE  GateInv'
  <2> DEFINE q == [snd[s] EXCEPT !.ready = b]
  <2>1. /\ q \in SenderRec /\ q.pc = snd[s].pc /\ q.released = snd[s].released
        /\ q.active = snd[s].active
    BY <1>1 DEF SenderRec
  <2>2. snd' = [snd EXCEPT ![s] = q]
    BY <1>12
  <2> HIDE DEF q
  <2> QED
    BY <1>11, <1>12, <2>1, <2>2
<1>13. CASE Flip(s)
  <2>1. /\ snd' = [snd EXCEPT ![s] = [snd[s] EXCEPT !.ready = FALSE]] /\ snd[s].pc # "done"
        /\ grp' = [grp EXCEPT ![g] = [grp[g] EXCEPT !.changed = grp[g].pc = "sleep"]]
    BY <1>1, <1>13 DEF Flip, g, Typed
  <2> QED
    BY <1>12, <2>1
<1>14. CASE Restore(s)
  <2>1. /\ snd' = [snd EXCEPT ![s] = [snd[s] EXCEPT !.ready = TRUE]] /\ snd[s].pc # "done"
        /\ grp' = [grp EXCEPT ![g] = [grp[g] EXCEPT !.changed = grp[g].pc = "sleep"]]
    BY <1>1, <1>14 DEF Restore, g, Typed
  <2> QED
    BY <1>12, <2>1
<1>15. CASE Break(s)
  <2> DEFINE q == [snd[s] EXCEPT !.broken = TRUE]
  <2>1. /\ q \in SenderRec /\ q.pc = snd[s].pc /\ q.released = snd[s].released
        /\ q.active = snd[s].active
    BY <1>1 DEF SenderRec
  <2>2. /\ snd' = [snd EXCEPT ![s] = q] /\ snd[s].pc # "done"
        /\ grp' = [grp EXCEPT ![g] = [grp[g] EXCEPT !.changed = grp[g].pc = "sleep"]]
    BY <1>1, <1>15 DEF Break, g, Typed
  <2> HIDE DEF q
  <2> QED
    BY <1>11, <2>1, <2>2
<1> QED
  BY <1>6, <1>7, <1>8, <1>9, <1>10, <1>13, <1>14, <1>15 DEF SenderStep


-----------------------------------------------------------------------------
LEMMA InitGate == Init => GateInv
<1> SUFFICES ASSUME Init PROVE GateInv
  OBVIOUS
<1>1. PICK plan \in Plans : grp = [g \in Groups |->
        [Group EXCEPT !.charged = g \in plan.charged, !.limited = plan.limited]]
  BY DEF Init
<1>2. ASSUME NEW g \in Groups
      PROVE  /\ grp[g] \in GroupRec /\ grp[g].pc = "prepare" /\ grp[g].idx = 1
             /\ grp[g].cause = "none" /\ grp[g].origin = "none"
             /\ ~grp[g].start /\ ~grp[g].finish /\ grp[g].prefixes = 0
  <2> DEFINE b == g \in plan.charged
             c == grp[g]
             limit == plan.limited
  <2>1. c = [Group EXCEPT !.charged = b, !.limited = limit] /\ b \in BOOLEAN
    <3>1. b \in BOOLEAN
      OBVIOUS
    <3>2. c = [Group EXCEPT !.charged = b, !.limited = limit]
      BY <1>1, Zenon
    <3> QED
      BY <3>1, <3>2
  <2>5. limit \in BOOLEAN
    BY GateAssumption
  <2> HIDE DEF b, c, limit
  <2>2. Group \in GroupRec
    BY DEF Group, GroupRec, Causes, Early
  <2>3. c \in GroupRec
    BY <2>1, <2>2, <2>5 DEF GroupRec
  <2>4. /\ c.pc = "prepare" /\ c.idx = 1 /\ c.cause = "none" /\ c.origin = "none"
        /\ ~c.start /\ ~c.finish /\ c.prefixes = 0
    BY <2>1 DEF Group
  <2> QED
    BY <2>3, <2>4 DEF c
<1>3. ASSUME NEW s \in Senders
      PROVE  /\ snd[s] \in SenderRec /\ snd[s].pc = "idle" /\ ~snd[s].released /\ ~snd[s].active
  BY DEF Init, Sender, SenderRec, Causes
<1>4. Typed
  BY <1>1, <1>2, <1>3 DEF Typed, Init
<1>5. ASSUME NEW g \in Groups PROVE Sound(g)
  <2>1. Team(g) \subseteq Senders /\ Len(Members[g]) \in Nat \ {0}
    BY Teams
  <2>2. PassedBy(g) = {}
    BY <1>3, <2>1 DEF PassedBy, Passed
  <2>3. Cardinality(PassedBy(g)) = 0
    BY <2>2, FS_EmptySet
  <2>4. Counted(g)
    BY <1>2, <2>1, <2>3 DEF Counted
  <2>5. Gated(g)
    BY <1>2, <1>3, <2>1 DEF Gated, UnderWay
  <2>6. Blamed(g)
    BY <1>2, <1>3, <2>1 DEF Blamed
  <2> QED
    BY <2>4, <2>5, <2>6 DEF Sound
<1> QED
  BY <1>4, <1>5 DEF GateInv

LEMMA NextGate == GateInv /\ [Next]_vars => GateInv'
<1> SUFFICES ASSUME GateInv, [Next]_vars PROVE GateInv'
  OBVIOUS
<1>1. CASE UNCHANGED <<grp, snd>>
  <2>1. Typed'
    BY <1>1 DEF GateInv, Typed
  <2>2. ASSUME NEW g \in Groups PROVE Sound(g)'
    <3>1. Sound(g) /\ PassedBy(g)' = PassedBy(g)
      BY <1>1 DEF GateInv, PassedBy
    <3> QED
      BY <1>1, <3>1, Zenon DEF Sound, Counted, Gated, Blamed
  <2> QED
    BY <2>1, <2>2 DEF GateInv
<1>2. ASSUME NEW g \in Groups, GroupStep(g) PROVE GateInv'
  BY <1>2, PreparedTogether, PreparationFailed, StepsOfReadiness, StepsOfOpening,
     StepsOfPacing, StepsOfValidation, CancelledTogether, CollectedTogether DEF GroupStep
<1>3. ASSUME NEW g \in Groups, Timers(g) \/ ParentStops(g) PROVE GateInv'
  BY <1>3, TimersMove DEF Timers
<1>4. ASSUME NEW s \in Senders, SenderStep(s) \/ Flip(s) \/ Restore(s) \/ Break(s)
      PROVE  GateInv'
  BY <1>4, SenderSteps
<1>5. CASE Tick \/ UNCHANGED vars
  BY <1>1, <1>5 DEF Tick, vars
<1> QED
  BY <1>2, <1>3, <1>4, <1>5 DEF Next

THEOREM GateSound == Spec => []GateInv
BY InitGate, NextGate, PTL DEF Spec

-----------------------------------------------------------------------------
\* No synchronised sender sends its final part before its whole group has sent its
\* prefixes: a response under way needs the finish gate, which opens only with every
\* prefix collected.
LEMMA FinalAfter == GateInv => FinalAfterPrefixes
<1> SUFFICES ASSUME GateInv, NEW g \in LastByte, NEW s \in Team(g), NEW t \in Team(g),
                    snd[s].pc = "respond"
             PROVE  snd[t].released /\ snd[t].pc # "prefix"
  BY DEF FinalAfterPrefixes
<1>1. g \in Groups /\ Counted(g) /\ Gated(g)
  BY GateAssumption DEF GateInv, Sound
<1>2. grp[g].prefixes = Len(Members[g])
  BY <1>1 DEF Gated
<1>3. snd[t].pc \in Passed /\ snd[t].released
  BY <1>1, <1>2 DEF Counted
<1> QED
  BY <1>3 DEF Passed

-----------------------------------------------------------------------------
\* A group whose gates are as they were.
Unmoved(g) == grp'[g].start = grp[g].start /\ grp'[g].finish = grp[g].finish

\* A step that replaces one group's record by one with the same gates moves none.
LEMMA SameGates ==
  ASSUME Typed, NEW g \in Groups, NEW r, grp' = [grp EXCEPT ![g] = r],
         r.start = grp[g].start, r.finish = grp[g].finish
  PROVE  \A h \in Groups : Unmoved(h)
BY DEF Typed, Unmoved

\* Timers, callers and senders open no gate.
LEMMA OthersOpenNone ==
  ASSUME GateInv,
         \/ \E g \in Groups : Timers(g) \/ ParentStops(g)
         \/ \E s \in Senders : SenderStep(s) \/ Flip(s) \/ Restore(s) \/ Break(s)
  PROVE  \A h \in Groups : Unmoved(h)
<1>1. Typed /\ \A g \in Groups : grp[g] \in GroupRec
  BY DEF GateInv, Typed
<1>2. \A rec \in GroupRec : \A who, c :
        Failed(rec, who, c).start = rec.start /\ Failed(rec, who, c).finish = rec.finish
  BY DEF Failed, GroupRec
<1>5. ASSUME NEW g \in Groups, NEW who, NEW c, grp' = [grp EXCEPT ![g] = Failed(grp[g], who, c)]
      PROVE  \A h \in Groups : Unmoved(h)
  <2> DEFINE r == Failed(grp[g], who, c)
  <2>1. r.start = grp[g].start /\ r.finish = grp[g].finish
    BY <1>1, <1>2
  <2>2. grp' = [grp EXCEPT ![g] = r]
    BY <1>5
  <2> HIDE DEF r
  <2> QED
    BY <1>1, <2>1, <2>2, SameGates
<1>3. CASE \E g \in Groups : Timers(g) \/ ParentStops(g)
  <2>1. PICK g \in Groups : Timers(g) \/ ParentStops(g)
    BY <1>3
  <2>2. grp[g] \in GroupRec
    BY <1>1
  <2>3. CASE BudgetFires(g)
    BY <1>1, <2>2, <2>3, SameGates DEF BudgetFires, GroupRec
  <2>4. CASE ReadinessEnds(g)
    <3> DEFINE d == [grp[g] EXCEPT !.watching = FALSE]
               r == IF Unreleased(g) = {} THEN d
                    ELSE Failed(d, Members[g][Min(Unreleased(g))], BudgetCause(grp[g]))
    <3>1. d \in GroupRec /\ d.start = grp[g].start /\ d.finish = grp[g].finish
      BY <2>2 DEF GroupRec
    <3>2. grp' = [grp EXCEPT ![g] = r]
      BY <2>4 DEF ReadinessEnds
    <3> HIDE DEF d
    <3>3. r.start = grp[g].start /\ r.finish = grp[g].finish
      BY <1>2, <3>1
    <3> HIDE DEF r
    <3> QED
      BY <1>1, <3>2, <3>3, SameGates
  <2>5. ASSUME NEW s \in Team(g), ExecutionFires(s) PROVE \A h \in Groups : Unmoved(h)
    <3>1. Owner(s) = g
      BY Teams
    <3>2. grp' = [grp EXCEPT ![g] = Failed(grp[g], s, "deadline")]
      BY <2>5, <3>1 DEF ExecutionFires
    <3> QED
      BY <1>5, <3>2
  <2>6. CASE ParentStops(g)
    <3>1. grp' = [grp EXCEPT ![g] = Failed(grp[g], "none", "stop")]
      BY <2>6 DEF ParentStops
    <3> QED
      BY <1>5, <3>1
  <2> QED
    BY <2>1, <2>3, <2>4, <2>5, <2>6 DEF Timers
<1>4. CASE \E s \in Senders : SenderStep(s) \/ Flip(s) \/ Restore(s) \/ Break(s)
  <2>1. PICK s \in Senders : SenderStep(s) \/ Flip(s) \/ Restore(s) \/ Break(s)
    BY <1>4
  <2> DEFINE g == Owner(s)
  <2>2. g \in Groups /\ grp[g] \in GroupRec
    BY <1>1, Teams
  <2>3. CASE SenderFails(s)
    <3>1. grp' = [grp EXCEPT ![g] = Failed(grp[g], s, "broken")]
      BY <2>3 DEF SenderFails
    <3> HIDE DEF g
    <3> QED
      BY <1>5, <2>2, <3>1
  <2>4. CASE Release(s)
    <3> DEFINE r == IF BudgetCause(grp[g]) # "none" THEN Failed(grp[g], s, BudgetCause(grp[g]))
                    ELSE IF Cardinality(Unreleased(g)) = 1 THEN [Closed(grp[g]) EXCEPT !.watching = FALSE]
                    ELSE grp[g]
    <3>1. grp' = [grp EXCEPT ![g] = r]
      BY <1>1, <2>2, <2>4, Zenon DEF Release, Typed
    <3>2. r.start = grp[g].start /\ r.finish = grp[g].finish
      BY <1>2, <2>2 DEF Closed, GroupRec
    <3> HIDE DEF r
    <3> QED
      BY <1>1, <2>2, <3>1, <3>2, SameGates
  <2>5. CASE Prefix(s)
    BY <1>1, <2>2, <2>5, SameGates DEF Prefix, GroupRec
  <2>6. CASE Final(s)
    BY <2>6 DEF Final, Unmoved
  <2>7. ASSUME NEW overdue \in BOOLEAN, Respond(s, overdue) PROVE \A h \in Groups : Unmoved(h)
    <3>1. grp' = [grp EXCEPT ![g] = IF overdue THEN Failed(grp[g], s, "deadline") ELSE grp[g]]
      BY <2>7, Zenon DEF Respond
    <3> HIDE DEF g
    <3>2. CASE overdue
      BY <1>5, <2>2, <3>1, <3>2
    <3>3. CASE ~overdue
      BY <1>1, <2>2, <3>1, <3>3, SameGates
    <3> QED
      BY <3>2, <3>3
  <2>8. CASE Flip(s) \/ Restore(s) \/ Break(s)
    <3>1. grp' = [grp EXCEPT ![g] = [grp[g] EXCEPT !.changed = grp[g].pc = "sleep"]]
      BY <1>1, <2>2, <2>8 DEF Flip, Restore, Break, Typed
    <3> QED
      BY <1>1, <2>2, <3>1, SameGates DEF GroupRec
  <2> QED
    BY <2>1, <2>3, <2>4, <2>5, <2>6, <2>7, <2>8 DEF SenderStep
<1> QED
  BY <1>3, <1>4

\* A coordinator opens the start gate in OpenUncharged and Commit, the finish gate of
\* a synchronised group in OpenFinish, and each after validate.
LEMMA OpensValidated ==
  ASSUME GateInv, NEW g \in Groups, GroupStep(g), NEW h \in Groups, ~Unmoved(h)
  PROVE  /\ h = g /\ Validated(g)
         /\ \/ grp[g].pc \in {"open", "validate"} /\ grp'[g].finish = (g \notin LastByte)
            \/ grp[g].pc = "delay" /\ grp'[g].start = grp[g].start
<1> DEFINE rec == grp[g]
           f(who, c) == Failed(rec, who, c)
<1>1. Typed /\ rec \in GroupRec
  BY DEF GateInv, Typed
<1>2. ASSUME NEW r, grp' = [grp EXCEPT ![g] = r], r.start = rec.start, r.finish = rec.finish
      PROVE  FALSE
  BY <1>1, <1>2, SameGates
<1>3. ASSUME NEW who, NEW c
      PROVE  /\ f(who, c).start = rec.start /\ f(who, c).finish = rec.finish
             /\ {"start", "finish"} \subseteq DOMAIN f(who, c)
  BY <1>1 DEF Failed, GroupRec
<1> HIDE DEF f
<1>4. ASSUME NEW who, NEW c, NEW p, grp' = [grp EXCEPT ![g] = [f(who, c) EXCEPT !.pc = p]]
      PROVE  FALSE
  <2> DEFINE r == [f(who, c) EXCEPT !.pc = p]
  <2>1. r.start = rec.start /\ r.finish = rec.finish
    BY <1>3
  <2>2. grp' = [grp EXCEPT ![g] = r]
    BY <1>4
  <2> HIDE DEF r
  <2> QED
    BY <1>2, <2>1, <2>2
<1>5. ASSUME NEW r, grp' = [grp EXCEPT ![g] = r] PROVE h = g
  BY <1>1, <1>5 DEF Typed, Unmoved
<1>6. CASE Prepare(g) \/ JoinQueue(g) \/ WakeUp(g) \/ CollectPrefixes(g) \/ SendersCancelled(g) \/ Collect(g)
  <2>1. \/ \E p : grp' = [grp EXCEPT ![g] = [rec EXCEPT !.pc = p]]
        \/ grp' = [grp EXCEPT ![g] = [rec EXCEPT !.pc = "try", !.head = FALSE, !.changed = FALSE]]
        \/ grp' = [grp EXCEPT ![g] = [rec EXCEPT !.pc = "done", !.err = rec.cause]]
        \/ grp' = [grp EXCEPT ![g] = rec]
    BY <1>1, <1>6 DEF Prepare, JoinQueue, WakeUp, CollectPrefixes, SendersCancelled, Collect, Typed
  <2>2. \A p : [rec EXCEPT !.pc = p].start = rec.start /\ [rec EXCEPT !.pc = p].finish = rec.finish
    BY <1>1 DEF GroupRec
  <2> QED
    BY <1>1, <1>2, <2>1, <2>2 DEF GroupRec
<1>7. ASSUME NEW s \in Team(g), PrepareFails(g, s) PROVE FALSE
  <2> DEFINE why == IF BudgetCause(rec) # "none" THEN BudgetCause(rec) ELSE "broken"
             r == [f(s, why) EXCEPT !.pc = "done", !.err = why, !.origin = s]
  <2>1. grp' = [grp EXCEPT ![g] = r]
    BY <1>1, <1>7, Zenon DEF PrepareFails, Typed, f
  <2>2. r.start = rec.start /\ r.finish = rec.finish
    BY <1>3
  <2> HIDE DEF r
  <2> QED
    BY <1>2, <2>1, <2>2
<1>8. ASSUME NEW final \in BOOLEAN, WaitReady(g, final) PROVE FALSE
  <2> DEFINE s == Members[g][rec.idx]
             pl == IF final THEN "delay" ELSE IF rec.charged THEN "join" ELSE "open"
             next == [rec EXCEPT !.idx = @ + 1]
             last == [rec EXCEPT !.idx = 1, !.pc = pl]
  <2>1. \/ grp' = [grp EXCEPT ![g] = IF rec.idx < Len(Members[g]) THEN next ELSE last]
        \/ grp' = [grp EXCEPT ![g] = [f(s, "broken") EXCEPT !.pc = "collect"]]
    BY <1>8, Zenon DEF WaitReady, f
  <2> HIDE DEF pl
  <2>2. /\ next.start = rec.start /\ next.finish = rec.finish
        /\ last.start = rec.start /\ last.finish = rec.finish
    BY <1>1 DEF GroupRec
  <2> HIDE DEF next, last
  <2> QED
    BY <1>2, <1>4, <2>1, <2>2
<1>9. ASSUME NEW r, r \in {rec, Resumed(rec), Paused(rec)}, NEW p, NEW b,
             \/ grp' = [grp EXCEPT ![g] = [r EXCEPT !.pc = p]]
             \/ grp' = [grp EXCEPT ![g] = Resumed([r EXCEPT !.pc = p])]
             \/ grp' = [grp EXCEPT ![g] = [r EXCEPT !.pc = p, !.head = b]]
      PROVE  FALSE
  <2>1. r.start = rec.start /\ r.finish = rec.finish /\ {"start", "finish"} \subseteq DOMAIN r
    BY <1>1, <1>9 DEF Resumed, Paused, GroupRec
  <2>2. /\ [r EXCEPT !.pc = p].start = rec.start /\ [r EXCEPT !.pc = p].finish = rec.finish
        /\ [r EXCEPT !.pc = p, !.head = b].start = rec.start
        /\ [r EXCEPT !.pc = p, !.head = b].finish = rec.finish
        /\ Resumed([r EXCEPT !.pc = p]).start = rec.start
        /\ Resumed([r EXCEPT !.pc = p]).finish = rec.finish
    BY <2>1 DEF Resumed
  <2> QED
    BY <1>2, <1>9, <2>2
<1>10. CASE TryCommit(g)
  <2>1. \/ \E who, c : grp' = [grp EXCEPT ![g] = Resumed([f(who, c) EXCEPT !.pc = "collect"])]
        \/ grp' = [grp EXCEPT ![g] = Resumed([rec EXCEPT !.pc = "ready"])]
        \/ grp' = [grp EXCEPT ![g] = [Resumed(rec) EXCEPT !.pc = "validate"]]
        \/ \E b : grp' = [grp EXCEPT ![g] = [Paused(rec) EXCEPT !.pc = "sleep", !.head = b]]
    BY <1>10 DEF TryCommit, Leaves, f
  <2>2. ASSUME NEW who, NEW c, grp' = [grp EXCEPT ![g] = Resumed([f(who, c) EXCEPT !.pc = "collect"])]
        PROVE  FALSE
    <3> DEFINE r == Resumed([f(who, c) EXCEPT !.pc = "collect"])
    <3>1. r.start = rec.start /\ r.finish = rec.finish
      BY <1>3 DEF Resumed
    <3>2. grp' = [grp EXCEPT ![g] = r]
      BY <2>2
    <3> HIDE DEF r
    <3> QED
      BY <1>2, <3>1, <3>2
  <2> QED
    BY <1>9, <2>1, <2>2
<1>11. Opened(g, rec).finish = (g \notin LastByte) /\ Resumed(Opened(g, rec)).finish = (g \notin LastByte)
  BY <1>1 DEF Opened, Resumed, GroupRec
<1>12. CASE OpenUncharged(g)
  <2>1. /\ rec.pc = "open"
        /\ grp' = [grp EXCEPT ![g] = IF Validated(g) THEN Opened(g, rec) ELSE [rec EXCEPT !.pc = "ready"]]
    BY <1>1, <1>12, Zenon DEF OpenUncharged, Typed
  <2>2. Validated(g)
    BY <1>9, <2>1
  <2>3. h = g /\ grp'[g] = Opened(g, rec)
    BY <1>1, <1>5, <2>1, <2>2 DEF Typed
  <2> QED
    BY <1>11, <2>1, <2>2, <2>3
<1>13. CASE Commit(g)
  <2>1. /\ rec.pc = "validate"
        /\ grp' = [grp EXCEPT ![g] = Resumed(IF Validated(g) THEN Opened(g, rec) ELSE [rec EXCEPT !.pc = "ready"])]
    BY <1>13 DEF Commit, Leaves
  <2>2. Validated(g)
    BY <1>9, <2>1
  <2>3. h = g /\ grp'[g] = Resumed(Opened(g, rec))
    BY <1>1, <1>5, <2>1, <2>2 DEF Typed
  <2> QED
    BY <1>11, <2>1, <2>2, <2>3
<1>14. CASE OpenFinish(g)
  <2>1. /\ rec.pc = "delay"
        /\ \/ \E p : grp' = [grp EXCEPT ![g] = [rec EXCEPT !.pc = p]]
           \/ Validated(g) /\ grp' = [grp EXCEPT ![g] = [rec EXCEPT !.finish = TRUE, !.pc = "collect"]]
    BY <1>1, <1>14, Zenon DEF OpenFinish, Typed
  <2>2. Validated(g) /\ grp' = [grp EXCEPT ![g] = [rec EXCEPT !.finish = TRUE, !.pc = "collect"]]
    BY <1>9, <2>1
  <2>3. h = g /\ grp'[g].start = rec.start
    BY <1>1, <1>5, <2>2 DEF Typed, GroupRec
  <2> QED
    BY <2>1, <2>2, <2>3
<1> QED
  BY <1>6, <1>7, <1>8, <1>10, <1>12, <1>13, <1>14 DEF GroupStep

\* A gate opens only when the whole group waits at it, ready, on sound connections and
\* not cancelled: OpensValidated names the steps, and the invariant says where the
\* members are before the start gate and once every prefix is in.
LEMMA OpensTogether == GateInv /\ [Next]_vars => OpenTogether
<1> SUFFICES ASSUME GateInv, [Next]_vars PROVE OpenTogether
  OBVIOUS
<1>1. CASE (\A g \in Groups : Unmoved(g)) \/ UNCHANGED grp
  BY <1>1 DEF Unmoved, OpenTogether
<1>2. ASSUME NEW g \in Groups, GroupStep(g) PROVE OpenTogether
  <2>1. SUFFICES ASSUME NEW h \in Groups, ~Unmoved(h)
                 PROVE  /\ ~grp[h].start /\ grp'[h].start =>
                             grp[h].cause = "none" /\ \A s \in Team(h) : Waits(s, "gate")
                        /\ h \in LastByte /\ ~grp[h].finish /\ grp'[h].finish =>
                             grp[h].cause = "none" /\ \A s \in Team(h) : Waits(s, "final")
    BY DEF Unmoved, OpenTogether
  <2>2. /\ h = g /\ Validated(h)
        /\ \/ grp[h].pc \in {"open", "validate"} /\ grp'[h].finish = (h \notin LastByte)
           \/ grp[h].pc = "delay" /\ grp'[h].start = grp[h].start
    BY <1>2, <2>1, OpensValidated
  <2>3. /\ grp[h].cause = "none" /\ Counted(h) /\ Gated(h) /\ Blamed(h)
        /\ \A s \in Team(h) : /\ snd[s].ready /\ ~snd[s].broken
                               /\ snd[s].pc \in {"idle", "gate", "prefix", "final", "respond", "done"}
    <3>1. Team(h) \subseteq Senders
      BY Teams
    <3> QED
      BY <2>2, <3>1 DEF Validated, AllReady, GateInv, Sound, Typed, SenderRec
  <2>4. CASE grp[h].pc \in {"open", "validate"}
    <3>1. ~grp[h].start /\ grp[h].pc # "prepare" /\ grp[h].pc # "delay"
      BY <2>3, <2>4 DEF Gated, Early
    <3>2. \A s \in Team(h) : snd[s].pc = "gate"
      BY <2>3, <3>1 DEF Gated, Blamed, UnderWay
    <3> QED
      BY <2>2, <2>3, <3>1, <3>2 DEF Waits
  <2>5. CASE grp[h].pc = "delay" /\ grp'[h].start = grp[h].start
    <3>1. ASSUME h \in LastByte, ~grp[h].finish, NEW s \in Team(h) PROVE Waits(s, "final")
      <4>1. snd[s].pc \in Passed
        BY <2>3, <2>5, <3>1 DEF Gated, Counted
      <4>2. snd[s].pc # "respond" /\ snd[s].pc # "done"
        BY <2>3, <3>1 DEF Gated
      <4> QED
        BY <2>3, <4>1, <4>2 DEF Passed, Waits
    <3> QED
      BY <2>3, <2>5, <3>1
  <2> QED
    BY <2>2, <2>4, <2>5
<1>3. CASE \/ \E g \in Groups : Timers(g) \/ ParentStops(g)
           \/ \E s \in Senders : SenderStep(s) \/ Flip(s) \/ Restore(s) \/ Break(s)
  BY <1>1, <1>3, OthersOpenNone
<1>4. CASE Tick \/ UNCHANGED vars
  BY <1>1, <1>4 DEF Tick, vars
<1> QED
  BY <1>2, <1>3, <1>4 DEF Next

\* The start gate and the finish gate open only at instants at which the whole group
\* waits, ready, sound and not cancelled, and no synchronised sender sends its final
\* part before its whole group has sent its prefixes.
THEOREM GatesHoldAlways == Spec => GatesHold
BY OpensTogether, FinalAfter, GateSound, PTL DEF Spec, GatesHold

\* A group that has finished explains itself: the first cause is its error, whoever it
\* blames carries that cause alone, and without a cause every request completed.
THEOREM ExplainedAlways == Spec => []Explained
<1>1. ASSUME GateInv PROVE Explained
  BY <1>1 DEF GateInv, Sound, Blamed, Explained
<1> QED
  BY <1>1, GateSound, PTL
=============================================================================
