----------------------------- MODULE DemoServer -----------------------------
(***************************************************************************)
(* The demo-server command (src/cmd/tturl: demo_server.go,                 *)
(* demo_server_quota.go): start-up with calibration, handlers that run     *)
(* concurrently over one quota store, and a shutdown bounded by a grace.   *)
(*                                                                         *)
(* A handler runs between two lock operations in one step.  Durations and  *)
(* iteration counts are small integers, and integers wrap at MaxUint64.    *)
(* net/http accepts, dispatches and shuts down as its contract says; with  *)
(* a propagation model configured, requests and answers cross a            *)
(* DelayRelay.                                                             *)
(***************************************************************************)
EXTENDS DelayRelay, FiniteSets, SequencesExt, FiniteSetsExt

CONSTANTS
  Scenarios,      \* flags of the command and requests its clients send
  Slots,          \* handler goroutines
  Tokens,         \* values a token draw can produce
  QuotaStoreSize, \* demoQuotaStoreSize
  TokenAttempts,  \* demoQuotaTokenAttempts
  MaxPort, MaxUint32, MaxUint64,
  Measures,       \* what measure can return
  Floor, Initial, ProbeMaximum, SampleCount, QuotaWorkMaximum,
  MaxRequests     \* bound on requests in one behaviour, per load

ASSUME DemoAssumption ==
  /\ QuotaStoreSize \in Nat \ {0} /\ TokenAttempts \in Nat \ {0}
  /\ Initial \in Nat \ {0} /\ ProbeMaximum \in Nat
  /\ Measures \subseteq Int /\ SampleCount \in Nat \ {0}
  /\ MaxUint64 \in Nat /\ QuotaWorkMaximum \in Nat

\* Flags are parsed into integers, and so is the value of a timing request.
ASSUME ScenarioAssumption ==
  \A sc \in Scenarios :
    /\ {sc.flags.rtt, sc.flags.jitter, sc.flags.quota, sc.flags.timing.maximum} \subseteq Int
    /\ sc.flags.timing.unlimited \in BOOLEAN
    /\ \A r \in sc.requests : r.route \in {"sleep", "work"} => r.value \in Int

VARIABLES
  stage,   \* where runDemoServerCommand stands
  scen,    \* the scenario: flags and requests
  bench,   \* demoFixedWorkBenchmark
  eff,     \* demoServerEffectiveConfig: derived iteration counts
  ctxDone, \* the command's context
  accept,  \* Serve's loop: "idle", "running", or what it left in serveDone
  shutErr, \* what Shutdown returned
  result,  \* what the command returned
  byID, recent,  \* the store's map and list, front first
  quotas,  \* accepted, per quota ever created
  call,    \* the handlers
  budget,  \* requests still to come
  since,   \* per quota, the quotas used since its own last use
  spent    \* quotas for which a receipt has been answered

storeVars == <<byID, recent, quotas, since>>
startVars == <<stage, scen, bench, eff, ctxDone, accept, shutErr, result>>
demoVars == <<startVars, storeVars, call, budget, spent, relayVars>>

demoQuotaLimit == 1
None == [iterations |-> 0, elapsed |-> 0]
Idle == [pc |-> "idle", req |-> [route |-> "none"], tries |-> 0, token |-> "none", quota |-> 0,
         n |-> 0, status |-> 0, body |-> 0, sent |-> FALSE, earlier |-> {}]

DemoInit(scenarios) ==
  /\ stage = "parse" /\ scen \in scenarios
  /\ bench = None /\ eff = [work |-> 0, quota |-> 0]
  /\ ctxDone = FALSE /\ accept = "idle" /\ shutErr = "nil" /\ result = "none"
  /\ byID = <<>> /\ recent = <<>> /\ quotas = <<>> /\ since = <<>>
  /\ call = [s \in Slots |-> Idle]
  /\ budget = MaxRequests[scen.load] /\ spent = {}
  /\ RelayInit

-----------------------------------------------------------------------------
(* Start-up *)

disabled(l) == ~l.unlimited /\ l.maximum = 0
limited(l) == ~l.unlimited /\ l.maximum > 0
validate(l) == l.maximum >= 0 /\ ~(l.unlimited /\ l.maximum # 0)

validateDemoServerConfig(f) ==
  /\ f.port \in 0..MaxPort
  /\ validate(f.timing)
  /\ f.quota >= 0 /\ f.rtt >= 0 /\ f.jitter >= 0
  /\ f.streams > 0 /\ f.streams <= MaxUint32

Exit(r) == stage' = "exited" /\ result' = r

\* parseDemoServerArgs and what follows up to newDemoServer: a flag error comes
\* before help, help before the other arguments and their ranges.  A value given to
\* -s is refused before the rest as a usage error; help and the notice may fail to
\* be written.
ParseDemoServerArgs ==
  /\ stage = "parse"
  /\ LET f == scen.flags
     IN \/ f.parse = "bad" /\ (Exit("usage") \/ Exit("error"))
        \/ f.parse = "help" /\ (Exit("nil") \/ Exit("error"))
        \/ /\ f.parse = "ok"
           /\ IF f.extra \/ ~validateDemoServerConfig(f) THEN Exit("error")
              ELSE IF ctxDone THEN Exit("cancelled")
              ELSE \/ stage' = "resolve" /\ UNCHANGED result
                   \/ scen.faults /\ Exit("announce")
  /\ UNCHANGED <<scen, bench, eff, ctxDone, accept, shutErr, storeVars, call, budget, spent, relayVars>>

\* benchmarkDemoFixedWork: double until a probe reaches the floor or the probe
\* limit, then the median of the samples.
Probes == {Initial * 2^k : k \in 0..ProbeMaximum} \cap (Initial..(2 * ProbeMaximum))
Enough(probe, n) == n >= ProbeMaximum \/ probe[n] >= Floor
Settled(probe) ==
  {n \in Probes : Enough(probe, n) /\ \A m \in Probes : m < n => ~Enough(probe, m)}
Median(samples) ==
  {m \in Range(samples) :
     /\ Cardinality({i \in DOMAIN samples : samples[i] < m}) <= SampleCount \div 2
     /\ Cardinality({i \in DOMAIN samples : samples[i] <= m}) > SampleCount \div 2}
benchmarkDemoFixedWork(probe, samples) ==
  {[iterations |-> n, elapsed |-> m] : n \in Settled(probe), m \in Median(samples)}

\* iterationsFor, with -1 for an error.  The product is exact (128 bits), the
\* quotient must fit in 64.
RoundUp(quotient, remainder) ==
  IF remainder = 0 THEN quotient
  ELSE IF quotient = MaxUint64 THEN -1
  ELSE quotient + 1
iterationsFor_Ceiling(b, target, up) ==
  LET q == ((b.iterations * target) + b.elapsed - 1) \div b.elapsed
  IN IF target = 0 THEN 0 ELSE IF q > MaxUint64 THEN -1 ELSE q
iterationsFor(b, target, up) ==
  LET product == b.iterations * target
      quotient == product \div b.elapsed
      calibrated == IF up THEN RoundUp(quotient, product % b.elapsed) ELSE quotient
  IN IF target < 0 THEN -1
     ELSE IF target = 0 THEN 0
     ELSE IF b.iterations = 0 \/ b.elapsed <= 0 THEN -1
     ELSE IF product \div (MaxUint64 + 1) >= b.elapsed THEN -1
     ELSE IF calibrated = 0 THEN 1
     ELSE calibrated

\* resolveDemoServerConfig: the derived counts, or an error; a benchmark is run
\* only for a limit or a positive quota target.
NeedsBenchmark(f) == limited(f.timing) \/ f.quota > 0
Counts(f, b) ==
  [work |-> IF limited(f.timing) THEN iterationsFor(b, f.timing.maximum, FALSE) ELSE 0,
   quota |-> IF f.quota > 0 THEN iterationsFor(b, f.quota, TRUE) ELSE 0]

Resolve ==
  /\ stage = "resolve"
  /\ LET f == scen.flags
     IN \/ /\ ~NeedsBenchmark(f)
           /\ stage' = "listen" /\ UNCHANGED <<bench, eff, result>>
        \/ /\ NeedsBenchmark(f)
           /\ \E b \in UNION {benchmarkDemoFixedWork(probe, samples) :
                              probe \in [Probes -> Measures], samples \in [1..SampleCount -> Measures]} :
                LET c == IF b.elapsed <= 0 THEN [work |-> -1, quota |-> -1] ELSE Counts(f, b)
                IN IF c.work < 0 \/ c.quota < 0 \/ c.quota > QuotaWorkMaximum
                   THEN Exit("calibration") /\ UNCHANGED <<bench, eff>>
                   ELSE bench' = b /\ eff' = c /\ stage' = "listen" /\ UNCHANGED result
  /\ UNCHANGED <<scen, ctxDone, accept, shutErr, storeVars, call, budget, spent, relayVars>>

\* demoNetworkListenerWrapper, the certificate, the listener and HTTP/2, each of
\* which can fail; then the announcement.
halfDurationRoundUp(d) == (d \div 2) + (d % 2)
Listen ==
  /\ stage = "listen"
  /\ LET delay == halfDurationRoundUp(scen.flags.rtt)
         variation == scen.flags.jitter \div 2
         wrapper == NewListenerWrapper(delay, variation)
     IN \/ /\ wrapper = "invalid"
           /\ Exit("network") /\ UNCHANGED net
        \/ /\ wrapper # "invalid"
           /\ scen.faults /\ Exit("listen") /\ UNCHANGED net
        \/ /\ wrapper # "invalid"
           /\ net' = [delay |-> delay, variation |-> variation]
           /\ stage' = "announce" /\ UNCHANGED result
  /\ UNCHANGED <<scen, bench, eff, ctxDone, accept, shutErr, storeVars, call, budget, spent, way, stopped>>

AnnounceDemoServer ==
  /\ stage = "announce"
  /\ \/ scen.faults /\ Exit("announce") /\ UNCHANGED accept
     \/ stage' = "select" /\ accept' = "running" /\ UNCHANGED result
  /\ UNCHANGED <<scen, bench, eff, ctxDone, shutErr, storeVars, call, budget, spent, relayVars>>

-----------------------------------------------------------------------------
(* The quota store *)

\* A quota is used: it has nothing newer, and is newer than every other.
Touched(q) == [p \in DOMAIN since |-> IF p = q THEN {} ELSE since[p] \cup {q}]

\* create's critical section: collision, eviction of the back, insertion.
Insert(token) ==
  LET full == Len(recent) = QuotaStoreSize
      kept == IF full THEN Front(recent) ELSE recent
      gone == IF full THEN {Last(recent).token} ELSE {}
      id == Len(quotas) + 1
  IN /\ quotas' = Append(quotas, 0)
     /\ recent' = <<[token |-> token, quota |-> id]>> \o kept
     /\ byID' = [t \in (DOMAIN byID \ gone) \cup {token} |-> IF t = token THEN id ELSE byID[t]]
     /\ since' = Append(Touched(id), {})

\* get: a hit moves to the front.
Position(q) == CHOOSE i \in DOMAIN recent : recent[i].quota = q
MoveToFront(q) == <<recent[Position(q)]>> \o RemoveAt(recent, Position(q))

snapshot(q) == [accepted |-> quotas[q],
                overrun |-> IF quotas[q] > demoQuotaLimit THEN quotas[q] - demoQuotaLimit ELSE 0]

-----------------------------------------------------------------------------
(* Handlers *)

Running == stage \in {"select", "shutdown", "await"}
Busy == {s \in Slots : call[s].pc \notin {"idle", "answered"}}

Step(s, rec) == call' = [call EXCEPT ![s] = rec]
Answer(s, status, body) ==
  Step(s, [call[s] EXCEPT !.pc = "answered", !.status = status, !.body = body])

\* net/http hands a request to a handler; the relay, when there is one, has
\* delivered it.  The same slot serves another request after an answer.  The
\* stream limit is one connection's: a client of the bare server opens another,
\* while the model follows the relay over a single one.
Requests == IF ~Delayed THEN scen.requests
            ELSE {r \in scen.requests : r.seq = MaxRequests[scen.load] - budget + 1}
Arrive(s) ==
  /\ stage = "select" /\ accept = "running"
  /\ s \notin Busy /\ (Delayed => Cardinality(Busy) < scen.flags.streams)
  /\ budget > 0
  /\ Delayed => Len(way["up"].out) > MaxRequests[scen.load] - budget
  /\ \E r \in Requests :
       call' = [call EXCEPT ![s] = [Idle EXCEPT !.pc = "enter", !.req = r, !.earlier = spent]]
  /\ budget' = budget - 1
  /\ UNCHANGED <<startVars, storeVars, spent, relayVars>>

\* The value of a timing route, checked by demoQueryValue or ParseForm and
\* PostForm, then parseDemoSleepValue or parseDemoWorkValue.  A negative value
\* stands for one that does not parse; an empty one is not counted.
OneValue(r) == r.form = "ok" /\ r.count = 1
parseDemoValue(value, maximum) == value >= 0 /\ (maximum > 0 => value <= maximum)
MaximumOf(route) == IF route = "sleep" THEN scen.flags.timing.maximum ELSE eff.work

\* sleep, sleepForm, work, workForm up to the spin.
EnterTiming(s) ==
  LET r == call[s].req
  IN /\ Running /\ call[s].pc = "enter" /\ r.route \in {"sleep", "work"}
     /\ IF disabled(scen.flags.timing) THEN Answer(s, 403, 0)
        ELSE IF ~OneValue(r) \/ ~parseDemoValue(r.value, MaximumOf(r.route)) THEN Answer(s, 400, 0)
        ELSE Step(s, [call[s] EXCEPT !.pc = "spin", !.n = r.value])
     /\ UNCHANGED <<startVars, storeVars, budget, spent, relayVars>>

\* index, now and sha256; a body that breaks off is a bad request.
EnterPlain(s) ==
  LET r == call[s].req
  IN /\ Running /\ call[s].pc = "enter" /\ r.route \in {"index", "now", "sha256"}
     /\ IF r.route = "sha256" /\ r.cut THEN Answer(s, 400, 0) ELSE Answer(s, 200, 0)
     /\ UNCHANGED <<startVars, storeVars, budget, spent, relayVars>>

\* createQuota draws a token outside the lock, and again after a collision.
DrawToken(s) ==
  /\ Running /\ call[s].pc = "enter" /\ call[s].req.route = "create"
  /\ \/ scen.faults /\ Answer(s, 500, 0)
     \/ \E t \in Tokens : Step(s, [call[s] EXCEPT !.pc = "insert", !.token = t, !.tries = @ + 1])
  /\ UNCHANGED <<startVars, storeVars, budget, spent, relayVars>>

InsertToken(s) ==
  /\ Running /\ call[s].pc = "insert"
  /\ \/ /\ call[s].token \in DOMAIN byID
        /\ IF call[s].tries = TokenAttempts THEN Answer(s, 500, 0)
           ELSE Step(s, [call[s] EXCEPT !.pc = "enter"])
        /\ UNCHANGED storeVars
     \/ /\ call[s].token \notin DOMAIN byID
        /\ Insert(call[s].token)
        /\ Step(s, [call[s] EXCEPT !.pc = "answered", !.status = 201, !.quota = Len(quotas) + 1])
  /\ UNCHANGED <<startVars, budget, spent, relayVars>>

GetQuota(s) ==
  LET t == call[s].req.token
  IN /\ Running /\ call[s].pc = "enter" /\ call[s].req.route \in {"status", "use"}
     /\ IF t \notin DOMAIN byID
        THEN Answer(s, 404, 0) /\ UNCHANGED storeVars
        ELSE /\ recent' = MoveToFront(byID[t])
             /\ since' = Touched(byID[t])
             /\ Step(s, [call[s] EXCEPT !.pc = call[s].req.route, !.quota = byID[t]])
             /\ UNCHANGED <<byID, quotas>>
     /\ UNCHANGED <<startVars, budget, spent, relayVars>>

QuotaStatus(s) ==
  /\ Running /\ call[s].pc = "status"
  /\ Answer(s, 200, snapshot(call[s].quota))
  /\ UNCHANGED <<startVars, storeVars, budget, spent, relayVars>>

\* available, then the inserted work, then accept: two critical sections.
CheckAvailable_Inclusive(s) ==
  /\ Running /\ call[s].pc = "use"
  /\ IF quotas[call[s].quota] <= demoQuotaLimit
     THEN Step(s, [call[s] EXCEPT !.pc = "spin", !.n = eff.quota])
     ELSE Answer(s, 409, 0)
  /\ UNCHANGED <<startVars, storeVars, budget, spent, relayVars>>
CheckAvailable(s) ==
  /\ Running /\ call[s].pc = "use"
  /\ IF quotas[call[s].quota] < demoQuotaLimit
     THEN Step(s, [call[s] EXCEPT !.pc = "spin", !.n = eff.quota])
     ELSE Answer(s, 409, 0)
  /\ UNCHANGED <<startVars, storeVars, budget, spent, relayVars>>

\* demoSpinWait and demoFixedWork return, and the handler answers; accept gives
\* the receipt.
SpinEnds(s) ==
  /\ Running /\ call[s].pc = "spin"
  /\ IF call[s].req.route = "use"
     THEN /\ quotas' = [quotas EXCEPT ![call[s].quota] = @ + 1]
          /\ spent' = spent \cup {call[s].quota}
          /\ Answer(s, 200, quotas[call[s].quota] + 1)
          /\ UNCHANGED <<byID, recent, since>>
     ELSE Answer(s, 204, 0) /\ UNCHANGED <<storeVars, spent>>
  /\ UNCHANGED <<startVars, budget, relayVars>>

-----------------------------------------------------------------------------
(* The connection of the relay's client *)

\* The client sends its requests one after another, and closes when it likes;
\* an answer is handed to the relay by the server's side.
Answered == {s \in Slots : call[s].pc = "answered"}
ClientSends ==
  /\ Delayed /\ stage = "select" /\ accept = "running" /\ stopped = "no" /\ ~way["up"].eof
  /\ way["up"].sent < MaxRequests[scen.load]
  /\ way' = [way EXCEPT !["up"] = Sent(@)]
  /\ UNCHANGED <<startVars, storeVars, call, budget, spent, stopped, net>>

ServerWrites(s) ==
  /\ Delayed /\ Running /\ s \in Answered /\ ~call[s].sent
  /\ way' = IF stopped = "no" /\ ~way["down"].eof THEN [way EXCEPT !["down"] = Sent(@)] ELSE way
  /\ Step(s, [call[s] EXCEPT !.sent = TRUE])
  /\ UNCHANGED <<startVars, storeVars, budget, spent, stopped, net>>

ClientCloses ==
  /\ Delayed /\ Running /\ stopped = "no" /\ ~way["up"].eof
  /\ way' = Closing(way, "up")
  /\ UNCHANGED <<startVars, storeVars, call, budget, spent, stopped, net>>

\* The server's side is closed once its connection is idle in Shutdown.
ServerCloses ==
  /\ Delayed /\ stage \in {"shutdown", "await"} /\ ~way["down"].eof
  /\ \A s \in Slots : call[s].pc = "idle" \/ (s \in Answered /\ call[s].sent)
  /\ way' = Closing(way, "down")
  /\ UNCHANGED <<startVars, storeVars, call, budget, spent, stopped, net>>

-----------------------------------------------------------------------------
(* Serving and stopping *)

Interrupt ==
  /\ stage # "exited" /\ ~ctxDone
  /\ ctxDone' = TRUE
  /\ UNCHANGED <<stage, scen, bench, eff, accept, shutErr, result, storeVars, call, budget, spent, relayVars>>

\* Serve returns an error of its own, before or while the server stops.
ServeFails ==
  /\ Running /\ accept = "running" /\ scen.faults
  /\ accept' = "error"
  /\ UNCHANGED <<stage, scen, bench, eff, ctxDone, shutErr, result, storeVars, call, budget, spent, relayVars>>

\* serve's select: both channels may be ready.
ServeEnds ==
  /\ stage = "select"
  /\ \/ /\ accept = "error"
        /\ Exit("serve") /\ UNCHANGED accept
     \/ /\ ctxDone
        /\ stage' = "shutdown"
        /\ accept' = IF accept = "running" THEN "closed" ELSE accept
        /\ UNCHANGED result
  /\ UNCHANGED <<scen, bench, eff, ctxDone, shutErr, storeVars, call, budget, spent, relayVars>>

ShutdownDone ==
  /\ stage = "shutdown"
  /\ \/ Busy # {} /\ shutErr' = "deadline"
     \/ Busy = {} /\ shutErr' = "nil"
     \/ Busy = {} /\ scen.faults /\ shutErr' = "listener"
  /\ stage' = "await"
  /\ UNCHANGED <<scen, bench, eff, ctxDone, accept, result, storeVars, call, budget, spent, relayVars>>

\* The expired grace is not an error of the command; serveDone's may be.
ServeReturns ==
  /\ stage = "await"
  /\ Exit(IF accept = "error" THEN "serve"
          ELSE IF shutErr = "listener" THEN "shutdown"
          ELSE "nil")
  /\ UNCHANGED <<scen, bench, eff, ctxDone, accept, shutErr, storeVars, call, budget, spent, relayVars>>

Handler(s) ==
  \/ EnterTiming(s) \/ EnterPlain(s) \/ DrawToken(s) \/ InsertToken(s)
  \/ GetQuota(s) \/ QuotaStatus(s) \/ CheckAvailable(s) \/ SpinEnds(s)

Relayed ==
  /\ Running /\ RelayStep
  /\ UNCHANGED <<startVars, storeVars, call, budget, spent>>

Main == ParseDemoServerArgs \/ Resolve \/ Listen \/ AnnounceDemoServer \/ ServeEnds \/ ShutdownDone \/ ServeReturns

DemoNext ==
  \/ Main \/ Interrupt \/ ServeFails
  \/ \E s \in Slots : Arrive(s) \/ Handler(s) \/ ServerWrites(s)
  \/ ClientSends \/ ClientCloses \/ ServerCloses \/ Relayed

-----------------------------------------------------------------------------
(* Properties *)

\* A limit given as a duration is a ceiling for what a request makes the server
\* do: an admitted /work spends at most the duration at the benchmarked rate (or
\* is a single iteration), an admitted /sleep at most the duration; a disabled
\* set of routes runs nothing; every positive quota target does some work, and
\* a request at exactly the limit is served.
LimitsHonoured ==
  \A s \in Slots :
    LET c == call[s]
        f == scen.flags
    IN /\ (c.pc = "spin" /\ c.req.route = "work" /\ limited(f.timing))
            => c.n <= 1 \/ c.n * bench.elapsed <= f.timing.maximum * bench.iterations
       /\ (c.pc = "spin" /\ c.req.route = "sleep" /\ ~f.timing.unlimited)
            => c.n <= f.timing.maximum
       /\ (c.pc = "spin" /\ c.req.route \in {"sleep", "work"}) => ~disabled(f.timing)
       /\ (c.pc = "spin" /\ c.req.route = "use" /\ f.quota > 0)
            => c.n > 0 /\ c.n * bench.elapsed >= f.quota * bench.iterations
       /\ (c.pc = "answered" /\ c.status = 400 /\ c.req.route = "sleep" /\ OneValue(c.req))
            => c.req.value < 0 \/ c.req.value > f.timing.maximum

\* The race the quota route exposes is only the one it documents: a quota gives
\* out each receipt number once, and a receipt beyond the limit goes only to a
\* request that arrived before any receipt of that quota was answered, whether
\* or not the store has evicted the quota meanwhile.
OverrunsOverlap ==
  \A s \in Slots :
    LET c == call[s]
    IN (c.pc = "answered" /\ c.req.route = "use" /\ c.status = 200)
         => /\ c.quota \notin c.earlier
            /\ \A o \in Slots \ {s} :
                 (call[o].pc = "answered" /\ call[o].req.route = "use" /\ call[o].status = 200
                    /\ call[o].quota = c.quota)
                   => call[o].body # c.body

\* The store's map and list name the same quotas within the bound, and a quota is
\* gone only after as many others were used since its own last use as the store
\* holds.
StoreBounded ==
  /\ Len(recent) <= QuotaStoreSize
  /\ DOMAIN byID = {recent[i].token : i \in DOMAIN recent}
  /\ \A i, j \in DOMAIN recent : recent[i].token = recent[j].token => i = j
  /\ \A i \in DOMAIN recent : byID[recent[i].token] = recent[i].quota
  /\ \A q \in DOMAIN quotas :
       (q \notin {recent[i].quota : i \in DOMAIN recent})
         => Cardinality(since[q]) >= QuotaStoreSize

\* The server stays within what its flags allow, in every calibration outcome:
\* limits are ceilings, and the quota store drops only what was used least
\* recently.
WithinLimits == LimitsHonoured /\ StoreBounded
=============================================================================
