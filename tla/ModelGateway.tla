----------------------------- MODULE ModelGateway ----------------------------
(***************************************************************************)
(* Calls to the language model (model_gateway.py) and the choice of a      *)
(* provider (model_router.py).  The gateway and the router share one       *)
(* circuit breaker (runtime.py, _shared_breaker); concurrent calls of      *)
(* different missions interleave between the check of the breaker and the  *)
(* answer of the provider.  Texts, costs and latencies are left out, time  *)
(* is a bounded clock, and a call is charged one unit.                     *)
(***************************************************************************)
EXTENDS Integers, FiniteSets, Sequences, SequencesExt

CONSTANTS
    GatewayCalls,          \* calls of complete that may overlap
    Primary,        \* name of the gateway's provider
    MaxAttempts,    \* max_attempts of the gateway
    Threshold,      \* CircuitBreaker._threshold
    Timeout,        \* CircuitBreaker._timeout_s, in ticks
    MaxGatewayClock \* bound on time
ASSUME GatewayAssumption == MaxAttempts \in Nat \ {0} /\ Threshold \in Nat \ {0} /\ Timeout \in Nat

Routed == {"mock", "flash", "pro"}   \* _PROVIDERS
Providers == Routed \cup {Primary}

VARIABLES
    gateway,    \* which provider _build_model_gateway chose, and the fallback
    breaker,    \* CircuitBreaker._states
    gclock,     \* time.monotonic
    call,       \* where each call is: [phase, attempt]
    sent,       \* history: requests each call made of the provider
    fatal,      \* history: calls that got a fatal answer from the provider
    charged     \* history: units each call recorded with the cost governor

gatewayVars == <<gateway, breaker, gclock, call, sent, fatal, charged>>

GatewayInit ==
    /\ gateway = [kind |-> "unavailable", fallback |-> FALSE]
    /\ breaker = [p \in Providers |-> [failures |-> 0, open |-> FALSE, at |-> 0]]
    /\ gclock = 0
    /\ call = [c \in GatewayCalls |-> [phase |-> "idle", attempt |-> 0]]
    /\ sent = [c \in GatewayCalls |-> 0] /\ charged = [c \in GatewayCalls |-> 0] /\ fatal = {}

------------------------------------------------------------------------------
(* The circuit breaker. *)

\* is_open without its reset, and the reset it performs on the way.
IsOpen(p) == breaker[p].open /\ gclock - breaker[p].at < Timeout
Checked(p) == IF breaker[p].open /\ ~IsOpen(p)
              THEN [breaker EXCEPT ![p].open = FALSE, ![p].failures = 0]
              ELSE breaker

RecordSuccess(b, p) == [b EXCEPT ![p].failures = 0, ![p].open = FALSE]

\* A failure counted while the breaker is open renews opened_at.
RecordFailure(b, p) ==
    LET n == b[p].failures + 1
    IN  [b EXCEPT ![p] = IF n >= Threshold THEN [failures |-> n, open |-> TRUE, at |-> gclock]
                         ELSE [@ EXCEPT !.failures = n]]

------------------------------------------------------------------------------
(* Routing. *)

Tier(p) == IF p = "pro" THEN "pro" ELSE "flash"

ChooseTier(demanding, large, urgent) ==
    IF large THEN "pro" ELSE IF urgent \/ ~demanding THEN "flash" ELSE "pro"

\* The tier first, then the cost: mock < flash < pro.  Python's sort is stable
\* and no two providers cost the same.
RankCandidates(tier) ==
    IF tier = "flash" THEN <<"mock", "flash", "pro">> ELSE <<"pro", "mock", "flash">>

\* The fallback is the first candidate that is not the primary, healthy or not,
\* seen after it or skipped before it.
SelectHealthy(cands, down) ==
    LET healthy == {i \in DOMAIN cands : cands[i] \notin down /\ ~IsOpen(cands[i])}
        others == IF healthy = {} THEN DOMAIN cands ELSE DOMAIN cands \ {Min(healthy)}
    IN  [primary |-> IF healthy = {} THEN "mock" ELSE cands[Min(healthy)],
         fallback |-> cands[Min(others)]]

\* route; is_open resets what it finds expired among the candidates that the
\* caller did not report as down.
Route(down) ==
    /\ breaker' = [p \in Providers |->
                     IF p \in Routed \ down THEN Checked(p)[p] ELSE breaker[p]]
    /\ UNCHANGED <<gateway, gclock, call, sent, fatal, charged>>

TrackResult(p, success) ==
    /\ breaker[p].failures < Threshold \/ success
    /\ breaker' = IF success THEN RecordSuccess(breaker, p) ELSE RecordFailure(breaker, p)
    /\ UNCHANGED <<gateway, gclock, call, sent, fatal, charged>>

------------------------------------------------------------------------------
(* The gateway. *)

\* A name without its key or endpoint, an unknown name and mock without
\* mock_model give the provider that always fails.  The runtime passes no
\* fallback; the class takes one.
BuildModelGateway(name, mockModel, credential, fallback) ==
    /\ \A c \in GatewayCalls : call[c].phase = "idle"
    /\ gateway' = [kind |-> IF mockModel THEN "mock"
                            ELSE IF name # "unknown" /\ name # "mock" /\ credential
                            THEN "http" ELSE "unavailable",
                   fallback |-> fallback]
    /\ UNCHANGED <<breaker, gclock, call, sent, fatal, charged>>

\* complete with its quota check.
Complete(c, budgetLeft) ==
    /\ call[c].phase = "idle"
    /\ call' = [call EXCEPT ![c] = IF budgetLeft THEN [phase |-> "try", attempt |-> 1]
                                   ELSE [phase |-> "refused", attempt |-> 0]]
    /\ UNCHANGED <<gateway, breaker, gclock, sent, fatal, charged>>

AfterFailureAlways(c, retryable) ==
    IF call[c].attempt < MaxAttempts
    THEN [phase |-> "try", attempt |-> call[c].attempt + 1]
    ELSE [phase |-> IF gateway.fallback THEN "fallback" ELSE "failed",
          attempt |-> call[c].attempt]

\* After a failed attempt: again, or the fallback, or the error.
AfterFailure(c, retryable) ==
    IF retryable /\ call[c].attempt < MaxAttempts
    THEN [phase |-> "try", attempt |-> call[c].attempt + 1]
    ELSE [phase |-> IF gateway.fallback THEN "fallback" ELSE "failed",
          attempt |-> call[c].attempt]

\* The refusal of an open breaker is raised inside the try, so it is counted as
\* one more failure of the provider.
CheckBreaker(c) ==
    /\ call[c].phase = "try"
    /\ IF IsOpen(Primary)
       THEN /\ breaker' = RecordFailure(breaker, Primary)
            /\ call' = [call EXCEPT ![c] = AfterFailure(c, TRUE)]
            /\ UNCHANGED sent
       ELSE /\ breaker' = Checked(Primary)
            /\ call' = [call EXCEPT ![c].phase = "sent"]
            /\ sent' = [sent EXCEPT ![c] = @ + 1]
    /\ UNCHANGED <<gateway, gclock, fatal, charged>>

\* _complete_http: authentication, other client errors and malformed answers
\* are fatal; rate limits, server and transport errors are retryable.
Outcome(kind) ==
    CASE kind = "mock" -> {"ok"}
      [] kind = "unavailable" -> {"retryable"}
      [] kind = "http" -> {"ok", "retryable", "fatal"}

\* _record_to_governor of the one answer that is returned.
Charge(c) == charged' = [charged EXCEPT ![c] = @ + 1]

Answer(c, outcome) ==
    /\ call[c].phase = "sent" /\ outcome \in Outcome(gateway.kind)
    /\ IF outcome = "ok"
       THEN /\ breaker' = RecordSuccess(breaker, Primary)
            /\ call' = [call EXCEPT ![c].phase = "answered"]
            /\ Charge(c) /\ UNCHANGED fatal
       ELSE /\ breaker' = RecordFailure(breaker, Primary)
            /\ call' = [call EXCEPT ![c] = AfterFailure(c, outcome # "fatal")]
            /\ fatal' = IF outcome = "fatal" THEN fatal \cup {c} ELSE fatal
            /\ UNCHANGED charged
    /\ UNCHANGED <<gateway, gclock, sent>>

\* FallbackProvider.complete: the first provider of the chain that answers.
\* The breaker is not asked and not told.
FallbackAnswer(c, ok) ==
    /\ call[c].phase = "fallback"
    /\ call' = [call EXCEPT ![c].phase = IF ok THEN "answered" ELSE "failed"]
    /\ IF ok THEN Charge(c) ELSE UNCHANGED charged
    /\ UNCHANGED <<gateway, breaker, gclock, sent, fatal>>

GatewayTick ==
    /\ gclock < MaxGatewayClock /\ gclock' = gclock + 1
    /\ UNCHANGED <<gateway, breaker, call, sent, fatal, charged>>

GatewayNext ==
    \/ \E name \in {"mock", "deepseek", "unknown"}, m, k, f \in BOOLEAN :
         BuildModelGateway(name, m, k, f)
    \/ \E c \in GatewayCalls :
         \/ \E b \in BOOLEAN : Complete(c, b) \/ FallbackAnswer(c, b)
         \/ CheckBreaker(c)
         \/ \E o \in {"ok", "retryable", "fatal"} : Answer(c, o)
    \/ \E down \in SUBSET Routed : Route(down)
    \/ \E s \in BOOLEAN : TrackResult("flash", s)
    \/ GatewayTick
GatewaySpec == GatewayInit /\ [][GatewayNext]_gatewayVars

------------------------------------------------------------------------------
\* A call is charged once if it answered, by the provider or by the fallback,
\* and never otherwise, whatever was retried; it asks the provider at most
\* max_attempts times and not again after a fatal answer.
CallsAccounted ==
    \A c \in GatewayCalls :
        /\ charged[c] = IF call[c].phase = "answered" THEN 1 ELSE 0
        /\ sent[c] <= MaxAttempts
        /\ c \in fatal => call[c].phase \in {"fallback", "answered", "failed"}

\* The breaker of a provider is open exactly from the threshold of failures on,
\* whichever calls they came from, and is renewed by every later one.
BreakerCounts ==
    \A p \in Providers : /\ breaker[p].open <=> breaker[p].failures >= Threshold
                         /\ breaker[p].at <= gclock

\* Whenever some provider is up the router names one that is up, of the tier
\* the mission calls for if one of that tier is, and another as the fallback.
RouteIsUp ==
    \A demanding, large, urgent \in BOOLEAN, down \in SUBSET Routed :
        LET up == {p \in Routed \ down : ~IsOpen(p)}
            tier == ChooseTier(demanding, large, urgent)
            d == SelectHealthy(RankCandidates(tier), down)
        IN  up # {} => /\ d.primary \in up /\ d.primary # d.fallback
                       /\ Tier(d.primary) # tier => \A p \in up : Tier(p) # tier

\* What the gateway and the router promise together.
GatewaySound == CallsAccounted /\ BreakerCounts /\ RouteIsUp
=============================================================================
