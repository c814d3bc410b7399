------------------------------ MODULE Connectors -----------------------------
(***************************************************************************)
(* The connector framework (connectors/): the registry, the asynchronous    *)
(* start, stop and health check of a connector, its circuit breaker, its    *)
(* permissions and the read-only browser behind it.  Time is a clock the    *)
(* breaker's recovery timeout is measured on; requests overlap, and their   *)
(* outcomes come back in any order.                                         *)
(***************************************************************************)
EXTENDS Integers, FiniteSets

CONSTANTS
    FailureThreshold,  \* failures that open the circuit
    RecoveryTimeout,   \* clock ticks before a half-open trial
    MaxInFlight,       \* bound on requests in flight
    MaxTicks,          \* bound on the clock
    MaxLaunches        \* bound on starts

ASSUME CircuitAssumption == FailureThreshold \in Nat \ {0} /\ RecoveryTimeout \in Nat

Scopes == {"browser.navigate", "browser.screenshot"}

VARIABLES
    registered,  \* the connector is in the registry
    connState,   \* BaseConnector._state
    healthyFlag, \* BaseConnector._health.healthy
    starting,    \* start calls waiting for _do_start
    browsers,    \* browsers launched and not closed
    attached,    \* self._browser is set
    launches,    \* starts made so far
    circuit,     \* CircuitBreaker: [state, failures, trials, last]
    inFlight,    \* requests let through and not yet recorded
    ticks,       \* the clock
    admittedOpen,\* a request was let through an open circuit before the timeout
    revokedScopes,
    fetched      \* what invocations returned: [by, first, last]

connVars == <<registered, connState, healthyFlag, starting, browsers, attached, launches, circuit,
              inFlight, ticks, admittedOpen, revokedScopes, fetched>>
lifeVars == <<registered, connState, healthyFlag, starting, browsers, attached, launches>>
circuitVars == <<circuit, inFlight, ticks, admittedOpen, fetched>>

ConnectorInit ==
    /\ registered = FALSE /\ connState = "unregistered" /\ healthyFlag = FALSE
    /\ starting = 0 /\ browsers = 0 /\ attached = FALSE /\ launches = 0
    /\ circuit = [state |-> "closed", failures |-> 0, trials |-> 0, last |-> 0]
    /\ inFlight = 0 /\ ticks = 0 /\ admittedOpen = FALSE /\ revokedScopes = {} /\ fetched = {}

------------------------------------------------------------------------------
(* Lifecycle: _transition sets any state; the table of legal ones is not consulted. *)

RegisterConnector ==
    /\ ~registered /\ registered' = TRUE /\ connState' = "registered"
    /\ UNCHANGED <<healthyFlag, starting, browsers, attached, launches, circuitVars, revokedScopes>>

\* unregister forgets the connector, running or not.
UnregisterConnector ==
    /\ registered /\ registered' = FALSE
    /\ UNCHANGED <<connState, healthyFlag, starting, browsers, attached, launches, circuitVars,
                   revokedScopes>>

ConfigureConnector ==
    /\ registered /\ connState' = "configured"
    /\ UNCHANGED <<registered, healthyFlag, starting, browsers, attached, launches, circuitVars,
                   revokedScopes>>

\* start_all starts a configured or stopped connector, then awaits the browser.
StartAll ==
    /\ registered /\ connState \in {"configured", "stopped"} /\ launches < MaxLaunches
    /\ connState' = "starting" /\ starting' = starting + 1 /\ launches' = launches + 1
    /\ UNCHANGED <<registered, healthyFlag, browsers, attached, circuitVars, revokedScopes>>

\* _do_start swallows every failure: the connector is healthy without a browser.
\* A second start overwrites the first browser, which nobody will close.
Started(launched) ==
    /\ starting > 0 /\ starting' = starting - 1 /\ connState' = "healthy"
    /\ attached' = launched
    /\ browsers' = IF launched THEN browsers + 1 ELSE browsers
    /\ UNCHANGED <<registered, healthyFlag, launches, circuitVars, revokedScopes>>

\* stop_all stops what is healthy or degraded; self._browser stays set.
StopAll ==
    /\ registered /\ connState \in {"healthy", "degraded"}
    /\ connState' = "stopped" /\ browsers' = IF attached /\ browsers > 0 THEN browsers - 1 ELSE browsers
    /\ UNCHANGED <<registered, healthyFlag, starting, attached, launches, circuitVars, revokedScopes>>

\* health_check: a connector without a browser is degraded, in whatever state it
\* was; a later success sets the flag and not the state.
HealthCheck ==
    /\ registered /\ healthyFlag' = attached
    /\ connState' = IF attached THEN connState ELSE "degraded"
    /\ UNCHANGED <<registered, starting, browsers, attached, launches, circuitVars, revokedScopes>>

------------------------------------------------------------------------------
(* Circuit breaker. *)

AllowsOpen == circuit.state = "open" /\ ticks - circuit.last >= RecoveryTimeout

\* allow_request: closed lets all through; open only after the timeout, and
\* becomes half open; half open lets every request through.
AllowRequest ==
    /\ inFlight < MaxInFlight /\ (circuit.state = "open" => AllowsOpen)
    /\ circuit' = IF AllowsOpen THEN [circuit EXCEPT !.state = "half_open", !.trials = 0] ELSE circuit
    /\ admittedOpen' = (admittedOpen \/ (circuit.state = "open" /\ ticks < circuit.last + RecoveryTimeout))
    /\ inFlight' = inFlight + 1
    /\ UNCHANGED <<lifeVars, ticks, revokedScopes, fetched>>

RecordSuccess ==
    /\ inFlight > 0 /\ inFlight' = inFlight - 1
    /\ circuit' = CASE circuit.state = "half_open" -> [circuit EXCEPT !.state = "closed", !.failures = 0, !.trials = 0]
                    [] circuit.state = "closed" -> [circuit EXCEPT !.failures = 0]
                    [] OTHER -> circuit
    /\ UNCHANGED <<lifeVars, ticks, admittedOpen, revokedScopes, fetched>>

FailedCircuitLate(c) ==
    IF c.state = "half_open" THEN [c EXCEPT !.state = "open", !.trials = @ + 1]
    ELSE IF c.failures > FailureThreshold THEN [c EXCEPT !.state = "open"] ELSE c

\* record_failure: one failed trial (half_open_max is 1) opens a half-open
\* circuit; otherwise the count does.
FailedCircuit(c) ==
    IF c.state = "half_open" THEN [c EXCEPT !.state = "open", !.trials = @ + 1]
    ELSE IF c.failures >= FailureThreshold THEN [c EXCEPT !.state = "open"] ELSE c

RecordFailure ==
    /\ inFlight > 0 /\ inFlight' = inFlight - 1
    /\ circuit' = FailedCircuit([circuit EXCEPT !.failures = @ + 1, !.last = ticks])
    /\ UNCHANGED <<lifeVars, ticks, admittedOpen, revokedScopes, fetched>>

Tick == ticks < MaxTicks /\ ticks' = ticks + 1
        /\ UNCHANGED <<lifeVars, circuit, inFlight, admittedOpen, revokedScopes, fetched>>

------------------------------------------------------------------------------
RevokeScope(scope) ==
    revokedScopes' = revokedScopes \cup {scope} /\ UNCHANGED <<lifeVars, circuitVars>>

\* auto_approve_r0_r1: both scopes of the browser are R1 and need no approval.
AutoApprove(scope) == scope \notin revokedScopes

\* _ssrf_check of the class of address a URL leads to.
SsrfOk(addr) == addr \in {"public", "unresolved"}

\* The page a navigation ends on is checked again when it is another one.
RedirectOk(first, last) == last # first => SsrfOk(last)

InvokeBrowser(action, first, last) ==
    /\ SsrfOk(first) /\ action # "submit" /\ attached
    /\ action = "navigate" => RedirectOk(first, last)
    /\ fetched' = fetched \cup {[by |-> action, first |-> first, last |-> last]}
    /\ UNCHANGED <<lifeVars, circuit, inFlight, ticks, admittedOpen, revokedScopes>>

\* The HTTP connector follows no redirect.
InvokeHttp(first) ==
    /\ SsrfOk(first)
    /\ fetched' = fetched \cup {[by |-> "http_get", first |-> first, last |-> first]}
    /\ UNCHANGED <<lifeVars, circuit, inFlight, ticks, admittedOpen, revokedScopes>>

LifecycleNext ==
    \/ RegisterConnector \/ UnregisterConnector \/ ConfigureConnector \/ StartAll \/ StopAll
    \/ HealthCheck \/ \E launched \in BOOLEAN : Started(launched)
    \/ \E scope \in Scopes : RevokeScope(scope)
    \/ \E first, last \in {"public", "private"} :
         InvokeHttp(first) \/ \E action \in {"navigate", "screenshot", "submit"} : InvokeBrowser(action, first, last)
CircuitNext == AllowRequest \/ RecordSuccess \/ RecordFailure \/ Tick
ConnectorSpec == ConnectorInit /\ [][LifecycleNext \/ CircuitNext]_connVars

Circuits == [state : {"closed", "open", "half_open"}, failures : Nat, trials : Nat, last : Nat]
ConnectorTypeOK ==
    /\ registered \in BOOLEAN /\ healthyFlag \in BOOLEAN /\ attached \in BOOLEAN
    /\ connState \in {"unregistered", "registered", "configured", "starting", "healthy", "degraded",
                      "stopped"}
    /\ starting \in Nat /\ browsers \in Nat /\ launches \in Nat
    /\ circuit \in Circuits /\ inFlight \in Nat /\ ticks \in Nat /\ admittedOpen \in BOOLEAN
    /\ revokedScopes \subseteq Scopes
    /\ fetched \subseteq [by : {"navigate", "screenshot", "http_get"},
                          first : {"public", "private"}, last : {"public", "private"}]

------------------------------------------------------------------------------
\* A closed circuit has seen fewer failures in a row than its threshold and an
\* open one at least as many, whatever order the outcomes of overlapping requests
\* come back in; no request passes an open circuit before the timeout since the
\* last failure recorded; and a connector started once and stopped has left no
\* browser open, while one started again over its first start may leave one; and
\* what a navigation or an HTTP request returned came from a public address,
\* redirects included.
ConnectorsSound ==
    /\ circuit.state = "closed" => circuit.failures < FailureThreshold
    /\ circuit.state # "closed" => circuit.failures >= FailureThreshold
    /\ ~admittedOpen
    /\ browsers + starting <= launches
    /\ connState = "stopped" /\ launches <= 1 => browsers = 0
    /\ \A f \in fetched : SsrfOk(f.first) /\ (f.by # "screenshot" => SsrfOk(f.last))
=============================================================================
