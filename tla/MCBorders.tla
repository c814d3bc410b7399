------------------------------ MODULE MCBorders ------------------------------
(* Small instances of the program loop, under fairness, of the gate of a       *)
(* promotion, and of what lies between the system and the outside: messages,   *)
(* sessions, the audit ledger, connectors, the sandbox, and access to the web  *)
(* and the desktop.  They share no state, so one run checks them side by side: *)
(* focus says which one moves.                                                 *)
EXTENDS ProgramLoop, MessageAdapter, Sessions, AuditLedger, Connectors,
        Sandbox, WebAccess, PromotionGate

\* Two starts, a pause, a stop and a resume of the program loop.
LoopOpOf == [c \in LoopCalls |-> CASE c \in {"st1", "st2"} -> "start"
                                   [] c = "pa" -> "pause"
                                   [] c = "sp" -> "stop"
                                   [] c = "re" -> "resume"]

\* The twin expects a policy; the world may hold a queue beside it.
PolicyOn == [policy |-> "on"]
TwinOutcomes == {PolicyOn, [policy |-> "on", queue |-> "on"]}

------------------------------------------------------------------------------
\* The component this behaviour is about; the others stay as they start.
VARIABLE focus

\* Everything but the component in focus is left alone.
Elsewhere ==
    /\ UNCHANGED focus
    /\ focus # "loop" => UNCHANGED loopVars
    /\ focus # "gate" => UNCHANGED gateVars
    /\ focus # "message" => UNCHANGED msgVars
    /\ focus \notin {"session", "identity"} => UNCHANGED sessionVars
    /\ focus # "audit" => UNCHANGED auditVars
    /\ focus \notin {"connectors", "circuit"} => UNCHANGED connVars
    /\ focus # "sandbox" => UNCHANGED sandboxVars
    /\ focus \notin {"network", "browser", "desktop"} => UNCHANGED webVars

Cycles == focus = "loop" /\ Elsewhere /\ LoopNext
Promotes == focus = "gate" /\ Elsewhere /\ GateNext
Sends == focus = "message" /\ Elsewhere /\ MessageNext
Binds == focus = "session" /\ Elsewhere /\ SessionNext
Identifies == focus = "identity" /\ Elsewhere /\ IdentityNext
Audits == focus = "audit" /\ Elsewhere /\ AuditNext
Connects == focus = "connectors" /\ Elsewhere /\ LifecycleNext
Breaks == focus = "circuit" /\ Elsewhere /\ CircuitNext
Confines == focus = "sandbox" /\ Elsewhere /\ SandboxNext
Filters == focus = "network" /\ Elsewhere /\ PolicyNext
Browses == focus = "browser" /\ Elsewhere /\ BrowserNext
Operates == focus = "desktop" /\ Elsewhere /\ DesktopNext

SuiteInit ==
    /\ focus \in {"loop", "gate", "message", "session", "identity", "audit",
                  "connectors", "circuit", "sandbox", "network",
                  "browser", "desktop"}
    /\ LoopInit /\ GateInit /\ MessageInit /\ SessionInit /\ AuditInit
    /\ ConnectorInit /\ SandboxInit /\ WebInit

SuiteNext ==
    \/ Cycles \/ Promotes \/ Sends \/ Binds \/ Identifies \/ Audits
    \/ Connects \/ Breaks \/ Confines \/ Filters \/ Browses \/ Operates
suiteVars == <<loopVars, gateVars, msgVars, sessionVars, auditVars,
    connVars, sandboxVars, webVars, focus>>
SuiteFairness ==
    /\ \A c \in LoopCalls : WF_loopVars(focus = "loop" /\ LoopCallRest(c))
    /\ \A t \in LoopThreads : WF_loopVars(focus = "loop" /\ LoopThreadStep(t))
SuiteSpec == SuiteInit /\ [][SuiteNext]_suiteVars /\ SuiteFairness

------------------------------------------------------------------------------
\* What crosses the border of the system is governed on the way: a message is
\* delivered once and only when it was approved, the web and the desktop see
\* what the policies allow, a failing connector is cut off and probed again,
\* nothing outlives its sandbox unconfined, and the audit chain survives every
\* order of records, failed writes and reloads.
BordersSound ==
    /\ focus = "message" => MessageSound
    /\ focus = "audit" => ChainSurvives
    /\ focus \in {"connectors", "circuit"} => ConnectorsSound
    /\ focus = "sandbox" => SandboxSound
    /\ focus \in {"network", "browser", "desktop"} => AccessGoverned
==============================================================================
