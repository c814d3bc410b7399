--------------------------- MODULE MCOrchestrator ---------------------------
(* Small instances of Orchestrator for TLC. *)
EXTENDS Orchestrator, TLC

CONSTANTS m1, m2, w1,
          sub1, sub2, fin1, live1, beat1, \* calls
          no                              \* call of the approval queue

OpOf == [c \in Calls |-> CASE c \in {sub1, sub2} -> "submit"
                           [] c = fin1           -> "complete"
                           [] c = live1          -> "heartbeat"
                           [] c = beat1          -> "beat"]
ArgOf == [c \in Calls |-> IF c = sub2 THEN m2 ELSE m1]
ByOf  == [c \in Calls |-> w1]

\* The second mission depends on the first, or on none; either way it goes
\* before it in the queue.
ChainOf     == [m \in Missions |-> IF m = m2 THEN {m1} ELSE {}]
NoDepends   == [m \in Missions |-> {}]
PriorityOf  == [m \in Missions |-> IF m = m2 THEN 1 ELSE 0]
OwnKey      == [m \in Missions |-> m]
AnyWorker   == [m \in Missions |-> Workers]
PrefersNone == [m \in Missions |-> None]
SameRank    == [w \in Workers |-> 0]

\* Requests are about the mission of higher priority, jobs about the first.
ForM2  == [r \in Requests |-> m2]
JobsM1 == [j \in Jobs |-> m1]

ApprovalOpOf  == [c \in ApprovalCalls |-> "reject"]
ApprovalArgOf == [c \in ApprovalCalls |-> CHOOSE r \in Requests : TRUE]

LoopSymmetry == Permutations(Loops)
JobSymmetry  == Permutations(Jobs)
=============================================================================
