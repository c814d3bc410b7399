--------------------------- MODULE MCToolRuntime ---------------------------
(* Small instances of ToolRuntime for TLC. *)
EXTENDS ToolRuntime, TLC

CONSTANTS a1, agent

\* Single-action approvals that name no executor.
SingleScope    == [a \in Approvals |-> "single_action"]
SingleExecutor == [a \in Approvals |-> None]

\* a1 is a single-action approval bound to the agent, the others mission wide.
MixedScope    == [a \in Approvals |->
                    IF a = a1 THEN "single_action" ELSE "mission"]
MixedExecutor == [a \in Approvals |-> IF a = a1 THEN agent ELSE None]

KeyedUses == Keys \cup {NoKey}

CallSymmetry == Permutations(Calls) \cup Permutations(Decides)
=============================================================================
