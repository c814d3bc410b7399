-------------------------- MODULE MCMissionRuntime --------------------------
(* Small instances of MissionRuntime for TLC. *)
EXTENDS MissionRuntime, TLC

CONSTANTS talk, plan1, yes, go, bg1, bg2, halt, undo, safe

\* Calls are model values; each name stands for one operation.
OpOf == [c \in Calls |->
            CASE c = talk           -> "converse"
              [] c = plan1          -> "plan"
              [] c = yes            -> "approve"
              [] c = go             -> "run"
              [] c \in {bg1, bg2}   -> "background"
              [] c = halt           -> "pause"
              [] c = undo           -> "rollback"
              [] c = safe           -> "safe_mode"]

=============================================================================
