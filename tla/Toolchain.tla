----------------------------- MODULE Toolchain -----------------------------
(* The whole way of a model: generate, parse, place (Placement), lower      *)
(* (Lowering), run (V2Runtime), and lower again after another training; or  *)
(* hand the model to a baseline or to the profiler (Baselines).             *)
EXTENDS Placement, V2Runtime, Baselines

vars == <<job, stage, files, solver, lw, training, runtime, baselines>>

Init == PlacementInit /\ LoweringInit /\ RuntimeInit /\ BaselinesInit

Next == \/ Place /\ UNCHANGED <<lw, training, runtime, baselines>>
        \/ Lower /\ UNCHANGED <<solver, runtime, baselines>>
        \/ Run /\ UNCHANGED <<solver, lw, training, baselines>>
        \/ Baseline /\ UNCHANGED <<solver, lw, training, runtime>>

Spec == Init /\ [][Next]_vars
=============================================================================
