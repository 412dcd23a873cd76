--------------------------- MODULE MCEvaluation ---------------------------
(* A sweep that skips a fixed-batch cell and measures a dlrm cell, one of    *)
(* another dlrm cell, and two cells of e2_v2.                               *)
EXTENDS Evaluation

TwoSweeps ==
  {[models |-> <<"yolov8n", "dlrm">>, batches |-> <<64>>],
   [models |-> <<"dlrm">>, batches |-> <<1>>]}

TwoCells == <<"SI_host", "SI_pool">>
=============================================================================
