----------------------------- MODULE Artifacts -----------------------------
(* What the offline tools and the runtime hand to each other, one job of a  *)
(* user at a time: the model file, the manifest, the program directory.     *)
EXTENDS OnnxModel

CONSTANT Jobs    \* what a user may ask for: a model and the options of each tool

VARIABLES
    job,         \* the options of this pass through the tools
    stage,       \* the tool that runs, or how it ended
    model,       \* the .onnx file and its sidecar
    manifest,    \* manifest.json
    program      \* what the lowering leaves in its directory, file by file

files == <<model, manifest, program>>

\* A tool that raises leaves its files as they are.
Fail(reason) == stage' = reason /\ UNCHANGED <<job, files>>

Errors == {"ShapeResolutionError", "RuntimeError", "ManifestValueError",
           "NotImplementedError", "ValueError", "StopIteration", "MemoryError", "Crashed"}
=============================================================================
