------------------------------ MODULE Extents ------------------------------
(* A byte-addressed store (a file, the DDR2, a host arena) whose contents   *)
(* are told apart by what was stored, not byte by byte: a set of extents    *)
(* [at, len, tag] that never overlap.  What no extent covers is zero.       *)
EXTENDS Integers

Overlaps(e, at, width) == e.at < at + width /\ at < e.at + e.len

\* A store of width bytes of which the first len carry tag and the rest zero:
\* an extent it touches anywhere is destroyed.
Store(mem, at, len, width, tag) ==
    {e \in mem : ~Overlaps(e, at, width)}
        \cup {[at |-> at, len |-> len, tag |-> tag]}

Touched(mem, at, width) == {e \in mem : Overlaps(e, at, width)}

\* What a reader of width bytes at at finds, relative to at.
Loaded(mem, at, width) ==
    {[e EXCEPT !.at = @ - at] : e \in Touched(mem, at, width)}
=============================================================================
