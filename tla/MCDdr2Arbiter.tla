---------------------------- MODULE MCDdr2Arbiter ----------------------------
(***************************************************************************)
(* An instance of Ddr2Arbiter for TLC: both lanes of word 0 take any value *)
(* and word 1 only zeroes, so that a store or a read that goes to the      *)
(* wrong word or lane is seen.                                             *)
(***************************************************************************)
EXTENDS Ddr2Arbiter

ZeroedNeighbour == ({0} \X Lanes \X Values) \cup ({1} \X Lanes \X {0})
=============================================================================
