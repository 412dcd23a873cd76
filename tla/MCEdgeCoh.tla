------------------------------ MODULE MCEdgeCoh ------------------------------
(***************************************************************************)
(* Instances of EdgeCohLink for TLC.                                       *)
(***************************************************************************)
EXTENDS EdgeCohLink

CallOf(op) == [op |-> op, addr |-> 0, len |-> 0, data |-> <<>>, nmc_op |-> 0, out |-> 0]

Write(a, d)  == [CallOf("write") EXCEPT !.addr = a, !.data = d]
Read(a, n)   == [CallOf("read") EXCEPT !.addr = a, !.len = n]
Nmc(o, a, b) == [CallOf("nmc") EXCEPT !.nmc_op = o, !.addr = a, !.out = b]

\* An operation with an engine (1) and one without (4, QUANT_ADD).
AllCalls ==
  {Write(0, <<1, 0>>), Write(1, <<1>>), Read(0, 2), Read(1, 1), Read(0, 0),
   Nmc(1, 0, 1), Nmc(1, 1, 0), Nmc(4, 0, 1), CallOf("barrier"), CallOf("transfer")}

FewCalls == {Write(0, <<1>>), Read(0, 1), Nmc(1, 0, 0), Nmc(4, 0, 0)}

\* What Executor::prepare does: it downloads, each chunk with its ACK.
Downloads == {Write(0, <<1>>), Write(0, <<1, 0>>)}

(***************************************************************************)
(* A program that makes one call over and over.                            *)
(***************************************************************************)
RepeatNext ==
  \/ ControllerStep \/ TransmitterStep \/ EngineStep
  \/ HostReceive \/ Tick \/ Restart \/ Opened \/ Stray
  \/ Send(call)

RepeatSpec == Init /\ [][RepeatNext]_vars /\ Fairness
=============================================================================
