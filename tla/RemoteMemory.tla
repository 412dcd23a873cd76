---------------------------- MODULE RemoteMemory ----------------------------
(***************************************************************************)
(* What the EdgeCoh link promises the program on the host: a memory, with  *)
(* an engine next to it, that changes only by the call in progress.  A     *)
(* call that succeeds has had its whole effect, once; one that fails may   *)
(* have had any part of it.                                                *)
(***************************************************************************)
EXTENDS Integers, Sequences

CONSTANTS MemLen, NValues, Symbols, Calls

VARIABLES
  mem,
  call,      \* the call in progress or the last one
  open,      \* it is in progress
  ran,       \* the engine has run for it
  answer,    \* what the last call returned
  verdict    \* whether it succeeded

rvars == <<mem, call, open, ran, answer, verdict>>

At(a) == a % MemLen

RInit ==
  /\ mem = [a \in 0 .. MemLen - 1 |-> 0]
  /\ call \in Calls /\ ~open /\ ~ran
  /\ answer = <<>> /\ verdict = "none"

Begin(c) ==
  /\ ~open
  /\ call' = c /\ open' = TRUE /\ ran' = FALSE
  /\ answer' = <<>> /\ verdict' = "none"
  /\ UNCHANGED mem

Store(i) ==
  /\ open /\ call.op = "write"
  /\ mem' = [mem EXCEPT ![At(call.addr + i - 1)] = call.data[i]]
  /\ UNCHANGED <<call, open, ran, answer, verdict>>

Run ==
  /\ open /\ call.op = "nmc" /\ ~ran
  /\ ran' = TRUE
  /\ mem' = [mem EXCEPT ![At(call.out)] = (mem[At(call.addr)] + 1) % NValues]
  /\ UNCHANGED <<call, open, answer, verdict>>

Stored == \A i \in 1 .. Len(call.data) : mem[At(call.addr + i - 1)] = call.data[i]

Contents == [i \in 1 .. call.len |-> mem[At(call.addr + i - 1)]]

Succeed ==
  /\ open
  /\ call.op = "write" => Stored
  /\ call.op = "nmc" => ran
  /\ answer' = IF call.op = "read" THEN Contents ELSE <<>>
  /\ open' = FALSE /\ verdict' = "ok"
  /\ UNCHANGED <<mem, call, ran>>

Fail ==
  /\ open
  /\ open' = FALSE /\ verdict' = "failed" /\ answer' = <<>>
  /\ UNCHANGED <<mem, call, ran>>

RNext ==
  \/ \E c \in Calls : Begin(c)
  \/ \E i \in 1 .. Len(call.data) : Store(i)
  \/ Run \/ Succeed \/ Fail

RSpec == RInit /\ [][RNext]_rvars
=============================================================================
