----------------------------- MODULE EdgeCohLink -----------------------------
(***************************************************************************)
(* The host end of EdgeCoh, over the controller: the calls of Link         *)
(* (executors.cpp) and of backend_edgecoh.c, the tty transport with its    *)
(* deadlines, a process that is killed and started again, noise on the     *)
(* line.  A call sends one request and blocks for its answer; a write of   *)
(* more than 4096 bytes is several calls.                                  *)
(***************************************************************************)
EXTENDS EdgeCohController

CONSTANTS
  Calls,         \* what the program may ask for
  HostTimeout,   \* ticks recv waits (20 s and 30 s; 5 s in the legacy runtime)
  Faults,        \* what goes wrong: "restart" of the host, "stray" byte ...
  MaxFaults      \* ... bound: and how often

\* A request is made of symbols, its length included.
CallOK(c) ==
  /\ c.op \in {"write", "read", "nmc", "barrier", "transfer"}
  /\ {c.addr, c.len, c.nmc_op, c.out, AddrLen + Len(c.data)} \subseteq Symbols
  /\ c.data \in Seq(Symbols) /\ (c.op = "write" => c.data # <<>>)

LinkConstantsOK ==
  /\ HostTimeout \in Nat \ {0} /\ MaxFaults \in Nat
  /\ \A c \in Calls : CallOK(c)

ASSUME LinkAssumption == LinkConstantsOK

VARIABLES
  call,      \* the call in progress or the last one
  phase,     \* what it waits for: "closed", "header" or "payload"; "opening"
             \* while a new process drains the port
  waited,    \* ticks since its recv began
  answer,    \* the payload so far
  verdict,   \* how the last call ended: "none", "ok" or "failed"
  ran,       \* history: an engine finished during this call
  faults     \* how many faults there have been

host == <<call, phase, waited, answer, verdict, ran>>
vars == <<controller_vars, host, faults>>

Request(c) ==
  CASE c.op = "write"    -> <<MSG_DATA_WRITE, 0, AddrLen + Len(c.data), c.addr>> \o c.data
    [] c.op = "read"     -> <<MSG_DATA_READ, 0, 2, c.addr, c.len>>
    [] c.op = "nmc"      -> <<MSG_NMC_EXEC, 0, 3, c.nmc_op, c.addr, c.out>>
    [] c.op = "barrier"  -> <<MSG_SYNC_BARRIER, 0, 0>>
    [] c.op = "transfer" -> <<MSG_TRANSFER_OWNERSHIP, 0, 1, 1>>

Init ==
  /\ ControllerInit
  /\ call \in Calls /\ phase = "closed" /\ waited = 0
  /\ answer = <<>> /\ verdict = "none" /\ ran = FALSE
  /\ faults = 0

\* One write of the whole request; usb_send then waits (tcdrain) until it is on
\* the wire, so recv begins when down is empty.
Send(c) ==
  /\ phase = "closed"
  /\ call' = c /\ phase' = "header" /\ waited' = 0
  /\ answer' = <<>> /\ verdict' = "none" /\ ran' = FALSE
  /\ down' = down \o Request(c)
  /\ UNCHANGED <<state, message, indices, wr, rd, stall_cnt, uart, board, faults>>

Return(v, a) ==
  /\ phase' = "closed" /\ verdict' = v /\ answer' = a /\ waited' = 0
  /\ UNCHANGED <<call, ran>>

\* The host takes n symbols off the line.
Take(n) ==
  /\ up' = SubSeq(up, n + 1, Len(up))
  /\ UNCHANGED <<state, message, indices, wr, rd, stall_cnt, tx_valid, tx_data,
                 tx_ready, tx_busy, tx_shift, down, board, faults>>

Remaining == call.len - Len(answer)

HeaderArrived  == phase = "header" /\ down = <<>> /\ Len(up) >= HeaderLen
PayloadArrived == phase = "payload" /\ Len(up) >= Remaining

\* recv_header: a read wants a DATA_RESPONSE, anything else an ACK.  Of the
\* callers that write, Link refuses any other header and ec_write takes any but an
\* ERROR.
RecvHeader ==
  /\ HeaderArrived
  /\ Take(HeaderLen)
  /\ CASE Head(up) = MSG_DATA_RESPONSE /\ call.op = "read" /\ call.len > 0 ->
            /\ phase' = "payload" /\ waited' = 0
            /\ UNCHANGED <<call, answer, verdict, ran>>
       [] Head(up) = MSG_DATA_RESPONSE /\ call.op = "read" /\ call.len = 0 ->
            Return("ok", <<>>)
       [] Head(up) = MSG_ACK /\ call.op # "read" -> Return("ok", <<>>)
       [] Head(up) \notin {MSG_ACK, MSG_ERROR} /\ call.op = "write" ->
            \E v \in {"ok", "failed"} : Return(v, <<>>)
       [] OTHER -> Return("failed", <<>>)

RecvPayload ==
  /\ PayloadArrived
  /\ Take(Remaining)
  /\ Return("ok", answer \o SubSeq(up, 1, Remaining))

\* A deadline passes.  A header that is not complete fails the call; a payload
\* fails it only if nothing at all came, else recv is called for the rest.
Timeout ==
  /\ phase # "closed" /\ ~HeaderArrived /\ ~PayloadArrived
  /\ waited = HostTimeout
  /\ Take(Len(up))
  /\ IF phase = "payload" /\ up # <<>>
     THEN /\ waited' = 0 /\ answer' = answer \o up
          /\ UNCHANGED <<call, phase, verdict, ran>>
     ELSE Return("failed", <<>>)

\* Real time passes when neither side has anything to do.
Tick ==
  /\ BoardTick
  /\ ~HeaderArrived /\ ~PayloadArrived /\ phase # "opening"
  /\ phase # "closed" => waited < HostTimeout
  /\ waited' = IF phase = "closed" THEN 0 ELSE waited + 1
  /\ UNCHANGED <<call, phase, answer, verdict, ran, faults>>

Fault(kind) ==
  /\ kind \in Faults /\ faults < MaxFaults
  /\ faults' = faults + 1

\* The process dies and another opens the port: what has not been sent is
\* flushed, and so is what has arrived.
Restart ==
  /\ Fault("restart")
  /\ \E n \in 0 .. Len(down) : down' = SubSeq(down, 1, n)
  /\ up' = <<>> /\ phase' = "opening" /\ waited' = 0 /\ answer' = <<>> /\ verdict' = "none"
  /\ UNCHANGED <<call, ran, state, message, indices, wr, rd, stall_cnt,
                 tx_valid, tx_data, tx_ready, tx_busy, tx_shift, board>>

\* The new process has read whatever came, until nothing came for 10 ms (which is
\* less than any watchdog) or, in the midst of a long answer, 20 times.
Opened ==
  /\ phase = "opening"
  /\ Silent \/ state \in {"dma_read_req", "dma_read_resp"}
  /\ up' = <<>> /\ phase' = "closed"
  /\ UNCHANGED <<call, waited, answer, verdict, ran, faults, state, message, indices, wr, rd,
                 stall_cnt, tx_valid, tx_data, tx_ready, tx_busy, tx_shift, down, board>>

\* Opening or closing the tty puts a byte on the line.
Stray ==
  /\ Fault("stray")
  /\ phase = "closed"
  /\ \E b \in Symbols : down' = Append(down, b)
  /\ UNCHANGED <<state, message, indices, wr, rd, stall_cnt, uart, board, host>>

HostUntouched == UNCHANGED <<host, faults>>

ControllerStep  == ControllerNext /\ HostUntouched
TransmitterStep == UartDone /\ HostUntouched

EngineStep ==
  /\ EngineDone
  /\ ran' = TRUE
  /\ UNCHANGED <<call, phase, waited, answer, verdict, faults>>

HostReceive == RecvHeader \/ RecvPayload \/ Timeout

Next ==
  \/ ControllerStep \/ TransmitterStep \/ EngineStep
  \/ HostReceive \/ Tick \/ Restart \/ Opened \/ Stray
  \/ \E c \in Calls : Send(c)

Spec == Init /\ [][Next]_vars

(***************************************************************************)
(* Clocks run, the stop bit ends, time passes and the host process is      *)
(* scheduled.  An engine need not finish.                                  *)
(***************************************************************************)
Fairness ==
  /\ WF_vars(ControllerStep)
  /\ WF_vars(TransmitterStep)
  /\ WF_vars(HostReceive)
  /\ WF_vars(Opened)
  /\ WF_vars(Tick)

FairSpec == Spec /\ Fairness

-----------------------------------------------------------------------------
TypeOK ==
  /\ ControllerTypeOK
  /\ call \in Calls /\ phase \in {"closed", "header", "payload", "opening"}
  /\ waited \in 0 .. HostTimeout
  /\ answer \in Seq(Symbols) /\ (phase # "closed" => Len(answer) <= call.len)
  /\ verdict \in {"none", "ok", "failed"}
  /\ ran \in BOOLEAN
  /\ faults \in 0 .. MaxFaults

\* Between two calls nothing is under way: every byte of the last request has
\* been consumed, every byte of its answer received, also when the call failed.
\* The next answer can then only be the next request's.
NothingLeftOver ==
  phase = "closed" =>
    /\ down = <<>> /\ up = <<>>
    /\ state = "idle" \/ (state = "ack_wait" /\ ack_byte_idx = HeaderLen - 1)

\* A call fails only because of an engine: a byte handed to the transmitter is
\* never lost and no byte of a request is missed.
FailsOnlyByEngine ==
  verdict = "failed" =>
    /\ call.op = "nmc" /\ ~ran
    /\ call.nmc_op \notin NmcEngines \/ engine.busy

\* A call that succeeds has had its effect (executors.cpp returns true after
\* "completion of every dispatched message", messages.h:9): the data is in
\* memory, the engine has run.
SuccessIsReal ==
  verdict = "ok" =>
    /\ call.op = "nmc" => ran
    /\ call.op = "write" =>
         \A i \in 1 .. Len(call.data) : mem[Cell(call.addr + i - 1)] = call.data[i]

\* The controller always finds its way back to S_IDLE, whatever it was sent
\* (edgecoh_controller.v:20: "guarantees the FPGA recovers").
Recovers == state # "idle" ~> state = "idle"

Remote ==
  INSTANCE RemoteMemory WITH
    open   <- phase # "closed",
    answer <- IF phase = "closed" THEN answer ELSE <<>>

\* The two ends and the line between them implement the remote memory.
ImplementsRemote == Remote!RSpec
=============================================================================
