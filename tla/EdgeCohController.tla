-------------------------- MODULE EdgeCohController --------------------------
(***************************************************************************)
(* The FPGA end of the EdgeCoh byte protocol: the state machine of         *)
(* edgecoh_controller.v, the transmitter of usb_interface.v, the           *)
(* dispatcher of nmc_dispatch.v with one engine behind it, and the memory. *)
(*                                                                         *)
(* A step is a clock edge at which something changes.  Bytes are grouped   *)
(* into symbols: a header is its type, its tensor id and its length; an    *)
(* address, a length and an operation are a symbol each; so is a byte of   *)
(* tensor data.  A symbol that is read out of step keeps its value.        *)
(***************************************************************************)
EXTENDS Integers, Sequences

CONSTANTS
  BufLen,            \* symbols payload_buf holds (32 bytes in the code)
  MemLen,            \* addresses wrap at this one (27 bits in the code)
  NValues,           \* an engine computes modulo this number
  MaxSymbol,         \* largest symbol on the line
  WatchdogLimit,     \* ticks of silence before the watchdog fires (100 ms) ...
  WatchdogLimitNmc,  \* ... and while an engine runs (8 s)
  EngineTicks,       \* an engine that takes longer than this never finishes
  TtyBuffer          \* bytes the host's tty keeps; more are dropped

\* Message types (edgecoh_controller.v:47, messages.h).
MSG_TRANSFER_OWNERSHIP == 1
MSG_SYNC_BARRIER       == 2
MSG_DATA_WRITE         == 3
MSG_DATA_READ          == 4
MSG_DATA_RESPONSE      == 5
MSG_NMC_EXEC           == 6
MSG_ACK                == 7
MSG_ERROR              == 8

\* Engines finish well within their watchdog, or hang (comment at
\* edgecoh_controller.v:72).
ControllerConstantsOK ==
  /\ BufLen > 3 /\ MaxSymbol >= MSG_ERROR
  /\ {BufLen, MemLen, NValues, MaxSymbol, WatchdogLimit, TtyBuffer} \subseteq Nat \ {0}
  /\ WatchdogLimitNmc \in Nat /\ EngineTicks \in Nat
  /\ WatchdogLimit < WatchdogLimitNmc
  /\ EngineTicks < WatchdogLimitNmc
  /\ NValues <= MaxSymbol + 1

ASSUME ControllerAssumption == ControllerConstantsOK

VARIABLES
  state,          \* the FSM's state
  header_buf, header_idx,
  payload_buf, payload_idx, payload_len,
  ack_byte_idx, resp_hdr_idx,
  wr,             \* dma_wr_base, dma_wr_remaining
  rd,             \* dma_rd_base, _total, _requested, _sent, _have, _latch
  stall_cnt,
  tx_valid, tx_data,   \* FSM to transmitter
  tx_ready, tx_busy, tx_shift,  \* the transmitter: registered ready; not in
                  \* TX_IDLE; the byte being sent
  down, up,       \* the two directions of the line
  mem,            \* DDR2
  dma,            \* address of the read in flight, or NoRead
  engine          \* the dispatcher's busy and the operation it runs

message  == <<header_buf, header_idx, payload_buf, payload_idx, payload_len>>
indices  == <<ack_byte_idx, resp_hdr_idx>>
uart     == <<tx_valid, tx_data, tx_ready, tx_busy, tx_shift, up>>
board    == <<mem, dma, engine>>
controller_vars ==
  <<state, message, indices, wr, rd, stall_cnt, uart, down, board>>

Symbols   == 0 .. MaxSymbol
HeaderLen == 3
AddrLen   == 1
NoRead    == -1

\* nmc_dispatch.v knows three operations; any other starts nothing.
NmcEngines == {1, 2, 3}

States ==
  {"idle", "header", "payload", "dispatch", "wait_nmc", "send_ack", "ack_wait",
   "dma_write", "send_resp_hdr", "dma_read_req", "dma_read_resp"}

Idle == [busy |-> FALSE, in |-> 0, out |-> 0, age |-> 0]

Cell(a) == a % MemLen

ControllerInit ==
  /\ state = "idle"
  /\ header_buf = [i \in 0 .. HeaderLen - 1 |-> 0] /\ header_idx = 0
  /\ payload_buf = [i \in 0 .. BufLen - 1 |-> 0]
  /\ payload_idx = 0 /\ payload_len = 0
  /\ ack_byte_idx = 0 /\ resp_hdr_idx = 0
  /\ wr = [base |-> 0, remaining |-> 0]
  /\ rd = [base |-> 0, total |-> 0, requested |-> 0, sent |-> 0,
           have |-> FALSE, latch |-> 0]
  /\ stall_cnt = 0
  /\ tx_valid = FALSE /\ tx_data = 0 /\ tx_ready = TRUE /\ tx_busy = FALSE
  /\ tx_shift = 0
  /\ down = <<>> /\ up = <<>>
  /\ mem = [a \in 0 .. MemLen - 1 |-> 0]
  /\ dma = NoRead /\ engine = Idle

-----------------------------------------------------------------------------
(***************************************************************************)
(* The transmitter.  tx_ready is a register: it falls one clock after a    *)
(* byte is taken and rises one clock after the transmitter is idle again.  *)
(***************************************************************************)
Uart ==
  IF ~tx_busy /\ tx_valid /\ tx_ready
  THEN tx_shift' = tx_data /\ tx_busy' = TRUE /\ tx_ready' = FALSE /\ UNCHANGED up
  ELSE tx_ready' = (tx_ready \/ ~tx_busy) /\ UNCHANGED <<up, tx_busy, tx_shift>>

LineIdle == ~tx_busy /\ tx_ready /\ ~tx_valid

\* A byte is on the line for thousands of clocks: when it ends, in either
\* direction, the FSM has come to rest and waits for the line, the memory or an
\* engine.
AtRest ==
  /\ state \notin {"dispatch", "send_ack", "dma_read_req"}
  /\ \/ tx_busy
     \/ LineIdle /\ state \notin {"ack_wait", "send_resp_hdr"} /\ ~rd.have

\* The stop bit has been sent: the host has the byte.
UartDone ==
  /\ tx_busy /\ AtRest
  /\ tx_busy' = FALSE
  /\ up' = IF Len(up) < TtyBuffer THEN Append(up, tx_shift) ELSE up
  /\ UNCHANGED <<state, message, indices, wr, rd, stall_cnt, tx_valid, tx_data,
                 tx_ready, tx_shift, down, board>>

(***************************************************************************)
(* What every clock edge does beside the branch of the FSM's state: the    *)
(* transmitter moves, and progress or a safe state resets stall_cnt.       *)
(***************************************************************************)
InWaitState == state \notin {"idle", "dispatch"}

LimitShort == WatchdogLimit

Limit == IF state = "wait_nmc" THEN WatchdogLimitNmc ELSE WatchdogLimit

ExpiredHostOnly == InWaitState /\ state # "wait_nmc" /\ stall_cnt >= Limit

Expired == InWaitState /\ stall_cnt >= Limit

Clock(event) ==
  /\ ~Expired
  /\ Uart
  /\ stall_cnt' = IF event \/ (tx_valid /\ tx_ready) \/ rd.have \/ ~InWaitState
                  THEN 0 ELSE stall_cnt

\* The clock edge presents no byte to the transmitter, or this one.
NoByte     == tx_valid' = FALSE /\ UNCHANGED tx_data
Present(b) == tx_valid' = TRUE /\ tx_data' = b

\* A byte from the host is presented for one clock.
Received ==
  /\ down # <<>> /\ AtRest
  /\ down' = Tail(down)
  /\ Clock(TRUE)
  /\ NoByte

Goto(s) == state' = s

\* Back to S_IDLE with the registers of the message cleared.  The watchdog and
\* the other exits do it alike; have is dma_rd_have afterwards.
ToIdleStale(have) ==
  /\ Goto("idle")
  /\ header_idx' = 0 /\ payload_idx' = 0
  /\ ack_byte_idx' = 0 /\ resp_hdr_idx' = 0
  /\ wr' = [wr EXCEPT !.remaining = 0]
  /\ rd' = [rd EXCEPT !.total = 0, !.requested = 0, !.sent = 0, !.have = have]
  /\ UNCHANGED <<header_buf, payload_buf, payload_len>>

ToIdle(have) ==
  /\ Goto("idle")
  /\ header_idx' = 0 /\ payload_idx' = 0 /\ payload_len' = 0
  /\ ack_byte_idx' = 0 /\ resp_hdr_idx' = 0
  /\ wr' = [wr EXCEPT !.remaining = 0]
  /\ rd' = [rd EXCEPT !.total = 0, !.requested = 0, !.sent = 0, !.have = have]
  /\ UNCHANGED <<header_buf, payload_buf>>

-----------------------------------------------------------------------------
(***************************************************************************)
(* Receiving.                                                              *)
(***************************************************************************)
IdleByte ==
  /\ state = "idle"
  /\ Received
  /\ header_buf' = [header_buf EXCEPT ![0] = Head(down)]
  /\ header_idx' = 1
  /\ Goto("header")
  /\ UNCHANGED <<payload_buf, payload_idx, payload_len, indices, wr, rd, board>>

\* Eight byte times pass before a header is complete: by then the last byte of
\* the answer before it has left.
HeaderByte ==
  /\ state = "header"
  /\ header_idx = HeaderLen - 1 => LineIdle
  /\ Received
  /\ header_buf' = [header_buf EXCEPT ![header_idx] = Head(down)]
  /\ IF header_idx = HeaderLen - 1
     THEN /\ payload_len' = Head(down) /\ payload_idx' = 0
          /\ Goto(IF Head(down) = 0 THEN "dispatch" ELSE "payload")
          /\ UNCHANGED header_idx
     ELSE /\ header_idx' = header_idx + 1
          /\ UNCHANGED <<state, payload_len, payload_idx>>
  /\ UNCHANGED <<payload_buf, indices, wr, rd, board>>

\* Of a DATA_WRITE the address is collected, of any other message
\* payload_len[4:0] bytes and never more than the buffer holds.
PayloadComplete ==
  IF header_buf[0] = MSG_DATA_WRITE
  THEN payload_idx + 1 >= AddrLen
  ELSE payload_idx + 1 >= payload_len % BufLen \/ payload_idx >= BufLen - 1

PayloadByte ==
  /\ state = "payload"
  /\ Received
  /\ payload_buf' = [payload_buf EXCEPT ![payload_idx] = Head(down)]
  /\ IF PayloadComplete
     THEN Goto("dispatch") /\ UNCHANGED payload_idx
     ELSE payload_idx' = payload_idx + 1 /\ UNCHANGED state
  /\ UNCHANGED <<header_buf, header_idx, payload_len, indices, wr, rd, board>>

\* A state with no branch on rx_valid lets the byte pass.
LostByte ==
  /\ state \notin {"idle", "header", "payload"}
  /\ state = "dma_write" => wr.remaining = 0
  /\ ~Expired
  /\ down # <<>> /\ AtRest
  /\ down' = Tail(down)
  /\ stall_cnt' = 0
  /\ UNCHANGED <<state, message, indices, wr, rd, uart, board>>

DmaWriteByte ==
  /\ state = "dma_write" /\ wr.remaining > 0
  /\ Received
  /\ mem' = [mem EXCEPT ![Cell(wr.base)] = Head(down)]
  /\ wr' = [base |-> wr.base + 1, remaining |-> wr.remaining - 1]
  /\ IF wr.remaining = 1
     THEN Goto("send_ack") /\ ack_byte_idx' = 0
     ELSE UNCHANGED <<state, ack_byte_idx>>
  /\ UNCHANGED <<message, resp_hdr_idx, rd, dma, engine>>

-----------------------------------------------------------------------------
(***************************************************************************)
(* S_DISPATCH, one action for each message.                                *)
(***************************************************************************)
Dispatch(types) ==
  /\ state = "dispatch"
  /\ header_buf[0] \in types
  /\ Clock(FALSE)
  /\ NoByte
  /\ UNCHANGED <<message, down>>

\* SYNC_BARRIER, TRANSFER_OWNERSHIP and what is not known: just ACK.
DispatchAck ==
  /\ Dispatch(Symbols \ {MSG_NMC_EXEC, MSG_DATA_WRITE, MSG_DATA_READ})
  /\ Goto("send_ack") /\ ack_byte_idx' = 0
  /\ UNCHANGED <<resp_hdr_idx, wr, rd, board>>

\* The dispatcher drops a start while it is busy, and an operation it has no
\* engine for.
DispatchNmc ==
  /\ Dispatch({MSG_NMC_EXEC})
  /\ Goto("wait_nmc")
  /\ engine' = IF ~engine.busy /\ payload_buf[0] \in NmcEngines
               THEN [busy |-> TRUE, in |-> payload_buf[1],
                     out |-> payload_buf[2], age |-> 0]
               ELSE engine
  /\ UNCHANGED <<indices, wr, rd, mem, dma>>

DispatchWriteShort ==
  /\ Dispatch({MSG_DATA_WRITE})
  /\ wr' = [base |-> payload_buf[0],
            remaining |-> IF payload_len > AddrLen THEN payload_len - AddrLen - 1 ELSE 0]
  /\ IF payload_len > AddrLen
     THEN Goto("dma_write") /\ UNCHANGED ack_byte_idx
     ELSE Goto("send_ack") /\ ack_byte_idx' = 0
  /\ UNCHANGED <<resp_hdr_idx, rd, board>>

DispatchWrite ==
  /\ Dispatch({MSG_DATA_WRITE})
  /\ wr' = [base |-> payload_buf[0],
            remaining |-> IF payload_len > AddrLen THEN payload_len - AddrLen ELSE 0]
  /\ IF payload_len > AddrLen
     THEN Goto("dma_write") /\ UNCHANGED ack_byte_idx
     ELSE Goto("send_ack") /\ ack_byte_idx' = 0
  /\ UNCHANGED <<resp_hdr_idx, rd, board>>

DispatchRead ==
  /\ Dispatch({MSG_DATA_READ})
  /\ rd' = [rd EXCEPT !.base = payload_buf[0], !.total = payload_buf[1],
                      !.requested = 0, !.sent = 0]
  /\ resp_hdr_idx' = 0
  /\ Goto("send_resp_hdr")
  /\ UNCHANGED <<ack_byte_idx, wr, board>>

-----------------------------------------------------------------------------
(***************************************************************************)
(* Answering.                                                              *)
(***************************************************************************)
AckByte(i)      == <<MSG_ACK, header_buf[1], 0>>[i + 1]
ResponseByte(i) == <<MSG_DATA_RESPONSE, header_buf[1], rd.total>>[i + 1]

\* The byte is held until tx_ready is seen low.
SendAck ==
  /\ state = "send_ack"
  /\ Clock(FALSE)
  /\ tx_data' = AckByte(ack_byte_idx)
  /\ tx_valid' = ~(tx_valid /\ ~tx_ready)
  /\ Goto(IF tx_valid /\ ~tx_ready THEN "ack_wait" ELSE "send_ack")
  /\ UNCHANGED <<message, indices, wr, rd, down, board>>

AckWait ==
  /\ state = "ack_wait"
  /\ tx_ready
  /\ Clock(FALSE)
  /\ NoByte
  /\ IF ack_byte_idx = HeaderLen - 1
     THEN ToIdle(rd.have)
     ELSE /\ ack_byte_idx' = ack_byte_idx + 1
          /\ Goto("send_ack")
          /\ UNCHANGED <<message, resp_hdr_idx, wr, rd>>
  /\ UNCHANGED <<down, board>>

TxFree == tx_ready /\ ~tx_valid

SendRespHdrEager ==
  /\ state = "send_resp_hdr"
  /\ tx_ready
  /\ Clock(FALSE)
  /\ Present(ResponseByte(resp_hdr_idx))
  /\ resp_hdr_idx' = (resp_hdr_idx + 1) % HeaderLen
  /\ Goto(IF resp_hdr_idx = HeaderLen - 1 THEN "dma_read_req" ELSE "send_resp_hdr")
  /\ UNCHANGED <<message, ack_byte_idx, wr, rd, down, board>>

SendRespHdrNoWrap ==
  /\ state = "send_resp_hdr"
  /\ TxFree
  /\ Clock(FALSE)
  /\ Present(ResponseByte(resp_hdr_idx))
  /\ resp_hdr_idx' = resp_hdr_idx + 1
  /\ Goto(IF resp_hdr_idx = HeaderLen - 1 THEN "dma_read_req" ELSE "send_resp_hdr")
  /\ UNCHANGED <<message, ack_byte_idx, wr, rd, down, board>>

SendRespHdr ==
  /\ state = "send_resp_hdr"
  /\ TxFree
  /\ Clock(FALSE)
  /\ Present(ResponseByte(resp_hdr_idx))
  /\ resp_hdr_idx' = (resp_hdr_idx + 1) % HeaderLen
  /\ Goto(IF resp_hdr_idx = HeaderLen - 1 THEN "dma_read_req" ELSE "send_resp_hdr")
  /\ UNCHANGED <<message, ack_byte_idx, wr, rd, down, board>>

DmaReadReq ==
  /\ state = "dma_read_req"
  /\ Clock(FALSE)
  /\ NoByte
  /\ IF rd.requested < rd.total
     THEN /\ dma' = rd.base + rd.requested
          /\ rd' = [rd EXCEPT !.requested = @ + 1]
          /\ Goto("dma_read_resp")
          /\ UNCHANGED <<message, indices, wr>>
     ELSE ToIdle(rd.have) /\ UNCHANGED dma
  /\ UNCHANGED <<down, mem, engine>>

SendData(b) ==
  /\ Present(b)
  /\ IF rd.sent + 1 >= rd.total
     THEN ToIdle(FALSE)
     ELSE /\ rd' = [rd EXCEPT !.have = FALSE, !.sent = @ + 1]
          /\ Goto("dma_read_req")
          /\ UNCHANGED <<message, indices, wr>>

\* dma_rd_valid: sent at once if the transmitter is free, else latched.  (The
\* latch means nothing unless have is set.)
DmaReadValid ==
  /\ state = "dma_read_resp"
  /\ dma # NoRead
  /\ Clock(TRUE)
  /\ dma' = NoRead
  /\ IF TxFree
     THEN SendData(IF rd.have THEN rd.latch ELSE mem[Cell(dma)])
     ELSE /\ rd' = [rd EXCEPT !.have = TRUE, !.latch = mem[Cell(dma)]]
          /\ NoByte
          /\ UNCHANGED <<state, message, indices, wr>>
  /\ UNCHANGED <<down, mem, engine>>

DmaReadSend ==
  /\ state = "dma_read_resp"
  /\ rd.have /\ TxFree
  /\ Clock(FALSE)
  /\ SendData(rd.latch)
  /\ UNCHANGED <<down, board>>

\* A clock at which the FSM waits and only the transmitter moves.
WaitClock ==
  /\ state \notin {"dispatch", "send_ack", "dma_read_req"}
  /\ ~(state = "ack_wait" /\ tx_ready)
  /\ ~tx_busy /\ (tx_valid \/ ~tx_ready)
  /\ Clock(FALSE)
  /\ NoByte
  /\ UNCHANGED <<state, message, indices, wr, rd, down, board>>

-----------------------------------------------------------------------------
(***************************************************************************)
(* The engine finishes: its result is in memory and nmc_done is high for   *)
(* one clock, which only S_WAIT_NMC notices.                               *)
(***************************************************************************)
EngineDone ==
  /\ engine.busy /\ engine.age <= EngineTicks
  /\ ~Expired
  /\ mem' = [mem EXCEPT ![Cell(engine.out)] = (mem[Cell(engine.in)] + 1) % NValues]
  /\ engine' = Idle
  /\ stall_cnt' = 0
  /\ IF state = "wait_nmc"
     THEN Goto("send_ack") /\ ack_byte_idx' = 0
     ELSE UNCHANGED <<state, ack_byte_idx>>
  /\ UNCHANGED <<message, resp_hdr_idx, wr, rd, uart, down, dma>>

Watchdog ==
  /\ Expired
  /\ ToIdle(rd.have)
  /\ stall_cnt' = 0
  /\ NoByte
  /\ Uart
  /\ UNCHANGED <<down, board>>

\* The FSM's own steps; EngineDone and UartDone are the others'.
ControllerNext ==
  \/ IdleByte \/ HeaderByte \/ PayloadByte \/ LostByte \/ DmaWriteByte
  \/ DispatchAck \/ DispatchNmc \/ DispatchWrite \/ DispatchRead
  \/ SendAck \/ AckWait \/ SendRespHdr \/ DmaReadReq \/ DmaReadValid \/ DmaReadSend
  \/ WaitClock \/ Watchdog

\* Nothing on the board or the line moves but an engine.
Silent ==
  /\ down = <<>> /\ LineIdle /\ dma = NoRead /\ ~Expired
  /\ state \in {"idle", "header", "payload", "dma_write", "wait_nmc"}

\* A tick of real time, longer than any of the steps above.
BoardTick ==
  /\ Silent
  /\ stall_cnt' = IF ~InWaitState THEN 0
                  ELSE IF stall_cnt < Limit THEN stall_cnt + 1 ELSE stall_cnt
  /\ engine' = IF engine.busy /\ engine.age <= EngineTicks
               THEN [engine EXCEPT !.age = @ + 1] ELSE engine
  /\ UNCHANGED <<state, message, indices, wr, rd, uart, down, mem, dma>>

-----------------------------------------------------------------------------
MessageTypeOK ==
  /\ header_buf \in [0 .. HeaderLen - 1 -> Symbols] /\ header_idx \in 0 .. HeaderLen - 1
  /\ payload_buf \in [0 .. BufLen - 1 -> Symbols]
  /\ payload_idx \in 0 .. BufLen - 1 /\ payload_len \in Symbols
  /\ ack_byte_idx \in 0 .. HeaderLen - 1 /\ resp_hdr_idx \in 0 .. HeaderLen - 1

TransferTypeOK ==
  /\ wr \in [base : Nat, remaining : Nat]
  /\ rd \in [base : Nat, total : Symbols, requested : Nat, sent : Nat,
             have : BOOLEAN, latch : Symbols]
  /\ stall_cnt \in 0 .. WatchdogLimitNmc

LineTypeOK ==
  /\ tx_valid \in BOOLEAN /\ tx_data \in Symbols
  /\ tx_ready \in BOOLEAN /\ tx_busy \in BOOLEAN /\ tx_shift \in Symbols
  /\ down \in Seq(Symbols) /\ up \in Seq(Symbols)

BoardTypeOK ==
  /\ mem \in [0 .. MemLen - 1 -> Symbols]
  /\ dma \in Nat \cup {NoRead}
  /\ engine \in [busy : BOOLEAN, in : Symbols, out : Symbols, age : 0 .. EngineTicks + 1]

ControllerTypeOK ==
  /\ state \in States
  /\ MessageTypeOK /\ TransferTypeOK /\ LineTypeOK /\ BoardTypeOK

\* No register of an answered or aborted message survives into the next one
\* (edgecoh_controller.v:25: "leftover values cannot corrupt the next message's
\* interpretation"): in S_IDLE all are clear, the latch of a DATA_READ
\* included, which the watchdog does not clear, and no DMA byte is on its way.
IdleIsClean ==
  state = "idle" =>
    /\ header_idx = 0 /\ payload_idx = 0 /\ payload_len = 0
    /\ ack_byte_idx = 0 /\ resp_hdr_idx = 0
    /\ wr.remaining = 0
    /\ rd.total = 0 /\ rd.requested = 0 /\ rd.sent = 0
    /\ ~rd.have /\ dma = NoRead

\* An engine that can still finish is one the controller is waiting for: its
\* done pulse is never missed and never taken for another operation's.
EngineAwaited ==
  engine.busy /\ engine.age <= EngineTicks => state = "wait_nmc"
=============================================================================
