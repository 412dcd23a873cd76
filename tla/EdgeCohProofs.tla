---------------------------- MODULE EdgeCohProofs ----------------------------
(***************************************************************************)
(* Theorems about EdgeCohLink, for every size of buffer and memory, every  *)
(* order of the timeouts that ControllerConstantsOK allows, any calls and  *)
(* any number of faults.                                                   *)
(***************************************************************************)
EXTENDS EdgeCohLink, SequenceTheorems, TLAPS

USE DEF HeaderLen, AddrLen

-----------------------------------------------------------------------------
(***************************************************************************)
(* Lemmas about the operators.                                             *)
(***************************************************************************)
LEMMA CellInMemory == \A a \in Nat : Cell(a) \in 0 .. MemLen - 1
  BY ControllerAssumption, Z3 DEF ControllerConstantsOK, Cell

LEMMA ResultIsSymbol == \A n \in Nat : (n + 1) % NValues \in Symbols
  BY ControllerAssumption, Z3 DEF ControllerConstantsOK, Symbols

LEMMA CodesAreSymbols ==
  /\ 0 .. 8 \subseteq Symbols
  /\ Symbols \subseteq Nat
  /\ BufLen \in Nat /\ BufLen > 3
  BY ControllerAssumption DEF ControllerConstantsOK, Symbols, MSG_ERROR

\* Every request is made of symbols.
LEMMA RequestIsSymbols ==
  ASSUME NEW c \in Calls
  PROVE  Request(c) \in Seq(Symbols)
<1>1. CallOK(c)
  BY LinkAssumption DEF LinkConstantsOK
<1>2. /\ c.op \in {"write", "read", "nmc", "barrier", "transfer"}
      /\ c.addr \in Symbols /\ c.len \in Symbols /\ c.nmc_op \in Symbols
      /\ c.out \in Symbols /\ AddrLen + Len(c.data) \in Symbols
      /\ c.data \in Seq(Symbols)
  BY <1>1 DEF CallOK
<1> USE CodesAreSymbols
<1>3. CASE c.op = "write"
  <2>1. <<MSG_DATA_WRITE, 0, AddrLen + Len(c.data), c.addr>> \in Seq(Symbols)
    BY <1>2 DEF MSG_DATA_WRITE
  <2>2. Request(c) = <<MSG_DATA_WRITE, 0, AddrLen + Len(c.data), c.addr>> \o c.data
    BY <1>3 DEF Request
  <2> QED
    BY <2>1, <2>2, <1>2
<1>4. CASE c.op = "read"
  BY <1>2, <1>4 DEF Request, MSG_DATA_READ
<1>5. CASE c.op = "nmc"
  BY <1>2, <1>5 DEF Request, MSG_NMC_EXEC
<1>6. CASE c.op = "barrier"
  BY <1>2, <1>6 DEF Request, MSG_SYNC_BARRIER
<1>7. CASE c.op = "transfer"
  BY <1>2, <1>7 DEF Request, MSG_TRANSFER_OWNERSHIP
<1> QED
  BY <1>2, <1>3, <1>4, <1>5, <1>6, <1>7

\* Taking symbols off either end of a line leaves symbols.
LEMMA PartsAreSymbols ==
  ASSUME NEW s \in Seq(Symbols)
  PROVE  /\ \A m, n \in Int : m >= 1 /\ n <= Len(s) => SubSeq(s, m, n) \in Seq(Symbols)
         /\ s # <<>> => Head(s) \in Symbols /\ Tail(s) \in Seq(Symbols)
<1>1. ASSUME NEW m \in Int, NEW n \in Int, m >= 1, n <= Len(s)
      PROVE  SubSeq(s, m, n) \in Seq(Symbols)
  BY <1>1, SubSeqProperties
<1>2. s # <<>> => Head(s) \in Symbols /\ Tail(s) \in Seq(Symbols)
  OBVIOUS
<1> QED
  BY <1>1, <1>2

Reads(B) == [base : Nat, total : Symbols, requested : Nat, sent : Nat,
             have : B, latch : Symbols]

\* The updates that the actions make to the registers of a DATA_READ.
LEMMA ReadUpdates ==
  ASSUME NEW B, NEW r \in Reads(B), NEW h \in B, NEW n \in Symbols, NEW k \in Nat, NEW b \in Nat
  PROVE  /\ [r EXCEPT !.total = 0, !.requested = 0, !.sent = 0, !.have = h] \in Reads(B)
         /\ [r EXCEPT !.have = h, !.sent = k] \in Reads(B)
         /\ [r EXCEPT !.requested = k] \in Reads(B)
         /\ [r EXCEPT !.have = h, !.latch = n] \in Reads(B)
         /\ [r EXCEPT !.base = b, !.total = n, !.requested = 0, !.sent = 0] \in Reads(B)
<1>1. 0 \in Symbols /\ 0 \in Nat
  BY CodesAreSymbols
<1>2. [r EXCEPT !.total = 0, !.requested = 0, !.sent = 0, !.have = h] \in Reads(B)
  BY <1>1 DEF Reads
<1>3. [r EXCEPT !.have = h, !.sent = k] \in Reads(B)
  BY DEF Reads
<1>4. [r EXCEPT !.requested = k] \in Reads(B)
  BY DEF Reads
<1>5. [r EXCEPT !.have = h, !.latch = n] \in Reads(B)
  BY DEF Reads
<1>6. [r EXCEPT !.base = b, !.total = n, !.requested = 0, !.sent = 0] \in Reads(B)
  BY <1>1 DEF Reads
<1> QED
  BY <1>2, <1>3, <1>4, <1>5, <1>6

LEMMA ReadTypes ==
  TransferTypeOK => /\ rd \in Reads(BOOLEAN)
                    /\ rd.have \in BOOLEAN
                    /\ rd.base \in Nat /\ rd.total \in Symbols
                    /\ rd.requested \in Nat /\ rd.sent \in Nat /\ rd.latch \in Symbols
  BY DEF TransferTypeOK, Reads

-----------------------------------------------------------------------------
(***************************************************************************)
(* Type correctness of the pieces the controller's actions share.          *)
(***************************************************************************)
LEMMA IdleTypes ==
  ASSUME MessageTypeOK, TransferTypeOK, NEW have \in BOOLEAN, ToIdle(have)
  PROVE  /\ state' \in States
         /\ MessageTypeOK'
         /\ wr' \in [base : Nat, remaining : Nat]
         /\ rd' \in Reads(BOOLEAN)
<1> USE CodesAreSymbols
<1>1. state' \in States
  BY DEF ToIdle, Goto, States
<1>2. MessageTypeOK'
  BY SMTT(20) DEF ToIdle, MessageTypeOK
<1>3. wr' \in [base : Nat, remaining : Nat]
  BY DEF ToIdle, TransferTypeOK
<1>4. rd' \in Reads(BOOLEAN)
  <2>1. rd' = [rd EXCEPT !.total = 0, !.requested = 0, !.sent = 0, !.have = have]
    BY DEF ToIdle
  <2> QED
    BY <2>1, ReadTypes, ReadUpdates
<1> QED
  BY <1>1, <1>2, <1>3, <1>4

LEMMA UartTypes ==
  ASSUME LineTypeOK, Uart
  PROVE  /\ tx_ready' \in BOOLEAN /\ tx_busy' \in BOOLEAN
         /\ tx_shift' \in Symbols /\ up' \in Seq(Symbols)
  BY DEF LineTypeOK, Uart

LEMMA ClockTypes ==
  ASSUME LineTypeOK, TransferTypeOK, NEW event \in BOOLEAN, Clock(event)
  PROVE  /\ stall_cnt' \in {0, stall_cnt}
         /\ stall_cnt' \in 0 .. WatchdogLimitNmc
         /\ tx_ready' \in BOOLEAN /\ tx_busy' \in BOOLEAN
         /\ tx_shift' \in Symbols /\ up' \in Seq(Symbols)
<1>1. Uart
  BY DEF Clock
<1>2. stall_cnt' = 0 \/ stall_cnt' = stall_cnt
  BY DEF Clock
<1>3. stall_cnt' \in 0 .. WatchdogLimitNmc
  BY <1>2, ControllerAssumption DEF TransferTypeOK, ControllerConstantsOK
<1> QED
  BY <1>1, <1>2, <1>3, UartTypes

LEMMA ReceivedTypes ==
  ASSUME LineTypeOK, TransferTypeOK, Received
  PROVE  /\ Head(down) \in Symbols
         /\ stall_cnt' \in 0 .. WatchdogLimitNmc
         /\ LineTypeOK'
<1>1. down \in Seq(Symbols) /\ down # <<>>
  BY DEF LineTypeOK, Received
<1>2. Head(down) \in Symbols /\ Tail(down) \in Seq(Symbols)
  BY <1>1, PartsAreSymbols
<1>3. Clock(TRUE) /\ NoByte
  BY DEF Received
<1>4. /\ stall_cnt' \in 0 .. WatchdogLimitNmc
      /\ tx_ready' \in BOOLEAN /\ tx_busy' \in BOOLEAN
      /\ tx_shift' \in Symbols /\ up' \in Seq(Symbols)
  BY <1>3, ClockTypes
<1>5. down' \in Seq(Symbols) /\ tx_valid' \in BOOLEAN /\ tx_data' \in Symbols
  BY <1>2, <1>3 DEF Received, NoByte, LineTypeOK
<1> QED
  BY <1>2, <1>4, <1>5 DEF LineTypeOK

LEMMA SendTypes ==
  ASSUME LineTypeOK, TransferTypeOK, NEW event \in BOOLEAN, Clock(event), UNCHANGED down,
         tx_valid' \in BOOLEAN, tx_data' \in Symbols
  PROVE  LineTypeOK' /\ stall_cnt' \in 0 .. WatchdogLimitNmc
<1>1. /\ stall_cnt' \in 0 .. WatchdogLimitNmc
      /\ tx_ready' \in BOOLEAN /\ tx_busy' \in BOOLEAN
      /\ tx_shift' \in Symbols /\ up' \in Seq(Symbols)
  BY ClockTypes
<1>2. down' \in Seq(Symbols)
  BY DEF LineTypeOK
<1> QED
  BY <1>1, <1>2 DEF LineTypeOK

LEMMA AnswerTypes ==
  ASSUME MessageTypeOK, TransferTypeOK
  PROVE  /\ \A i \in 0 .. HeaderLen - 1 : AckByte(i) \in Symbols
         /\ \A i \in 0 .. HeaderLen - 1 : ResponseByte(i) \in Symbols
<1>1. header_buf[1] \in Symbols /\ rd.total \in Symbols
  BY DEF MessageTypeOK, TransferTypeOK
<1>2. MSG_ACK \in Symbols /\ MSG_DATA_RESPONSE \in Symbols /\ 0 \in Symbols
  BY CodesAreSymbols DEF MSG_ACK, MSG_DATA_RESPONSE
<1>3. ASSUME NEW i \in 0 .. 2, NEW a \in Symbols, NEW b \in Symbols, NEW c \in Symbols
      PROVE  <<a, b, c>>[i + 1] \in Symbols
  BY <1>3
<1> QED
  BY <1>1, <1>2, <1>3 DEF AckByte, ResponseByte

LEMMA SendDataTypes ==
  ASSUME MessageTypeOK, TransferTypeOK, state \in States, NEW b \in Symbols, SendData(b)
  PROVE  /\ state' \in States /\ MessageTypeOK'
         /\ wr' \in [base : Nat, remaining : Nat]
         /\ rd' \in Reads(BOOLEAN)
         /\ tx_valid' \in BOOLEAN /\ tx_data' \in Symbols
<1>1. tx_valid' \in BOOLEAN /\ tx_data' \in Symbols
  BY DEF SendData, Present
<1>2. CASE rd.sent + 1 >= rd.total
  <2>1. ToIdle(FALSE)
    BY <1>2 DEF SendData
  <2> QED
    BY <1>1, <2>1, IdleTypes
<1>3. CASE ~(rd.sent + 1 >= rd.total)
  <2>1. state' \in States
    BY <1>3 DEF SendData, Goto, States
  <2>2. MessageTypeOK' /\ wr' \in [base : Nat, remaining : Nat]
    BY <1>3 DEF SendData, MessageTypeOK, TransferTypeOK, message, indices
  <2>3. rd' \in Reads(BOOLEAN)
    <3>1. rd' = [rd EXCEPT !.have = FALSE, !.sent = rd.sent + 1]
      BY <1>3 DEF SendData
    <3>2. rd.sent + 1 \in Nat
      BY ReadTypes
    <3>3. FALSE \in BOOLEAN
      OBVIOUS
    <3> HIDE DEF Reads
    <3> QED
      BY <3>1, <3>2, <3>3, ReadTypes, ReadUpdates, CodesAreSymbols
  <2> QED
    BY <1>1, <2>1, <2>2, <2>3
<1> QED
  BY <1>2, <1>3

-----------------------------------------------------------------------------
(***************************************************************************)
(* Every step of the controller preserves types.                           *)
(***************************************************************************)
LEMMA TransferPrimed ==
  ASSUME wr' \in [base : Nat, remaining : Nat], rd' \in Reads(BOOLEAN),
         stall_cnt' \in 0 .. WatchdogLimitNmc
  PROVE  TransferTypeOK'
  BY DEF TransferTypeOK, Reads

LEMMA ReceivingTypes ==
  ASSUME ControllerTypeOK, IdleByte \/ HeaderByte \/ PayloadByte \/ LostByte \/ DmaWriteByte
  PROVE  ControllerTypeOK'
<1> USE CodesAreSymbols
<1>0. MessageTypeOK /\ TransferTypeOK /\ LineTypeOK /\ BoardTypeOK /\ state \in States
  BY DEF ControllerTypeOK
<1>1. Received => Head(down) \in Symbols /\ stall_cnt' \in 0 .. WatchdogLimitNmc /\ LineTypeOK'
  BY <1>0, ReceivedTypes
<1>2. wr \in [base : Nat, remaining : Nat] /\ rd \in Reads(BOOLEAN)
  BY <1>0, ReadTypes DEF TransferTypeOK
<1>3. CASE IdleByte
  <2>1. state' \in States
    BY <1>3 DEF IdleByte, Goto, States
  <2>2. MessageTypeOK'
    BY <1>0, <1>1, <1>3 DEF IdleByte, MessageTypeOK, indices
  <2>3. TransferTypeOK'
    BY <1>1, <1>2, <1>3, TransferPrimed DEF IdleByte
  <2>4. LineTypeOK' /\ BoardTypeOK'
    BY <1>0, <1>1, <1>3 DEF IdleByte, BoardTypeOK, board
  <2> QED
    BY <2>1, <2>2, <2>3, <2>4 DEF ControllerTypeOK
<1>4. CASE HeaderByte
  <2>1. state' \in States
    BY <1>0, <1>4 DEF HeaderByte, Goto, States
  <2>2. header_buf' \in [0 .. HeaderLen - 1 -> Symbols]
    BY <1>0, <1>1, <1>4 DEF HeaderByte, MessageTypeOK
  <2>3. /\ header_idx' \in 0 .. HeaderLen - 1
        /\ payload_idx' \in 0 .. BufLen - 1 /\ payload_len' \in Symbols
    BY <1>0, <1>1, <1>4 DEF HeaderByte, MessageTypeOK
  <2>4. MessageTypeOK'
    BY <1>0, <1>4, <2>2, <2>3 DEF HeaderByte, MessageTypeOK, indices
  <2>5. TransferTypeOK'
    BY <1>1, <1>2, <1>4, TransferPrimed DEF HeaderByte
  <2>6. LineTypeOK' /\ BoardTypeOK'
    BY <1>0, <1>1, <1>4 DEF HeaderByte, BoardTypeOK, board
  <2> QED
    BY <2>1, <2>4, <2>5, <2>6 DEF ControllerTypeOK
<1>5. CASE PayloadByte
  <2>1. state' \in States
    BY <1>0, <1>5 DEF PayloadByte, Goto, States
  <2>2. payload_buf' \in [0 .. BufLen - 1 -> Symbols]
    BY <1>0, <1>1, <1>5 DEF PayloadByte, MessageTypeOK
  <2>3. payload_idx' \in 0 .. BufLen - 1
    BY <1>0, <1>5 DEF PayloadByte, PayloadComplete, MessageTypeOK
  <2>4. MessageTypeOK'
    BY <1>0, <1>5, <2>2, <2>3 DEF PayloadByte, MessageTypeOK, indices
  <2>5. TransferTypeOK'
    BY <1>1, <1>2, <1>5, TransferPrimed DEF PayloadByte
  <2>6. LineTypeOK' /\ BoardTypeOK'
    BY <1>0, <1>1, <1>5 DEF PayloadByte, BoardTypeOK, board
  <2> QED
    BY <2>1, <2>4, <2>5, <2>6 DEF ControllerTypeOK
<1>6. CASE LostByte
  <2>1. down' \in Seq(Symbols)
    BY <1>0, <1>6, PartsAreSymbols DEF LostByte, LineTypeOK
  <2>2. LineTypeOK'
    BY <1>0, <1>6, <2>1 DEF LostByte, LineTypeOK, uart
  <2>3. MessageTypeOK' /\ BoardTypeOK' /\ state' \in States
    BY <1>0, <1>6 DEF LostByte, MessageTypeOK, BoardTypeOK, message, indices, board
  <2>4. TransferTypeOK'
    BY <1>2, <1>6, TransferPrimed, ControllerAssumption DEF LostByte, ControllerConstantsOK
  <2> QED
    BY <2>2, <2>3, <2>4 DEF ControllerTypeOK
<1>7. CASE DmaWriteByte
  <2>1. state' \in States
    BY <1>0, <1>7 DEF DmaWriteByte, Goto, States
  <2>2. MessageTypeOK'
    BY <1>0, <1>7 DEF DmaWriteByte, MessageTypeOK, message
  <2>3. wr' \in [base : Nat, remaining : Nat]
    BY <1>2, <1>7 DEF DmaWriteByte
  <2>4. TransferTypeOK'
    BY <1>1, <1>2, <1>7, <2>3, TransferPrimed DEF DmaWriteByte
  <2>5. mem' \in [0 .. MemLen - 1 -> Symbols]
    BY <1>0, <1>1, <1>7 DEF DmaWriteByte, BoardTypeOK
  <2>6. LineTypeOK' /\ BoardTypeOK'
    BY <1>0, <1>1, <1>7, <2>5 DEF DmaWriteByte, BoardTypeOK
  <2> QED
    BY <2>1, <2>2, <2>4, <2>6 DEF ControllerTypeOK
<1> QED
  BY <1>3, <1>4, <1>5, <1>6, <1>7

LEMMA DispatchTypes ==
  ASSUME ControllerTypeOK, DispatchAck \/ DispatchNmc \/ DispatchWrite \/ DispatchRead
  PROVE  ControllerTypeOK'
<1> USE CodesAreSymbols
<1>0. MessageTypeOK /\ TransferTypeOK /\ LineTypeOK /\ BoardTypeOK /\ state \in States
  BY DEF ControllerTypeOK
<1>1. PICK types : Dispatch(types)
  BY DEF DispatchAck, DispatchNmc, DispatchWrite, DispatchRead
<1>2. LineTypeOK' /\ stall_cnt' \in 0 .. WatchdogLimitNmc
  <2>1. Clock(FALSE) /\ UNCHANGED down /\ NoByte
    BY <1>1 DEF Dispatch
  <2>2. tx_valid' \in BOOLEAN /\ tx_data' \in Symbols
    BY <1>0, <2>1 DEF NoByte, LineTypeOK
  <2> QED
    BY <1>0, <2>1, <2>2, SendTypes
<1>3. UNCHANGED message
  BY <1>1 DEF Dispatch
<1>4. wr \in [base : Nat, remaining : Nat] /\ rd \in Reads(BOOLEAN)
  BY <1>0, ReadTypes DEF TransferTypeOK
<1>5. /\ payload_buf[0] \in Symbols /\ payload_buf[1] \in Symbols
      /\ payload_buf[2] \in Symbols /\ payload_len \in Symbols
  BY <1>0 DEF MessageTypeOK
<1>6. state' \in States
  BY DEF DispatchAck, DispatchNmc, DispatchWrite, DispatchRead, Goto, States
<1>7. MessageTypeOK'
  BY <1>0, <1>3, SMTT(20) DEF DispatchAck, DispatchNmc, DispatchWrite, DispatchRead, MessageTypeOK,
                    message, indices
<1>8. CASE DispatchAck
  <2>1. TransferTypeOK' /\ BoardTypeOK'
    BY <1>0, <1>2, <1>4, <1>8, TransferPrimed DEF DispatchAck, BoardTypeOK, board
  <2> QED
    BY <1>2, <1>6, <1>7, <2>1 DEF ControllerTypeOK
<1>9. CASE DispatchNmc
  <2>1. TransferTypeOK'
    BY <1>2, <1>4, <1>9, TransferPrimed DEF DispatchNmc
  <2>2. engine' \in [busy : BOOLEAN, in : Symbols, out : Symbols, age : 0 .. EngineTicks + 1]
    <3>1. 0 \in 0 .. EngineTicks + 1
      BY ControllerAssumption DEF ControllerConstantsOK
    <3> QED
      BY <1>0, <1>5, <1>9, <3>1 DEF DispatchNmc, BoardTypeOK
  <2>3. BoardTypeOK'
    BY <1>0, <1>9, <2>2 DEF DispatchNmc, BoardTypeOK
  <2> QED
    BY <1>2, <1>6, <1>7, <2>1, <2>3 DEF ControllerTypeOK
<1>10. CASE DispatchWrite
  <2>1. wr' \in [base : Nat, remaining : Nat]
    <3>1. payload_len \in Nat /\ payload_buf[0] \in Nat
      BY <1>5
    <3>2. (IF payload_len > AddrLen THEN payload_len - AddrLen ELSE 0) \in Nat
      BY <3>1
    <3> QED
      BY <1>10, <3>1, <3>2 DEF DispatchWrite
  <2>2. TransferTypeOK' /\ BoardTypeOK'
    BY <1>0, <1>2, <1>4, <1>10, <2>1, TransferPrimed DEF DispatchWrite, BoardTypeOK, board
  <2> QED
    BY <1>2, <1>6, <1>7, <2>2 DEF ControllerTypeOK
<1>11. CASE DispatchRead
  <2>1. rd' \in Reads(BOOLEAN)
    <3>1. rd' = [rd EXCEPT !.base = payload_buf[0], !.total = payload_buf[1],
                           !.requested = 0, !.sent = 0]
      BY <1>11 DEF DispatchRead
    <3>2. rd.have \in BOOLEAN /\ payload_buf[0] \in Nat
      BY <1>0, <1>5, ReadTypes
    <3> QED
      BY <3>1, <3>2, <1>4, <1>5, ReadUpdates
  <2>2. TransferTypeOK' /\ BoardTypeOK'
    BY <1>0, <1>2, <1>4, <1>11, <2>1, TransferPrimed DEF DispatchRead, BoardTypeOK, board
  <2> QED
    BY <1>2, <1>6, <1>7, <2>2 DEF ControllerTypeOK
<1> QED
  BY <1>8, <1>9, <1>10, <1>11

LEMMA AnsweringTypes ==
  ASSUME ControllerTypeOK,
         \/ SendAck \/ AckWait \/ SendRespHdr \/ DmaReadReq \/ DmaReadValid \/ DmaReadSend
         \/ WaitClock \/ Watchdog
  PROVE  ControllerTypeOK'
<1> USE CodesAreSymbols
<1>0. MessageTypeOK /\ TransferTypeOK /\ LineTypeOK /\ BoardTypeOK /\ state \in States
  BY DEF ControllerTypeOK
<1>1. /\ wr \in [base : Nat, remaining : Nat] /\ rd \in Reads(BOOLEAN)
      /\ rd.have \in BOOLEAN /\ rd.latch \in Symbols
      /\ rd.base \in Nat /\ rd.requested \in Nat
  BY <1>0, ReadTypes DEF TransferTypeOK
<1>2. ASSUME NEW event \in BOOLEAN, Clock(event), UNCHANGED down,
             tx_valid' \in BOOLEAN, tx_data' \in Symbols
      PROVE  LineTypeOK' /\ stall_cnt' \in 0 .. WatchdogLimitNmc
  BY <1>0, <1>2, SendTypes
<1>3. NoByte => tx_valid' \in BOOLEAN /\ tx_data' \in Symbols
  BY <1>0 DEF NoByte, LineTypeOK
<1>4. ASSUME NEW have \in BOOLEAN, ToIdle(have)
      PROVE  /\ state' \in States /\ MessageTypeOK'
             /\ wr' \in [base : Nat, remaining : Nat] /\ rd' \in Reads(BOOLEAN)
  BY <1>0, <1>4, IdleTypes
<1>5. FALSE \in BOOLEAN /\ TRUE \in BOOLEAN
  OBVIOUS
<1>6. \A a \in Nat : mem[Cell(a)] \in Symbols
  BY <1>0, CellInMemory DEF BoardTypeOK
<1>7. CASE SendAck
  <2>1. tx_data' \in Symbols
    BY <1>0, <1>7, AnswerTypes DEF SendAck, MessageTypeOK
  <2>2. tx_valid' \in BOOLEAN
    BY <1>7 DEF SendAck
  <2>3. LineTypeOK' /\ stall_cnt' \in 0 .. WatchdogLimitNmc
    BY <1>2, <1>5, <1>7, <2>1, <2>2 DEF SendAck
  <2>4. state' \in States
    BY <1>7 DEF SendAck, Goto, States
  <2>5. MessageTypeOK' /\ BoardTypeOK'
    BY <1>0, <1>7 DEF SendAck, MessageTypeOK, BoardTypeOK, message, indices, board
  <2>6. TransferTypeOK'
    BY <1>1, <1>7, <2>3, TransferPrimed DEF SendAck
  <2> QED
    BY <2>3, <2>4, <2>5, <2>6 DEF ControllerTypeOK
<1>8. CASE AckWait
  <2>1. LineTypeOK' /\ stall_cnt' \in 0 .. WatchdogLimitNmc
    BY <1>2, <1>3, <1>5, <1>8 DEF AckWait
  <2>2. BoardTypeOK'
    BY <1>0, <1>8 DEF AckWait, BoardTypeOK, board
  <2>3. CASE ack_byte_idx = HeaderLen - 1
    <3>1. ToIdle(rd.have)
      BY <1>8, <2>3 DEF AckWait
    <3> QED
      BY <1>1, <1>4, <2>1, <2>2, <3>1, TransferPrimed DEF ControllerTypeOK
  <2>4. CASE ack_byte_idx # HeaderLen - 1
    <3>1. state' \in States
      BY <1>8, <2>4 DEF AckWait, Goto, States
    <3>2. MessageTypeOK'
      BY <1>0, <1>8, <2>4 DEF AckWait, MessageTypeOK, message
    <3>3. TransferTypeOK'
      BY <1>1, <1>8, <2>1, <2>4, TransferPrimed DEF AckWait
    <3> QED
      BY <2>1, <2>2, <3>1, <3>2, <3>3 DEF ControllerTypeOK
  <2> QED
    BY <2>3, <2>4
<1>9. CASE SendRespHdr
  <2>1. tx_valid' \in BOOLEAN /\ tx_data' \in Symbols
    BY <1>0, <1>9, AnswerTypes DEF SendRespHdr, Present, MessageTypeOK
  <2>2. LineTypeOK' /\ stall_cnt' \in 0 .. WatchdogLimitNmc
    BY <1>2, <1>5, <1>9, <2>1 DEF SendRespHdr
  <2>3. state' \in States
    BY <1>9 DEF SendRespHdr, Goto, States
  <2>4. resp_hdr_idx' \in 0 .. HeaderLen - 1
    BY <1>0, <1>9, Z3 DEF SendRespHdr, MessageTypeOK
  <2>5. MessageTypeOK' /\ BoardTypeOK'
    BY <1>0, <1>9, <2>4 DEF SendRespHdr, MessageTypeOK, BoardTypeOK, message, board
  <2>6. TransferTypeOK'
    BY <1>1, <1>9, <2>2, TransferPrimed DEF SendRespHdr
  <2> QED
    BY <2>2, <2>3, <2>5, <2>6 DEF ControllerTypeOK
<1>10. CASE DmaReadReq
  <2>1. LineTypeOK' /\ stall_cnt' \in 0 .. WatchdogLimitNmc
    BY <1>2, <1>3, <1>5, <1>10 DEF DmaReadReq
  <2>2. BoardTypeOK'
    <3>1. rd.base + rd.requested \in Nat
      BY <1>1
    <3>2. dma' = rd.base + rd.requested \/ dma' = dma
      BY <1>10 DEF DmaReadReq
    <3>3. dma' \in Nat \cup {NoRead}
      BY <1>0, <3>1, <3>2 DEF BoardTypeOK
    <3> QED
      BY <1>0, <1>10, <3>3 DEF DmaReadReq, BoardTypeOK
  <2>3. CASE rd.requested < rd.total
    <3>1. state' \in States
      BY <1>10, <2>3 DEF DmaReadReq, Goto, States
    <3>2. MessageTypeOK'
      BY <1>0, <1>10, <2>3 DEF DmaReadReq, MessageTypeOK, message, indices
    <3>3. rd' = [rd EXCEPT !.requested = rd.requested + 1] /\ UNCHANGED wr
      BY <1>10, <2>3 DEF DmaReadReq
    <3>4. rd.requested + 1 \in Nat
      BY <1>1
    <3>5. rd' \in Reads(BOOLEAN)
      BY <1>1, <1>5, <3>3, <3>4, ReadUpdates
    <3> QED
      BY <1>1, <2>1, <2>2, <3>1, <3>2, <3>3, <3>5, TransferPrimed DEF ControllerTypeOK
  <2>4. CASE ~(rd.requested < rd.total)
    <3>1. ToIdle(rd.have)
      BY <1>10, <2>4 DEF DmaReadReq
    <3> QED
      BY <1>1, <1>4, <2>1, <2>2, <3>1, TransferPrimed DEF ControllerTypeOK
  <2> QED
    BY <2>3, <2>4
<1>11. CASE DmaReadValid
  <2>1. dma \in Nat
    BY <1>0, <1>11 DEF DmaReadValid, BoardTypeOK
  <2>2. BoardTypeOK'
    BY <1>0, <1>11 DEF DmaReadValid, BoardTypeOK
  <2>3. CASE TxFree
    <3>1. PICK b \in Symbols : SendData(b)
      BY <1>1, <1>6, <1>11, <2>1, <2>3 DEF DmaReadValid
    <3>2. /\ state' \in States /\ MessageTypeOK'
          /\ wr' \in [base : Nat, remaining : Nat] /\ rd' \in Reads(BOOLEAN)
          /\ tx_valid' \in BOOLEAN /\ tx_data' \in Symbols
      BY <1>0, <3>1, SendDataTypes
    <3>3. LineTypeOK' /\ stall_cnt' \in 0 .. WatchdogLimitNmc
      BY <1>2, <1>5, <1>11, <3>2 DEF DmaReadValid
    <3> QED
      BY <2>2, <3>2, <3>3, TransferPrimed DEF ControllerTypeOK
  <2>4. CASE ~TxFree
    <3>1. rd' = [rd EXCEPT !.have = TRUE, !.latch = mem[Cell(dma)]] /\ UNCHANGED wr
      BY <1>11, <2>4 DEF DmaReadValid
    <3>2. rd' \in Reads(BOOLEAN)
      BY <1>1, <1>5, <1>6, <2>1, <3>1, ReadUpdates
    <3>3. LineTypeOK' /\ stall_cnt' \in 0 .. WatchdogLimitNmc
      BY <1>2, <1>3, <1>5, <1>11, <2>4 DEF DmaReadValid
    <3>4. MessageTypeOK' /\ state' \in States
      BY <1>0, <1>11, <2>4 DEF DmaReadValid, MessageTypeOK, message, indices
    <3> QED
      BY <1>1, <2>2, <3>1, <3>2, <3>3, <3>4, TransferPrimed DEF ControllerTypeOK
  <2> QED
    BY <2>3, <2>4
<1>12. CASE DmaReadSend
  <2>1. SendData(rd.latch)
    BY <1>12 DEF DmaReadSend
  <2>2. /\ state' \in States /\ MessageTypeOK'
        /\ wr' \in [base : Nat, remaining : Nat] /\ rd' \in Reads(BOOLEAN)
        /\ tx_valid' \in BOOLEAN /\ tx_data' \in Symbols
    BY <1>0, <1>1, <2>1, SendDataTypes
  <2>3. LineTypeOK' /\ stall_cnt' \in 0 .. WatchdogLimitNmc
    BY <1>2, <1>5, <1>12, <2>2 DEF DmaReadSend
  <2>4. BoardTypeOK'
    BY <1>0, <1>12 DEF DmaReadSend, BoardTypeOK, board
  <2> QED
    BY <2>2, <2>3, <2>4, TransferPrimed DEF ControllerTypeOK
<1>13. CASE WaitClock
  <2>1. LineTypeOK' /\ stall_cnt' \in 0 .. WatchdogLimitNmc
    BY <1>2, <1>3, <1>5, <1>13 DEF WaitClock
  <2>2. MessageTypeOK' /\ BoardTypeOK' /\ state' \in States
    BY <1>0, <1>13 DEF WaitClock, MessageTypeOK, BoardTypeOK, message, indices, board
  <2>3. TransferTypeOK'
    BY <1>1, <1>13, <2>1, TransferPrimed DEF WaitClock
  <2> QED
    BY <2>1, <2>2, <2>3 DEF ControllerTypeOK
<1>14. CASE Watchdog
  <2>1. /\ state' \in States /\ MessageTypeOK'
        /\ wr' \in [base : Nat, remaining : Nat] /\ rd' \in Reads(BOOLEAN)
    BY <1>1, <1>4, <1>14 DEF Watchdog
  <2>2. stall_cnt' \in 0 .. WatchdogLimitNmc
    BY <1>14, ControllerAssumption DEF Watchdog, ControllerConstantsOK
  <2>3. LineTypeOK'
    BY <1>0, <1>3, <1>14, UartTypes DEF Watchdog, LineTypeOK
  <2>4. BoardTypeOK'
    BY <1>0, <1>14 DEF Watchdog, BoardTypeOK, board
  <2> QED
    BY <2>1, <2>2, <2>3, <2>4, TransferPrimed DEF ControllerTypeOK
<1> QED
  BY <1>7, <1>8, <1>9, <1>10, <1>11, <1>12, <1>13, <1>14

\* The engine, the transmitter and time preserve types too.
LEMMA SurroundingsTypes ==
  ASSUME ControllerTypeOK, EngineDone \/ UartDone \/ BoardTick
  PROVE  ControllerTypeOK'
<1> USE CodesAreSymbols
<1>0. MessageTypeOK /\ TransferTypeOK /\ LineTypeOK /\ BoardTypeOK /\ state \in States
  BY DEF ControllerTypeOK
<1>1. wr \in [base : Nat, remaining : Nat] /\ rd \in Reads(BOOLEAN)
  BY <1>0, ReadTypes DEF TransferTypeOK
<1>2. CASE EngineDone
  <2>1. (mem[Cell(engine.in)] + 1) % NValues \in Symbols
    BY <1>0, CellInMemory, ResultIsSymbol DEF BoardTypeOK
  <2>2. mem' \in [0 .. MemLen - 1 -> Symbols]
    BY <1>0, <1>2, <2>1 DEF EngineDone, BoardTypeOK
  <2>3. engine' \in [busy : BOOLEAN, in : Symbols, out : Symbols, age : 0 .. EngineTicks + 1]
    BY <1>2, ControllerAssumption DEF EngineDone, Idle, ControllerConstantsOK
  <2>4. BoardTypeOK'
    BY <1>0, <1>2, <2>2, <2>3 DEF EngineDone, BoardTypeOK
  <2>5. state' \in States /\ MessageTypeOK'
    BY <1>0, <1>2 DEF EngineDone, Goto, States, MessageTypeOK, message
  <2>6. LineTypeOK'
    BY <1>0, <1>2 DEF EngineDone, LineTypeOK, uart
  <2>7. TransferTypeOK'
    BY <1>1, <1>2, TransferPrimed, ControllerAssumption DEF EngineDone, ControllerConstantsOK
  <2> QED
    BY <2>4, <2>5, <2>6, <2>7 DEF ControllerTypeOK
<1>3. CASE UartDone
  <2>1. LineTypeOK'
    <3>1. up \in Seq(Symbols) /\ tx_shift \in Symbols
      BY <1>0 DEF LineTypeOK
    <3>2. Append(up, tx_shift) \in Seq(Symbols)
      BY <3>1
    <3>3. up' \in Seq(Symbols)
      BY <1>3, <3>1, <3>2 DEF UartDone
    <3>4. tx_busy' \in BOOLEAN /\ UNCHANGED <<tx_valid, tx_data, tx_ready, tx_shift, down>>
      BY <1>3 DEF UartDone
    <3> QED
      BY <1>0, <3>3, <3>4 DEF LineTypeOK
  <2>2. state' \in States /\ MessageTypeOK' /\ BoardTypeOK'
    BY <1>0, <1>3 DEF UartDone, MessageTypeOK, BoardTypeOK, message, indices, board
  <2>3. TransferTypeOK'
    BY <1>0, <1>3 DEF UartDone, TransferTypeOK
  <2> QED
    BY <2>1, <2>2, <2>3 DEF ControllerTypeOK
<1>4. CASE BoardTick
  <2>1. stall_cnt' \in 0 .. WatchdogLimitNmc
    BY <1>0, <1>4, ControllerAssumption DEF BoardTick, TransferTypeOK, Limit, ControllerConstantsOK
  <2>2. TransferTypeOK'
    BY <1>1, <1>4, <2>1, TransferPrimed DEF BoardTick
  <2>3. engine' \in [busy : BOOLEAN, in : Symbols, out : Symbols, age : 0 .. EngineTicks + 1]
    <3>1. CASE engine.busy /\ engine.age <= EngineTicks
      <4>1. engine.age + 1 \in 0 .. EngineTicks + 1
        BY <1>0, <3>1, ControllerAssumption, SMTT(20) DEF BoardTypeOK, ControllerConstantsOK
      <4> QED
        BY <1>0, <1>4, <3>1, <4>1 DEF BoardTick, BoardTypeOK
    <3>2. CASE ~(engine.busy /\ engine.age <= EngineTicks)
      BY <1>0, <1>4, <3>2 DEF BoardTick, BoardTypeOK
    <3> QED
      BY <3>1, <3>2
  <2>4. BoardTypeOK'
    BY <1>0, <1>4, <2>3 DEF BoardTick, BoardTypeOK
  <2>5. state' \in States /\ MessageTypeOK' /\ LineTypeOK'
    BY <1>0, <1>4 DEF BoardTick, MessageTypeOK, LineTypeOK, message, indices, uart
  <2> QED
    BY <2>2, <2>4, <2>5 DEF ControllerTypeOK
<1> QED
  BY <1>2, <1>3, <1>4

-----------------------------------------------------------------------------
(***************************************************************************)
(* Type correctness of the whole.                                          *)
(***************************************************************************)
HostTypeOK ==
  /\ call \in Calls /\ phase \in {"closed", "header", "payload", "opening"}
  /\ waited \in 0 .. HostTimeout
  /\ answer \in Seq(Symbols) /\ (phase # "closed" => Len(answer) <= call.len)
  /\ verdict \in {"none", "ok", "failed"}
  /\ ran \in BOOLEAN
  /\ faults \in 0 .. MaxFaults

\* A step that only moves symbols on the line.
LEMMA LineOnly ==
  ASSUME ControllerTypeOK, down' \in Seq(Symbols), up' \in Seq(Symbols),
         UNCHANGED <<state, message, indices, wr, rd, stall_cnt, tx_valid, tx_data,
                     tx_ready, tx_busy, tx_shift, board>>
  PROVE  ControllerTypeOK'
<1>1. MessageTypeOK'
  BY DEF ControllerTypeOK, MessageTypeOK, message, indices
<1>2. TransferTypeOK'
  BY DEF ControllerTypeOK, TransferTypeOK
<1>3. LineTypeOK'
  BY DEF ControllerTypeOK, LineTypeOK
<1>4. BoardTypeOK' /\ state' \in States
  BY DEF ControllerTypeOK, BoardTypeOK, board
<1> QED
  BY <1>1, <1>2, <1>3, <1>4 DEF ControllerTypeOK

LEMMA TakeTypes ==
  ASSUME ControllerTypeOK, NEW n \in Nat, Take(n)
  PROVE  ControllerTypeOK'
<1>1. up \in Seq(Symbols) /\ down \in Seq(Symbols)
  BY DEF ControllerTypeOK, LineTypeOK
<1>2. up' \in Seq(Symbols)
  BY <1>1, PartsAreSymbols DEF Take
<1> QED
  BY <1>1, <1>2, LineOnly DEF Take

LEMMA InitTypes == Init => TypeOK
<1> SUFFICES ASSUME Init PROVE TypeOK
  OBVIOUS
<1> USE CodesAreSymbols DEF Init, ControllerInit
<1>1. MessageTypeOK
  BY DEF MessageTypeOK
<1>2. TransferTypeOK
  BY ControllerAssumption DEF TransferTypeOK, ControllerConstantsOK
<1>3. LineTypeOK
  <2>1. tx_valid = FALSE /\ tx_ready = TRUE /\ tx_busy = FALSE
    OBVIOUS
  <2>2. tx_valid \in BOOLEAN /\ tx_ready \in BOOLEAN /\ tx_busy \in BOOLEAN
    BY <2>1
  <2>3. /\ tx_data \in Symbols /\ tx_shift \in Symbols
        /\ down \in Seq(Symbols) /\ up \in Seq(Symbols)
    OBVIOUS
  <2> QED
    BY <2>2, <2>3 DEF LineTypeOK
<1>4. BoardTypeOK
  BY ControllerAssumption DEF BoardTypeOK, Idle, ControllerConstantsOK
<1>5. state \in States
  BY DEF States
<1>6. HostTypeOK
  <2>1. ran = FALSE /\ answer = <<>>
    OBVIOUS
  <2>2. ran \in BOOLEAN
    BY <2>1
  <2>3. waited \in 0 .. HostTimeout /\ faults \in 0 .. MaxFaults
    BY LinkAssumption DEF LinkConstantsOK
  <2>4. answer \in Seq(Symbols)
    BY <2>1
  <2> QED
    BY <2>2, <2>3, <2>4 DEF HostTypeOK
<1> QED
  BY <1>1, <1>2, <1>3, <1>4, <1>5, <1>6 DEF TypeOK, ControllerTypeOK, HostTypeOK

LEMMA NextTypes ==
  ASSUME TypeOK, [Next]_vars
  PROVE  TypeOK'
<1> USE CodesAreSymbols
<1>0. ControllerTypeOK /\ HostTypeOK
  BY DEF TypeOK, HostTypeOK
<1>1. up \in Seq(Symbols) /\ down \in Seq(Symbols) /\ Len(up) \in Nat /\ Len(answer) \in Nat
  BY <1>0 DEF ControllerTypeOK, LineTypeOK, HostTypeOK
<1>2. call.len \in Nat
  BY <1>0, LinkAssumption DEF HostTypeOK, LinkConstantsOK, CallOK
<1>3. SUFFICES ControllerTypeOK' /\ HostTypeOK'
  BY DEF TypeOK, HostTypeOK
<1>4. CASE ControllerStep
  <2>1. HostTypeOK'
    BY <1>0, <1>4 DEF ControllerStep, HostUntouched, host, HostTypeOK
  <2> QED
    BY <1>0, <1>4, <2>1, ReceivingTypes, DispatchTypes, AnsweringTypes
    DEF ControllerStep, ControllerNext
<1>5. CASE TransmitterStep
  <2>1. HostTypeOK'
    BY <1>0, <1>5 DEF TransmitterStep, HostUntouched, host, HostTypeOK
  <2> QED
    BY <1>0, <1>5, <2>1, SurroundingsTypes DEF TransmitterStep
<1>6. CASE EngineStep
  <2>1. HostTypeOK'
    BY <1>0, <1>6 DEF EngineStep, HostTypeOK
  <2> QED
    BY <1>0, <1>6, <2>1, SurroundingsTypes DEF EngineStep
<1>7. CASE RecvHeader
  <2>1. ControllerTypeOK'
    BY <1>0, <1>7, TakeTypes DEF RecvHeader
  <2>2. <<>> \in Seq(Symbols) /\ 0 \in 0 .. HostTimeout
    BY LinkAssumption DEF LinkConstantsOK
  <2>3. HostTypeOK'
    <3>1. /\ UNCHANGED <<call, ran, faults>>
          /\ \/ UNCHANGED answer /\ UNCHANGED verdict /\ phase' = "payload" /\ waited' = 0
             \/ /\ answer' = <<>> /\ verdict' \in {"ok", "failed"}
                /\ phase' = "closed" /\ waited' = 0
      BY <1>7 DEF RecvHeader, Take, Return
    <3>2. phase # "closed"
      BY <1>7 DEF RecvHeader, HeaderArrived
    <3> QED
      BY <1>0, <2>2, <3>1, <3>2 DEF HostTypeOK
  <2> QED
    BY <2>1, <2>3
<1>8. CASE RecvPayload
  <2>1. Remaining \in Int /\ Remaining <= Len(up)
    BY <1>1, <1>2, <1>8 DEF RecvPayload, PayloadArrived, Remaining
  <2>2. SubSeq(up, 1, Remaining) \in Seq(Symbols)
    BY <1>1, <2>1, PartsAreSymbols
  <2>3. answer \o SubSeq(up, 1, Remaining) \in Seq(Symbols)
    BY <1>0, <2>2 DEF HostTypeOK
  <2>4. HostTypeOK'
    BY <1>0, <1>8, <2>3, LinkAssumption DEF RecvPayload, Return, Take, HostTypeOK, LinkConstantsOK
  <2>5. ControllerTypeOK'
    <3>1. Remaining \in Nat /\ Take(Remaining)
      BY <1>0, <1>1, <1>2, <1>8 DEF RecvPayload, PayloadArrived, Remaining, HostTypeOK
    <3> QED
      BY <1>0, <3>1, TakeTypes
  <2> QED
    BY <2>4, <2>5
<1>9. CASE Timeout
  <2>1. ControllerTypeOK'
    BY <1>0, <1>1, <1>9, TakeTypes DEF Timeout
  <2>2. answer \o up \in Seq(Symbols) /\ <<>> \in Seq(Symbols)
    BY <1>0, <1>1 DEF HostTypeOK
  <2>3. HostTypeOK'
    <3>1. 0 \in 0 .. HostTimeout
      BY LinkAssumption DEF LinkConstantsOK
    <3>2. CASE phase = "payload" /\ up # <<>>
      <4>1. /\ answer' = answer \o up /\ waited' = 0
            /\ UNCHANGED <<call, phase, verdict, ran, faults>>
        BY <1>9, <3>2 DEF Timeout, Take
      <4>2. Len(up) < Remaining
        BY <1>1, <1>2, <1>9, <3>2 DEF Timeout, PayloadArrived, Remaining
      <4>3. Len(answer \o up) <= call.len
        BY <1>0, <1>1, <1>2, <4>2 DEF Remaining, HostTypeOK
      <4> QED
        BY <1>0, <2>2, <3>1, <4>1, <4>3 DEF HostTypeOK
    <3>3. CASE ~(phase = "payload" /\ up # <<>>)
      BY <1>0, <1>9, <2>2, <3>1, <3>3 DEF Timeout, Return, Take, HostTypeOK
    <3> QED
      BY <3>2, <3>3
  <2> QED
    BY <2>1, <2>3
<1>10. CASE Tick
  <2>1. waited' \in 0 .. HostTimeout
    BY <1>0, <1>10, LinkAssumption DEF Tick, HostTypeOK, LinkConstantsOK
  <2>2. HostTypeOK'
    BY <1>0, <1>10, <2>1 DEF Tick, HostTypeOK
  <2>3. ControllerTypeOK'
    BY <1>0, <1>10, SurroundingsTypes DEF Tick
  <2> QED
    BY <2>2, <2>3
<1>11. CASE Restart
  <2>1. PICK n \in 0 .. Len(down) : down' = SubSeq(down, 1, n)
    BY <1>11 DEF Restart
  <2>2. down' \in Seq(Symbols)
    BY <1>1, <2>1, PartsAreSymbols
  <2>3. ControllerTypeOK'
    BY <1>0, <1>11, <2>2, LineOnly DEF Restart
  <2>4. HostTypeOK'
    <3>1. answer' = <<>> /\ Len(answer') = 0 /\ waited' = 0 /\ phase' = "opening"
          /\ verdict' = "none" /\ UNCHANGED <<call, ran>>
      BY <1>11 DEF Restart
    <3>2. faults' \in 0 .. MaxFaults /\ 0 \in 0 .. HostTimeout
      BY <1>0, <1>11, LinkAssumption DEF Restart, Fault, HostTypeOK, LinkConstantsOK
    <3>3. Len(answer') <= call'.len
      BY <1>2, <3>1
    <3> QED
      BY <1>0, <3>1, <3>2, <3>3 DEF HostTypeOK
  <2> QED
    BY <2>3, <2>4
<1>15. CASE Opened
  <2>1. ControllerTypeOK'
    BY <1>0, <1>1, <1>15, LineOnly DEF Opened
  <2>2. HostTypeOK'
    BY <1>0, <1>15 DEF Opened, HostTypeOK
  <2> QED
    BY <2>1, <2>2
<1>12. CASE Stray
  <2>1. PICK b \in Symbols : down' = Append(down, b)
    BY <1>12 DEF Stray
  <2>2. down' \in Seq(Symbols)
    BY <1>1, <2>1
  <2>3. ControllerTypeOK'
    BY <1>0, <1>1, <1>12, <2>2, LineOnly DEF Stray, uart
  <2>4. HostTypeOK'
    BY <1>0, <1>12, LinkAssumption DEF Stray, Fault, host, HostTypeOK, LinkConstantsOK
  <2> QED
    BY <2>3, <2>4
<1>13. ASSUME NEW c \in Calls, Send(c)
       PROVE  ControllerTypeOK' /\ HostTypeOK'
  <2>1. down' \in Seq(Symbols)
    BY <1>1, <1>13, RequestIsSymbols DEF Send
  <2>2. ControllerTypeOK'
    BY <1>0, <1>1, <1>13, <2>1, LineOnly DEF Send, uart
  <2>3. HostTypeOK'
    <3>1. 0 \in 0 .. HostTimeout /\ <<>> \in Seq(Symbols) /\ FALSE \in BOOLEAN
      BY LinkAssumption DEF LinkConstantsOK
    <3>2. /\ call' = c /\ phase' = "header" /\ waited' = 0
          /\ answer' = <<>> /\ verdict' = "none" /\ ran' = FALSE /\ faults' = faults
      BY <1>13 DEF Send
    <3>3. ran' \in BOOLEAN
      BY <3>2
    <3>4. Len(answer') <= call'.len
      <4>1. CallOK(c)
        BY LinkAssumption DEF LinkConstantsOK
      <4>2. c.len \in Nat
        BY <4>1 DEF CallOK
      <4>3. Len(answer') = 0
        BY <3>2
      <4> QED
        BY <3>2, <4>2, <4>3
    <3> QED
      BY <1>0, <3>1, <3>2, <3>3, <3>4 DEF HostTypeOK
  <2> QED
    BY <2>2, <2>3
<1>14. CASE UNCHANGED vars
  <2>1. UNCHANGED <<state, message, indices, wr, rd, stall_cnt, uart, board, down, host, faults>>
    BY <1>14 DEF vars, controller_vars
  <2>2. ControllerTypeOK'
    BY <1>0, <1>1, <2>1, LineOnly DEF uart
  <2>3. HostTypeOK'
    BY <1>0, <2>1 DEF host, HostTypeOK
  <2> QED
    BY <2>2, <2>3
<1> QED
  BY <1>4, <1>5, <1>6, <1>7, <1>8, <1>9, <1>10, <1>11, <1>12, <1>13, <1>14, <1>15
  DEF Next, HostReceive

\* Type correctness: every register, queue and counter keeps its range, for any
\* calls and any number of restarts and stray bytes.
THEOREM TypeCorrect == Spec => []TypeOK
<1>1. TypeOK /\ [Next]_vars => TypeOK'
  BY NextTypes
<1> QED
  BY <1>1, InitTypes, PTL DEF Spec

-----------------------------------------------------------------------------
(***************************************************************************)
(* S_IDLE is clean, and an engine that can finish is awaited.  Neither is  *)
(* inductive: the watchdog leaves dma_rd_have alone, and it is the clock   *)
(* count and not the state that keeps it from firing too soon.             *)
(***************************************************************************)

\* A byte of a DATA_READ is in flight or latched only while S_DMA_READ_RESP
\* waits for it, and never both.
ReadInFlight ==
  /\ rd.have \/ dma # NoRead => state = "dma_read_resp"
  /\ rd.have => dma = NoRead

\* The watchdog counts only where the host or an engine keeps the controller
\* waiting: the transmitter and the memory always answer first.
StallOnlyWaiting ==
  stall_cnt > 0 => state \in {"header", "payload", "dma_write", "wait_nmc"}

\* The watchdog has counted no longer than the engine has run.
EngineTimed ==
  engine.busy /\ engine.age <= EngineTicks => state = "wait_nmc" /\ stall_cnt <= engine.age

IInv == ReadInFlight /\ StallOnlyWaiting /\ IdleIsClean /\ EngineTimed

Quiet == UNCHANGED <<state, message, indices, wr, rd, stall_cnt, board>>

LEMMA StepKinds ==
  ASSUME [Next]_vars
  PROVE  ControllerNext \/ EngineDone \/ BoardTick \/ Quiet
<1>1. CASE ControllerStep \/ EngineStep \/ Tick
  BY <1>1 DEF ControllerStep, EngineStep, Tick
<1>2. CASE TransmitterStep
  BY <1>2 DEF TransmitterStep, UartDone, Quiet
<1>3. CASE RecvHeader \/ RecvPayload \/ Timeout
  BY <1>3 DEF RecvHeader, RecvPayload, Timeout, Take, Quiet
<1>4. CASE Restart \/ Opened \/ Stray
  BY <1>4 DEF Restart, Opened, Stray, Quiet
<1>5. ASSUME NEW c \in Calls, Send(c) PROVE Quiet
  BY <1>5 DEF Send, Quiet
<1>6. CASE UNCHANGED vars
  BY <1>6 DEF vars, controller_vars, Quiet
<1> QED
  BY <1>1, <1>2, <1>3, <1>4, <1>5, <1>6 DEF Next, HostReceive

LEMMA TimingFacts ==
  ControllerTypeOK =>
    /\ stall_cnt \in Nat /\ rd.have \in BOOLEAN
    /\ WatchdogLimit \in Nat /\ WatchdogLimit > 0
    /\ WatchdogLimitNmc \in Nat /\ EngineTicks \in Nat
    /\ WatchdogLimit < WatchdogLimitNmc /\ EngineTicks < WatchdogLimitNmc
    /\ engine.age \in Nat
<1> SUFFICES ASSUME ControllerTypeOK
    PROVE  /\ stall_cnt \in Nat /\ rd.have \in BOOLEAN
           /\ WatchdogLimit \in Nat /\ WatchdogLimit > 0
           /\ WatchdogLimitNmc \in Nat /\ EngineTicks \in Nat
           /\ WatchdogLimit < WatchdogLimitNmc /\ EngineTicks < WatchdogLimitNmc
           /\ engine.age \in Nat
  OBVIOUS
<1>1. /\ WatchdogLimit \in Nat /\ WatchdogLimit > 0
      /\ WatchdogLimitNmc \in Nat /\ EngineTicks \in Nat
      /\ WatchdogLimit < WatchdogLimitNmc /\ EngineTicks < WatchdogLimitNmc
  BY ControllerAssumption DEF ControllerConstantsOK
<1>2. stall_cnt \in Nat /\ rd.have \in BOOLEAN
  BY <1>1, ReadTypes DEF ControllerTypeOK, TransferTypeOK
<1>3. engine.age \in Nat
  BY <1>1 DEF ControllerTypeOK, BoardTypeOK
<1> QED
  BY <1>1, <1>2, <1>3

\* In a step the count is reset, or it stays and so does the state, or it was
\* zero already.
LEMMA StallStep ==
  ASSUME ControllerTypeOK, StallOnlyWaiting, ControllerNext \/ EngineDone
  PROVE  stall_cnt' = 0 \/ (stall_cnt' = stall_cnt /\ state' = state)
<1>1. state \notin {"header", "payload", "dma_write", "wait_nmc"} => stall_cnt = 0
  BY TimingFacts DEF StallOnlyWaiting
<1>2. ASSUME NEW event, Clock(event) PROVE stall_cnt' \in {0, stall_cnt}
  BY <1>2 DEF Clock
<1>3. CASE IdleByte \/ HeaderByte \/ PayloadByte \/ DmaWriteByte
  BY <1>3 DEF IdleByte, HeaderByte, PayloadByte, DmaWriteByte, Received, Clock
<1>4. CASE LostByte \/ Watchdog \/ EngineDone
  BY <1>4 DEF LostByte, Watchdog, EngineDone
<1>5. CASE DispatchAck \/ DispatchNmc \/ DispatchWrite \/ DispatchRead
  <2>1. PICK types : Dispatch(types)
    BY <1>5 DEF DispatchAck, DispatchNmc, DispatchWrite, DispatchRead
  <2> QED
    BY <1>1, <1>2, <2>1 DEF Dispatch
<1>6. CASE SendAck \/ AckWait \/ SendRespHdr \/ DmaReadReq \/ DmaReadSend
  BY <1>1, <1>2, <1>6 DEF SendAck, AckWait, SendRespHdr, DmaReadReq, DmaReadSend
<1>7. CASE DmaReadValid
  BY <1>7 DEF DmaReadValid, Clock
<1>8. CASE WaitClock
  BY <1>2, <1>8 DEF WaitClock
<1> QED
  BY <1>3, <1>4, <1>5, <1>6, <1>7, <1>8 DEF ControllerNext

LEMMA StallPreserved ==
  ASSUME ControllerTypeOK, StallOnlyWaiting, [Next]_vars
  PROVE  StallOnlyWaiting'
<1>1. CASE ControllerNext \/ EngineDone
  BY <1>1, StallStep DEF StallOnlyWaiting
<1>2. CASE BoardTick
  <2>1. /\ state \in {"idle", "header", "payload", "dma_write", "wait_nmc"}
        /\ state' = state
    BY <1>2 DEF BoardTick, Silent
  <2>2. state = "idle" => stall_cnt' = 0
    BY <1>2 DEF BoardTick, InWaitState
  <2> QED
    BY <2>1, <2>2 DEF StallOnlyWaiting
<1>3. CASE Quiet
  BY <1>3 DEF Quiet, StallOnlyWaiting
<1> QED
  BY <1>1, <1>2, <1>3, StepKinds

\* The watchdog fires only on a wait it has counted.
LEMMA ExpiredWaits ==
  ASSUME ControllerTypeOK, StallOnlyWaiting, Expired
  PROVE  /\ state \in {"header", "payload", "dma_write", "wait_nmc"}
         /\ stall_cnt >= Limit
  BY TimingFacts DEF Expired, Limit, StallOnlyWaiting

\* Going back to S_IDLE leaves it clean if no byte of a DATA_READ is pending.
LEMMA IdleAfter ==
  ASSUME TransferTypeOK, ToIdle(FALSE), dma' = NoRead
  PROVE  IdleIsClean' /\ ReadInFlight'
<1>1. /\ state' = "idle"
      /\ header_idx' = 0 /\ payload_idx' = 0 /\ payload_len' = 0
      /\ ack_byte_idx' = 0 /\ resp_hdr_idx' = 0
  BY DEF ToIdle, Goto
<1>2. wr'.remaining = 0
  BY DEF ToIdle, TransferTypeOK
<1>3. rd'.total = 0 /\ rd'.requested = 0 /\ rd'.sent = 0
  BY DEF ToIdle, TransferTypeOK
<1>4. rd'.have = FALSE
  BY DEF ToIdle, TransferTypeOK
<1> QED
  BY <1>1, <1>2, <1>3, <1>4 DEF IdleIsClean, ReadInFlight

LEMMA CleanPreserved ==
  ASSUME ControllerTypeOK, ReadInFlight, StallOnlyWaiting, IdleIsClean, [Next]_vars
  PROVE  ReadInFlight' /\ IdleIsClean'
<1>0. TransferTypeOK
  BY DEF ControllerTypeOK
<1>1. state # "dma_read_resp" => rd.have = FALSE /\ dma = NoRead
  BY TimingFacts DEF ReadInFlight
<1>2. ASSUME state' # "idle", state # "dma_read_resp", rd'.have = rd.have, UNCHANGED dma
      PROVE  ReadInFlight' /\ IdleIsClean'
  BY <1>1, <1>2 DEF ReadInFlight, IdleIsClean
<1>3. CASE IdleByte \/ DmaWriteByte
  BY <1>2, <1>3 DEF IdleByte, DmaWriteByte, Goto, board
<1>4. CASE HeaderByte \/ PayloadByte
  BY <1>2, <1>4 DEF HeaderByte, PayloadByte, Goto, board
<1>5. CASE LostByte \/ WaitClock
  BY <1>5 DEF LostByte, WaitClock, message, indices, board, ReadInFlight, IdleIsClean
<1>6. CASE DispatchAck \/ DispatchNmc \/ DispatchWrite
  <2>1. state = "dispatch"
    BY <1>6 DEF DispatchAck, DispatchNmc, DispatchWrite, Dispatch
  <2> QED
    BY <1>2, <1>6, <2>1 DEF DispatchAck, DispatchNmc, DispatchWrite, Goto, board
<1>7. CASE DispatchRead
  <2>1. state = "dispatch" /\ state' = "send_resp_hdr" /\ UNCHANGED dma
    BY <1>7 DEF DispatchRead, Dispatch, Goto, board
  <2>2. rd'.have = rd.have
    BY <1>0, <1>7 DEF DispatchRead, TransferTypeOK
  <2> QED
    BY <1>2, <2>1, <2>2
<1>8. CASE SendAck \/ SendRespHdr
  BY <1>2, <1>8 DEF SendAck, SendRespHdr, Goto, board
<1>9. CASE AckWait
  <2>1. rd.have = FALSE /\ dma' = NoRead /\ state = "ack_wait"
    BY <1>1, <1>9 DEF AckWait, board
  <2>2. CASE ack_byte_idx = HeaderLen - 1
    BY <1>0, <1>9, <2>1, <2>2, IdleAfter DEF AckWait
  <2>3. CASE ack_byte_idx # HeaderLen - 1
    BY <1>2, <1>9, <2>1, <2>3 DEF AckWait, Goto, board
  <2> QED
    BY <2>2, <2>3
<1>10. CASE DmaReadReq
  <2>1. rd.have = FALSE /\ dma = NoRead
    BY <1>1, <1>10 DEF DmaReadReq
  <2>2. CASE rd.requested < rd.total
    <3>1. state' = "dma_read_resp"
      BY <1>10, <2>2 DEF DmaReadReq, Goto
    <3>2. rd'.have = FALSE
      BY <1>0, <1>10, <2>1, <2>2 DEF DmaReadReq, TransferTypeOK
    <3> QED
      BY <3>1, <3>2 DEF ReadInFlight, IdleIsClean
  <2>3. CASE ~(rd.requested < rd.total)
    BY <1>0, <1>10, <2>1, <2>3, IdleAfter DEF DmaReadReq
  <2> QED
    BY <2>2, <2>3
<1>11. ASSUME NEW b, SendData(b), dma' = NoRead
       PROVE  ReadInFlight' /\ IdleIsClean'
  <2>1. CASE rd.sent + 1 >= rd.total
    BY <1>0, <1>11, <2>1, IdleAfter DEF SendData
  <2>2. CASE ~(rd.sent + 1 >= rd.total)
    <3>1. rd'.have = FALSE
      BY <1>0, <1>11, <2>2 DEF SendData, TransferTypeOK
    <3>2. state' = "dma_read_req"
      BY <1>11, <2>2 DEF SendData, Goto
    <3> QED
      BY <1>11, <3>1, <3>2 DEF ReadInFlight, IdleIsClean
  <2> QED
    BY <2>1, <2>2
<1>12. CASE DmaReadValid
  <2>1. dma' = NoRead
    BY <1>12 DEF DmaReadValid
  <2>2. CASE TxFree
    BY <1>11, <1>12, <2>1, <2>2 DEF DmaReadValid
  <2>3. CASE ~TxFree
    <3>1. state' = "dma_read_resp"
      BY <1>12, <2>3 DEF DmaReadValid
    <3> QED
      BY <2>1, <3>1 DEF ReadInFlight, IdleIsClean
  <2> QED
    BY <2>2, <2>3
<1>13. CASE DmaReadSend
  <2>1. dma' = NoRead
    BY <1>13 DEF DmaReadSend, board, ReadInFlight
  <2> QED
    BY <1>11, <1>13, <2>1 DEF DmaReadSend
<1>14. CASE Watchdog
  <2>1. state # "dma_read_resp"
    BY <1>14, ExpiredWaits DEF Watchdog
  <2>2. rd.have = FALSE /\ dma' = NoRead
    BY <1>1, <1>14, <2>1 DEF Watchdog, board
  <2> QED
    BY <1>0, <1>14, <2>2, IdleAfter DEF Watchdog
<1>15. CASE EngineDone
  <2>1. state' = state \/ (state = "wait_nmc" /\ state' = "send_ack")
    BY <1>15 DEF EngineDone, Goto
  <2>2. UNCHANGED <<header_idx, payload_idx, payload_len, resp_hdr_idx, wr, rd, dma>>
    BY <1>15 DEF EngineDone, message
  <2>3. state # "wait_nmc" => UNCHANGED ack_byte_idx
    BY <1>15 DEF EngineDone
  <2> QED
    BY <2>1, <2>2, <2>3 DEF ReadInFlight, IdleIsClean
<1>16. CASE BoardTick
  BY <1>16 DEF BoardTick, message, indices, ReadInFlight, IdleIsClean
<1>17. CASE Quiet
  BY <1>17 DEF Quiet, message, indices, board, ReadInFlight, IdleIsClean
<1> QED
  BY <1>3, <1>4, <1>5, <1>6, <1>7, <1>8, <1>9, <1>10, <1>12, <1>13, <1>14, <1>15, <1>16, <1>17,
     StepKinds DEF ControllerNext

LEMMA EnginePreserved ==
  ASSUME ControllerTypeOK, StallOnlyWaiting, EngineTimed, [Next]_vars
  PROVE  EngineTimed'
<1>1. engine.busy /\ engine.age <= EngineTicks => state = "wait_nmc" /\ stall_cnt <= engine.age
  BY DEF EngineTimed
<1>2. ASSUME state # "wait_nmc", UNCHANGED engine PROVE EngineTimed'
  BY <1>1, <1>2 DEF EngineTimed
<1>3. CASE \/ IdleByte \/ HeaderByte \/ PayloadByte \/ DmaWriteByte
           \/ SendAck \/ AckWait \/ SendRespHdr \/ DmaReadReq \/ DmaReadValid \/ DmaReadSend
  BY <1>2, <1>3 DEF IdleByte, HeaderByte, PayloadByte, DmaWriteByte, SendAck, AckWait,
                    SendRespHdr, DmaReadReq, DmaReadValid, DmaReadSend, board
<1>4. CASE DispatchAck \/ DispatchWrite \/ DispatchRead
  BY <1>2, <1>4 DEF DispatchAck, DispatchWrite, DispatchRead, Dispatch, board
<1>5. CASE DispatchNmc
  <2>1. Dispatch({MSG_NMC_EXEC}) /\ state' = "wait_nmc"
    BY <1>5 DEF DispatchNmc, Goto
  <2>2. state = "dispatch" /\ stall_cnt' = 0
    BY <2>1 DEF Dispatch, Clock, InWaitState
  <2>3. engine' = engine \/ engine'.age = 0
    BY <1>5 DEF DispatchNmc
  <2> QED
    BY <1>2, <2>1, <2>2, <2>3 DEF EngineTimed
<1>6. CASE LostByte \/ WaitClock
  <2>1. UNCHANGED <<state, engine>>
    BY <1>6 DEF LostByte, WaitClock, board
  <2>2. stall_cnt' = 0 \/ stall_cnt' = stall_cnt
    BY <1>6 DEF LostByte, WaitClock, Clock
  <2> QED
    BY <1>1, <2>1, <2>2, TimingFacts DEF EngineTimed
<1>7. CASE Watchdog
  <2>1. UNCHANGED engine
    BY <1>7 DEF Watchdog, board
  <2>2. state = "wait_nmc" => stall_cnt >= WatchdogLimitNmc
    BY <1>7, ExpiredWaits DEF Watchdog, Limit
  <2>3. ~(engine.busy /\ engine.age <= EngineTicks)
    BY <1>1, <2>2, TimingFacts
  <2> QED
    BY <2>1, <2>3 DEF EngineTimed
<1>8. CASE EngineDone
  BY <1>8 DEF EngineDone, Idle, EngineTimed
<1>9. CASE BoardTick
  <2>1. CASE engine.busy /\ engine.age <= EngineTicks
    <3>1. state' = "wait_nmc" /\ stall_cnt <= engine.age
      BY <1>1, <1>9, <2>1 DEF BoardTick
    <3>2. engine'.age = engine.age + 1
      BY <1>9, <2>1 DEF BoardTick, ControllerTypeOK, BoardTypeOK
    <3>3. stall_cnt' \in {0, stall_cnt, stall_cnt + 1}
      BY <1>9 DEF BoardTick
    <3> QED
      BY <3>1, <3>2, <3>3, TimingFacts DEF EngineTimed
  <2>2. CASE ~(engine.busy /\ engine.age <= EngineTicks)
    <3>1. engine' = engine
      BY <1>9, <2>2 DEF BoardTick
    <3> QED
      BY <2>2, <3>1 DEF EngineTimed
  <2> QED
    BY <2>1, <2>2
<1>10. CASE Quiet
  BY <1>10 DEF Quiet, board, EngineTimed
<1> QED
  BY <1>3, <1>4, <1>5, <1>6, <1>7, <1>8, <1>9, <1>10, StepKinds DEF ControllerNext

LEMMA IInvInit == Init => IInv
  BY ControllerAssumption
  DEF Init, ControllerInit, Idle, IInv, ReadInFlight, StallOnlyWaiting, IdleIsClean, EngineTimed

LEMMA IInvNext ==
  ASSUME TypeOK, IInv, [Next]_vars
  PROVE  IInv'
  BY StallPreserved, CleanPreserved, EnginePreserved DEF TypeOK, IInv

LEMMA IInvInvariant == Spec => []IInv
<1>1. TypeOK /\ IInv /\ [Next]_vars => IInv'
  BY IInvNext
<1> QED
  BY <1>1, IInvInit, TypeCorrect, PTL DEF Spec

\* Whatever the host sends, whenever its process dies and whenever the watchdog
\* fires, no register of one message and no byte of its answer is left when the
\* controller is back in S_IDLE.
THEOREM IdleClean == Spec => []IdleIsClean
<1>1. IInv => IdleIsClean
  BY DEF IInv
<1> QED
  BY <1>1, IInvInvariant, PTL

\* The controller never turns its back on an engine that can still finish: a
\* done pulse acknowledges the operation that was asked for.
THEOREM EngineIsAwaited == Spec => []EngineAwaited
<1>1. IInv => EngineAwaited
  BY DEF IInv, EngineTimed, EngineAwaited
<1> QED
  BY <1>1, IInvInvariant, PTL

-----------------------------------------------------------------------------
(***************************************************************************)
(* A link without faults: every exchange of a request and its answer, from *)
(* the host through the controller and back.  Between two calls nothing is *)
(* left over, a call fails only because of an engine, and EdgeCohLink      *)
(* implements RemoteMemory.  For any calls and every size and timeout that *)
(* Undisturbed allows.                                                     *)
(***************************************************************************)

-----------------------------------------------------------------------------
(***************************************************************************)
(* Assumptions: the host waits longer than the controller's longest        *)
(* silence, its tty keeps an answer, and a request does not wrap around    *)
(* the memory.                                                             *)
(***************************************************************************)
Undisturbed ==
  /\ Faults = {}
  /\ WatchdogLimitNmc < HostTimeout
  /\ HeaderLen <= TtyBuffer
  /\ \A c \in Calls : c.op = "read" => HeaderLen + c.len <= TtyBuffer
  /\ \A c \in Calls : c.op = "write" => Len(c.data) <= MemLen

-----------------------------------------------------------------------------
(***************************************************************************)
(* What has been asked for and how much of it the controller has.          *)
(***************************************************************************)
Asked == Request(call)

\* How much of a payload goes into registers: of a write only the address.
Collected == IF call.op = "write" THEN AddrLen ELSE Asked[3]

Register(i) ==
  IF i <= HeaderLen THEN header_buf[i - 1] ELSE payload_buf[i - HeaderLen - 1]

\* The first k symbols are in their registers, the others on the line.
Got(k) ==
  /\ down = SubSeq(Asked, k + 1, Len(Asked))
  /\ \A i \in 1 .. k : Register(i) = Asked[i]

(***************************************************************************)
(* What is to be answered and how much of it has been sent.                *)
(***************************************************************************)
Contents == [i \in 1 .. call.len |-> mem[Cell(call.addr + i - 1)]]

Reply ==
  IF call.op = "read" THEN <<MSG_DATA_RESPONSE, 0, call.len>> \o Contents
  ELSE <<MSG_ACK, 0, 0>>

\* The symbol the transmitter has or is about to take.
Transmitted ==
  IF tx_busy THEN <<tx_shift>> ELSE IF tx_valid THEN <<tx_data>> ELSE <<>>

Taken == IF phase = "payload" THEN HeaderLen ELSE 0

\* The first n symbols have been sent; the host has taken the header or nothing.
Sent(n) ==
  /\ Taken <= n /\ n <= Len(Reply)
  /\ up \o Transmitted = SubSeq(Reply, Taken + 1, n)

StoredTo(n) == \A i \in 1 .. n : mem[Cell(call.addr + i - 1)] = call.data[i]

-----------------------------------------------------------------------------
(***************************************************************************)
(* The stages of an exchange.                                              *)
(***************************************************************************)
LineEmpty == up = <<>> /\ ~tx_busy /\ ~tx_valid

Resting ==
  /\ LineEmpty
  /\ state = "idle" \/ (state = "ack_wait" /\ ack_byte_idx = HeaderLen - 1)

Fresh == phase = "header" /\ ~ran /\ LineEmpty

Receiving ==
  /\ Fresh /\ waited = 0 /\ stall_cnt = 0
  /\ \/ Resting /\ Got(0)
     \/ state = "header" /\ header_idx \in {1, 2} /\ Got(header_idx)
     \/ /\ state = "payload" /\ payload_len = Asked[3] /\ payload_idx < Collected
        /\ Got(HeaderLen + payload_idx)
     \/ state = "dispatch" /\ payload_len = Asked[3] /\ Got(HeaderLen + Collected)

Writing ==
  /\ Fresh /\ waited = 0 /\ stall_cnt = 0
  /\ state = "dma_write" /\ call.op = "write" /\ header_buf[1] = 0
  /\ wr.remaining \in 1 .. Len(call.data)
  /\ wr.base = call.addr + (Len(call.data) - wr.remaining)
  /\ down = SubSeq(call.data, Len(call.data) - wr.remaining + 1, Len(call.data))
  /\ StoredTo(Len(call.data) - wr.remaining)

Working ==
  /\ Fresh /\ waited = stall_cnt /\ down = <<>>
  /\ state = "wait_nmc" /\ call.op = "nmc" /\ header_buf[1] = 0
  /\ call.nmc_op \in NmcEngines => engine.busy
  /\ engine.busy /\ engine.age <= EngineTicks =>
       engine.in = call.addr /\ engine.out = call.out

\* The watchdog has fired on an engine; the host will time out.
GaveUp ==
  /\ Fresh /\ down = <<>>
  /\ state = "idle" /\ call.op = "nmc"
  /\ call.nmc_op \in NmcEngines => engine.busy

Acking ==
  /\ phase = "header" /\ waited <= WatchdogLimitNmc /\ down = <<>>
  /\ call.op # "read" /\ header_buf[1] = 0
  /\ call.op = "write" => StoredTo(Len(call.data))
  /\ call.op = "nmc" => ran
  /\ \/ state = "send_ack" /\ Sent(IF tx_valid THEN ack_byte_idx + 1 ELSE ack_byte_idx)
     \/ state = "ack_wait" /\ Sent(ack_byte_idx + 1)
     \/ state = "idle" /\ Sent(HeaderLen)

Responding ==
  /\ phase \in {"header", "payload"} /\ waited <= WatchdogLimitNmc /\ down = <<>>
  /\ call.op = "read"
  /\ state # "idle" => header_buf[1] = 0 /\ rd.base = call.addr /\ rd.total = call.len
  /\ \/ state = "send_resp_hdr" /\ Sent(resp_hdr_idx) /\ rd.sent = 0 /\ rd.requested = 0
     \/ /\ state = "dma_read_req" /\ Sent(HeaderLen + rd.sent)
        /\ rd.requested = rd.sent /\ (rd.sent < rd.total \/ rd.total = 0)
     \/ /\ state = "dma_read_resp" /\ Sent(HeaderLen + rd.sent)
        /\ rd.sent < rd.total /\ rd.requested = rd.sent + 1
        /\ rd.have => rd.latch = mem[Cell(rd.base + rd.sent)]
        /\ ~rd.have => dma = rd.base + rd.sent
     \/ state = "idle" /\ Sent(Len(Reply))

Closed == phase = "closed" /\ down = <<>> /\ Resting /\ FailsOnlyByEngine

Open ==
  /\ answer = <<>> /\ verdict = "none"
  /\ Receiving \/ Writing \/ Working \/ GaveUp \/ Acking \/ Responding

Exchange == Closed \/ Open

\* Nobody drains the port in the midst of an exchange.
LEMMA OpenedNever == ASSUME Exchange, Opened PROVE FALSE
BY DEF Opened, Exchange, Closed, Open, Receiving, Writing, Working, GaveUp, Fresh,
       Acking, Responding

(***************************************************************************)
(* The handshake with the transmitter.                                     *)
(***************************************************************************)
Transmitter ==
  /\ tx_busy => ~tx_ready
  /\ tx_valid => tx_ready \/ (state = "send_ack" /\ tx_busy)
  /\ state = "send_ack" /\ ~tx_valid => tx_ready
  /\ state \in {"payload", "dispatch", "dma_write", "wait_nmc"} => LineIdle
  /\ state \in {"header", "ack_wait"} => ~tx_valid
  /\ state = "dma_read_req" => tx_valid

XInv == Exchange /\ Transmitter

-----------------------------------------------------------------------------
(***************************************************************************)
(* Parts of sequences.                                                     *)
(***************************************************************************)
\* What a part of a sequence holds.
LEMMA PartOfSeq ==
  ASSUME NEW T, NEW s \in Seq(T), NEW a \in Nat, NEW n \in Nat, a <= n, n <= Len(s)
  PROVE  /\ SubSeq(s, a + 1, n) \in Seq(T)
         /\ Len(SubSeq(s, a + 1, n)) = n - a
         /\ \A i \in 1 .. n - a : SubSeq(s, a + 1, n)[i] = s[a + i]
<1>1. Len(s) \in Nat
  OBVIOUS
<1>2. Len(SubSeq(s, a + 1, n)) = n - a
  BY <1>1
<1>3. SubSeq(s, a + 1, n) \in Seq(T)
  BY <1>1
<1>4. ASSUME NEW i \in 1 .. n - a PROVE SubSeq(s, a + 1, n)[i] = s[a + i]
  BY <1>1
<1> QED BY <1>2, <1>3, <1>4

LEMMA JoinedSeq ==
  ASSUME NEW T, NEW u \in Seq(T), NEW v \in Seq(T)
  PROVE  /\ u \o v \in Seq(T)
         /\ Len(u \o v) = Len(u) + Len(v)
         /\ \A i \in 1 .. Len(u) : (u \o v)[i] = u[i]
         /\ \A i \in 1 .. Len(v) : (u \o v)[Len(u) + i] = v[i]
<1>1. Len(u) \in Nat /\ Len(v) \in Nat
  OBVIOUS
<1>2. u \o v \in Seq(T) /\ Len(u \o v) = Len(u) + Len(v)
  BY ConcatProperties
<1>3. ASSUME NEW i \in 1 .. Len(u) PROVE (u \o v)[i] = u[i]
  BY <1>1, ConcatProperties
<1>4. ASSUME NEW i \in 1 .. Len(v) PROVE (u \o v)[Len(u) + i] = v[i]
  <2>1. Len(u) + i \in 1 .. Len(u) + Len(v) /\ ~(Len(u) + i <= Len(u)) /\ Len(u) + i - Len(u) = i
    BY <1>1
  <2>2. (u \o v)[Len(u) + i] =
          IF Len(u) + i <= Len(u) THEN u[Len(u) + i] ELSE v[Len(u) + i - Len(u)]
    BY <2>1, ConcatProperties
  <2> QED BY <2>1, <2>2
<1> QED BY <1>2, <1>3, <1>4

\* Two parts of a sequence that start and end at the same place.
LEMMA SameElements ==
  ASSUME NEW T, NEW s \in Seq(T), NEW t \in Seq(T), NEW n \in Nat, Len(s) = n, Len(t) = n,
         \A i \in 1 .. n : s[i] = t[i]
  PROVE  s = t
  BY SeqEqual

LEMMA HeadOfSeq ==
  ASSUME NEW T, NEW d \in Seq(T)
  PROVE  /\ d # <<>> <=> Len(d) > 0
         /\ d # <<>> => /\ Head(d) = d[1]
                        /\ Tail(d) \in Seq(T) /\ Len(Tail(d)) = Len(d) - 1
                        /\ \A i \in 1 .. Len(d) - 1 : Tail(d)[i] = d[i + 1]
<1>1. d # <<>> <=> Len(d) > 0
  BY EmptySeq
<1>2. ASSUME d # <<>>
      PROVE  /\ Head(d) = d[1]
             /\ Tail(d) \in Seq(T) /\ Len(Tail(d)) = Len(d) - 1
             /\ \A i \in 1 .. Len(d) - 1 : Tail(d)[i] = d[i + 1]
  BY <1>2, HeadTailProperties
<1> QED BY <1>1, <1>2

LEMMA RestOfSeq ==
  ASSUME NEW T, NEW s \in Seq(T), NEW k \in 0 .. Len(s), NEW d, d = SubSeq(s, k + 1, Len(s))
  PROVE  /\ d \in Seq(T) /\ Len(d) = Len(s) - k
         /\ d # <<>> <=> k < Len(s)
         /\ k < Len(s) => Head(d) = s[k + 1] /\ Tail(d) = SubSeq(s, k + 2, Len(s))
<1>0. Len(s) \in Nat /\ k \in Nat /\ k <= Len(s)
  OBVIOUS
<1>1. /\ d \in Seq(T) /\ Len(d) = Len(s) - k
      /\ \A i \in 1 .. Len(s) - k : d[i] = s[k + i]
  BY <1>0, PartOfSeq
<1>2. d # <<>> <=> k < Len(s)
  <2>1. d # <<>> <=> Len(d) > 0
    BY <1>1, HeadOfSeq
  <2> QED BY <1>0, <1>1, <2>1
<1>3. ASSUME k < Len(s)
      PROVE  Head(d) = s[k + 1] /\ Tail(d) = SubSeq(s, k + 2, Len(s))
  <2>1. Head(d) = d[1]
    BY <1>1, <1>2, <1>3, HeadOfSeq
  <2>2. d[1] = s[k + 1]
    BY <1>0, <1>1, <1>3
  <2> DEFINE e == Tail(d)
             f == SubSeq(s, k + 1 + 1, Len(s))
             n == Len(s) - (k + 1)
  <2>3. /\ e \in Seq(T) /\ Len(e) = Len(d) - 1
        /\ \A i \in 1 .. Len(d) - 1 : e[i] = d[i + 1]
    BY <1>1, <1>2, <1>3, HeadOfSeq
  <2>4. f \in Seq(T) /\ Len(f) = n /\ \A i \in 1 .. n : f[i] = s[k + 1 + i]
    <3>1. k + 1 \in Nat /\ k + 1 <= Len(s)
      BY <1>0, <1>3
    <3> QED BY <1>0, <3>1, PartOfSeq
  <2>5. n \in Nat /\ Len(d) - 1 = n
    BY <1>0, <1>1, <1>3
  <2> HIDE DEF e, f
  <2>6. ASSUME NEW i \in 1 .. n PROVE e[i] = f[i]
    <3>1. e[i] = d[i + 1] /\ f[i] = s[k + 1 + i]
      BY <2>3, <2>4, <2>5
    <3>2. d[i + 1] = s[k + (i + 1)] /\ k + (i + 1) = k + 1 + i
      BY <1>0, <1>1
    <3> QED BY <3>1, <3>2
  <2>7. e = f
    BY <2>3, <2>4, <2>5, <2>6, SameElements
  <2>8. k + 1 + 1 = k + 2
    BY <1>0
  <2> QED BY <2>1, <2>2, <2>7, <2>8 DEF e, f
<1> QED BY <1>1, <1>2, <1>3

LEMMA NoneLeft ==
  ASSUME NEW T, NEW s \in Seq(T)
  PROVE  SubSeq(s, Len(s) + 1, Len(s)) = <<>>
  OBVIOUS

LEMMA AllLeft ==
  ASSUME NEW T, NEW s \in Seq(T)
  PROVE  SubSeq(s, 1, Len(s)) = s
<1> DEFINE f == SubSeq(s, 0 + 1, Len(s))
           n == Len(s)
<1>1. n \in Nat /\ n - 0 = n /\ 0 + 1 = 1
  OBVIOUS
<1>2. f \in Seq(T) /\ Len(f) = n /\ \A i \in 1 .. n : f[i] = s[0 + i]
  BY <1>1, PartOfSeq
<1>3. \A i \in 1 .. n : 0 + i = i
  OBVIOUS
<1> HIDE DEF f
<1>4. f = s
  BY <1>1, <1>2, <1>3, SameElements
<1> QED BY <1>1, <1>4 DEF f

LEMMA NextOfSeq ==
  ASSUME NEW T, NEW s \in Seq(T), NEW u \in Seq(T), NEW a \in Nat, NEW n \in Nat,
         a <= n, n < Len(s), u = SubSeq(s, a + 1, n)
  PROVE  u \o <<s[n + 1]>> = SubSeq(s, a + 1, n + 1)
<1>1. Len(s) \in Nat /\ s[n + 1] \in T
  OBVIOUS
<1> DEFINE m == n + 1 - a
           v == <<s[n + 1]>>
           e == u \o v
           f == SubSeq(s, a + 1, n + 1)
<1>2. /\ m \in Nat /\ n - a \in Nat /\ m = (n - a) + 1 /\ n + 1 \in Nat
      /\ a <= n + 1 /\ n + 1 <= Len(s) /\ n <= Len(s)
  BY <1>1
<1>3. Len(u) = n - a /\ \A i \in 1 .. n - a : u[i] = s[a + i]
  BY <1>2, PartOfSeq
<1>4. v \in Seq(T) /\ Len(v) = 1 /\ v[1] = s[n + 1]
  BY <1>1
<1>5. f \in Seq(T) /\ Len(f) = m /\ \A i \in 1 .. m : f[i] = s[a + i]
  BY <1>2, PartOfSeq
<1> HIDE DEF v
<1>6. /\ e \in Seq(T) /\ Len(e) = Len(u) + Len(v)
      /\ \A i \in 1 .. Len(u) : e[i] = u[i]
      /\ \A i \in 1 .. Len(v) : e[Len(u) + i] = v[i]
  <2>1. v \in Seq(T)
    BY <1>4
  <2> QED BY <2>1, JoinedSeq, SMTT(30)
<1> HIDE DEF e, f
<1>7. Len(e) = m
  BY <1>2, <1>3, <1>4, <1>6
<1>8. ASSUME NEW i \in 1 .. m PROVE e[i] = f[i]
  <2>1. CASE i = m
    <3>1. e[Len(u) + 1] = v[1]
      BY <1>4, <1>6, SMTT(30)
    <3>2. Len(u) + 1 = i /\ a + i = n + 1
      BY <1>2, <1>3, <2>1
    <3> QED BY <1>4, <1>5, <3>1, <3>2
  <2>2. CASE i # m
    <3>1. i \in 1 .. n - a
      BY <1>2, <2>2
    <3> QED BY <1>3, <1>5, <1>6, <3>1
  <2> QED BY <2>1, <2>2
<1>9. e = f
  BY <1>2, <1>5, <1>6, <1>7, <1>8, SameElements
<1> QED BY <1>9 DEF e, f, v

LEMMA EndOfSeq ==
  ASSUME NEW T, NEW p \in Seq(T), NEW s \in Seq(T)
  PROVE  SubSeq(p \o s, Len(p) + 1, Len(p) + Len(s)) = s
<1> DEFINE e == p \o s
           f == SubSeq(e, Len(p) + 1, Len(p) + Len(s))
<1>0. Len(p) \in Nat /\ Len(s) \in Nat
  OBVIOUS
<1>1. /\ e \in Seq(T) /\ Len(e) = Len(p) + Len(s)
      /\ \A i \in 1 .. Len(s) : e[Len(p) + i] = s[i]
  BY JoinedSeq, SMTT(30)
<1> HIDE DEF e
<1>2. Len(p) + Len(s) \in Nat /\ Len(p) <= Len(p) + Len(s) /\ Len(p) + Len(s) - Len(p) = Len(s)
  BY <1>0
<1>3. f \in Seq(T) /\ Len(f) = Len(s) /\ \A i \in 1 .. Len(s) : f[i] = e[Len(p) + i]
  BY <1>0, <1>1, <1>2, PartOfSeq
<1> HIDE DEF f
<1>4. f = s
  BY <1>0, <1>1, <1>3, SameElements
<1> QED BY <1>4 DEF e, f

LEMMA CellsDiffer ==
  ASSUME NEW a \in Nat, NEW i \in Nat, NEW j \in Nat, i < j, j - i < MemLen
  PROVE  Cell(a + i) # Cell(a + j)
<1>1. MemLen \in Nat /\ MemLen > 0
  BY ControllerAssumption DEF ControllerConstantsOK
<1>2. PICK q \in Int : a + i = MemLen * q + Cell(a + i)
  <2>1. a + i = MemLen * ((a + i) \div MemLen) + Cell(a + i) /\ (a + i) \div MemLen \in Int
    BY <1>1, Z3 DEF Cell
  <2> QED BY <2>1
<1>3. PICK p \in Int : a + j = MemLen * p + Cell(a + j)
  <2>1. a + j = MemLen * ((a + j) \div MemLen) + Cell(a + j) /\ (a + j) \div MemLen \in Int
    BY <1>1, Z3 DEF Cell
  <2> QED BY <2>1
<1>4. SUFFICES ASSUME Cell(a + i) = Cell(a + j) PROVE FALSE
  OBVIOUS
<1>5. Cell(a + i) \in Int /\ Cell(a + j) \in Int
  BY CellInMemory
<1>6. MemLen * p - MemLen * q = j - i /\ MemLen * p \in Int /\ MemLen * q \in Int
  BY <1>1, <1>2, <1>3, <1>4, <1>5
<1>7. CASE p <= q
  <2>1. MemLen * p <= MemLen * q
    BY <1>1, <1>7
  <2> QED BY <1>6, <2>1
<1>8. CASE p >= q + 1
  <2>1. MemLen * p >= MemLen * (q + 1)
    BY <1>1, <1>8
  <2>2. MemLen * (q + 1) = MemLen * q + MemLen
    BY <1>1
  <2> QED BY <1>1, <1>6, <2>1, <2>2
<1> QED BY <1>7, <1>8

-----------------------------------------------------------------------------
(***************************************************************************)
(* The shape of every request.                                             *)
(***************************************************************************)
LEMMA CallFacts ==
  ASSUME NEW c \in Calls
  PROVE  /\ c.op \in {"write", "read", "nmc", "barrier", "transfer"}
         /\ c.addr \in Symbols /\ c.len \in Symbols /\ c.nmc_op \in Symbols
         /\ c.out \in Symbols /\ AddrLen + Len(c.data) \in Symbols
         /\ c.data \in Seq(Symbols) /\ Len(c.data) \in Nat
         /\ c.op = "write" => Len(c.data) > 0
<1>1. CallOK(c)
  BY LinkAssumption DEF LinkConstantsOK
<1>2. c.data \in Seq(Symbols) /\ (c.op = "write" => c.data # <<>>)
  BY <1>1 DEF CallOK
<1>3. c.op = "write" => Len(c.data) > 0
  BY <1>2, EmptySeq
<1> QED BY <1>1, <1>2, <1>3 DEF CallOK

LEMMA WriteShape ==
  ASSUME NEW c \in Calls, c.op = "write"
  PROVE  /\ Request(c) \in Seq(Symbols) /\ Len(Request(c)) = 4 + Len(c.data)
         /\ Request(c)[1] = MSG_DATA_WRITE /\ Request(c)[2] = 0
         /\ Request(c)[3] = AddrLen + Len(c.data) /\ Request(c)[4] = c.addr
         /\ SubSeq(Request(c), 5, Len(Request(c))) = c.data
<1> DEFINE p == <<MSG_DATA_WRITE, 0, AddrLen + Len(c.data), c.addr>>
<1>1. Request(c) = p \o c.data
  BY DEF Request
<1>2. /\ Len(p) = 4 /\ p[1] = MSG_DATA_WRITE /\ p[2] = 0
      /\ p[3] = AddrLen + Len(c.data) /\ p[4] = c.addr
  OBVIOUS
<1>3. p \in Seq(Symbols) /\ c.data \in Seq(Symbols)
  BY CallFacts, CodesAreSymbols DEF MSG_DATA_WRITE
<1> HIDE DEF p
<1>4. /\ p \o c.data \in Seq(Symbols) /\ Len(p \o c.data) = Len(p) + Len(c.data)
      /\ \A i \in 1 .. Len(p) : (p \o c.data)[i] = p[i]
  BY <1>3, JoinedSeq, SMTT(30)
<1>5. SubSeq(p \o c.data, Len(p) + 1, Len(p) + Len(c.data)) = c.data
  BY <1>3, EndOfSeq
<1>6. 1 \in 1 .. 4 /\ 2 \in 1 .. 4 /\ 3 \in 1 .. 4 /\ 4 \in 1 .. 4 /\ 4 + 1 = 5
  OBVIOUS
<1> QED BY <1>1, <1>2, <1>4, <1>5, <1>6

LEMMA OtherShapes ==
  ASSUME NEW c \in Calls
  PROVE  /\ c.op = "read" =>
               /\ Len(Request(c)) = 5 /\ Request(c)[1] = MSG_DATA_READ /\ Request(c)[2] = 0
               /\ Request(c)[3] = 2 /\ Request(c)[4] = c.addr /\ Request(c)[5] = c.len
         /\ c.op = "nmc" =>
               /\ Len(Request(c)) = 6 /\ Request(c)[1] = MSG_NMC_EXEC /\ Request(c)[2] = 0
               /\ Request(c)[3] = 3 /\ Request(c)[4] = c.nmc_op /\ Request(c)[5] = c.addr
               /\ Request(c)[6] = c.out
         /\ c.op = "barrier" =>
               /\ Len(Request(c)) = 3 /\ Request(c)[1] = MSG_SYNC_BARRIER /\ Request(c)[2] = 0
               /\ Request(c)[3] = 0
         /\ c.op = "transfer" =>
               /\ Len(Request(c)) = 4 /\ Request(c)[1] = MSG_TRANSFER_OWNERSHIP
               /\ Request(c)[2] = 0 /\ Request(c)[3] = 1
  BY DEF Request

\* What every request has in common.
LEMMA AskedShape ==
  ASSUME call \in Calls
  PROVE  /\ Asked \in Seq(Symbols) /\ Asked[2] = 0 /\ Asked[3] \in Symbols
         /\ Collected \in 0 .. 3
         /\ Asked[3] = 0 <=> Collected = 0
         /\ call.op # "write" => Asked[3] = Collected /\ Len(Asked) = HeaderLen + Collected
         /\ call.op = "write" => Len(Asked) = HeaderLen + Collected + Len(call.data)
         /\ Asked[1] = MSG_DATA_WRITE <=> call.op = "write"
         /\ Asked[1] = MSG_DATA_READ <=> call.op = "read"
         /\ Asked[1] = MSG_NMC_EXEC <=> call.op = "nmc"
         /\ Asked[1] \in Symbols
<1>0. /\ call.op \in {"write", "read", "nmc", "barrier", "transfer"}
      /\ Len(call.data) \in Nat /\ 1 + Len(call.data) \in Symbols /\ Symbols \subseteq Nat
  BY CallFacts, CodesAreSymbols
<1>1. Asked \in Seq(Symbols)
  BY RequestIsSymbols DEF Asked
<1>2. /\ 0 \in Symbols /\ 1 \in Symbols /\ 2 \in Symbols /\ 3 \in Symbols
      /\ 4 \in Symbols /\ 6 \in Symbols
  BY CodesAreSymbols
<1>3. Asked = Request(call)
  BY DEF Asked
<1> USE DEF Collected, MSG_DATA_WRITE, MSG_DATA_READ, MSG_NMC_EXEC,
        MSG_SYNC_BARRIER, MSG_TRANSFER_OWNERSHIP
<1>4. CASE call.op = "write"
  <2>1. /\ Len(Asked) = 4 + Len(call.data) /\ Asked[1] = 3 /\ Asked[2] = 0
        /\ Asked[3] = 1 + Len(call.data)
    BY <1>3, <1>4, WriteShape
  <2> QED BY <1>0, <1>1, <1>2, <1>4, <2>1
<1>5. CASE call.op = "read"
  <2>1. Len(Asked) = 5 /\ Asked[1] = 4 /\ Asked[2] = 0 /\ Asked[3] = 2
    BY <1>3, <1>5, OtherShapes
  <2> QED BY <1>0, <1>1, <1>2, <1>5, <2>1
<1>6. CASE call.op = "nmc"
  <2>1. Len(Asked) = 6 /\ Asked[1] = 6 /\ Asked[2] = 0 /\ Asked[3] = 3
    BY <1>3, <1>6, OtherShapes
  <2> QED BY <1>0, <1>1, <1>2, <1>6, <2>1
<1>7. CASE call.op = "barrier"
  <2>1. Len(Asked) = 3 /\ Asked[1] = 2 /\ Asked[2] = 0 /\ Asked[3] = 0
    BY <1>3, <1>7, OtherShapes
  <2> QED BY <1>0, <1>1, <1>2, <1>7, <2>1
<1>8. CASE call.op = "transfer"
  <2>1. Len(Asked) = 4 /\ Asked[1] = 1 /\ Asked[2] = 0 /\ Asked[3] = 1
    BY <1>3, <1>8, OtherShapes
  <2> QED BY <1>0, <1>1, <1>2, <1>8, <2>1
<1> QED BY <1>0, <1>4, <1>5, <1>6, <1>7, <1>8

-----------------------------------------------------------------------------
(***************************************************************************)
(* The handshake with the transmitter, whatever the host does.             *)
(***************************************************************************)
\* A clock at which the transmitter is offered nothing.
LEMMA NothingOffered ==
  ASSUME LineTypeOK, Uart, ~tx_valid
  PROVE  /\ UNCHANGED <<tx_busy, tx_shift, up>>
         /\ tx_ready' = (tx_ready \/ ~tx_busy)
  BY DEF LineTypeOK, Uart

\* It takes what it is offered if it is ready.
LEMMA OfferTaken ==
  ASSUME LineTypeOK, Uart, tx_valid, tx_ready, ~tx_busy
  PROVE  tx_busy' = TRUE /\ tx_ready' = FALSE /\ tx_shift' = tx_data /\ UNCHANGED up
  BY DEF LineTypeOK, Uart

LEMMA TransmitterKept ==
  ASSUME TypeOK, StallOnlyWaiting, Transmitter, [Next]_vars
  PROVE  Transmitter'
<1>0. /\ ControllerTypeOK /\ LineTypeOK
      /\ tx_valid \in BOOLEAN /\ tx_ready \in BOOLEAN /\ tx_busy \in BOOLEAN
  BY DEF TypeOK, ControllerTypeOK, LineTypeOK
<1>1. CASE IdleByte \/ HeaderByte
  <2>1. Received /\ state' \in {"header", "payload", "dispatch"}
    BY <1>1 DEF IdleByte, HeaderByte, Goto
  <2>2. Uart /\ tx_valid' = FALSE /\ AtRest
    BY <2>1 DEF Received, Clock, NoByte
  <2>3. CASE tx_busy
    <3>1. UNCHANGED <<tx_busy, tx_ready>> /\ ~tx_ready
      BY <1>0, <2>2, <2>3 DEF Uart, Transmitter
    <3>2. state' = "header"
      BY <1>1, <2>3 DEF IdleByte, HeaderByte, Goto, LineIdle
    <3> QED BY <2>2, <3>1, <3>2 DEF Transmitter
  <2>4. CASE ~tx_busy
    <3>1. LineIdle
      BY <2>2, <2>4 DEF AtRest
    <3>2. tx_busy' = FALSE /\ tx_ready' = TRUE
      BY <1>0, <2>2, <3>1 DEF Uart, LineIdle
    <3> QED BY <2>1, <2>2, <3>2 DEF Transmitter, LineIdle
  <2> QED BY <2>3, <2>4
<1>2. CASE \/ PayloadByte \/ DmaWriteByte \/ DispatchAck
           \/ DispatchNmc \/ DispatchWrite \/ DispatchRead
  <2>1. /\ state \in {"payload", "dma_write", "dispatch"}
        /\ state' \in {"payload", "dma_write", "dispatch", "send_ack", "wait_nmc", "send_resp_hdr"}
        /\ Uart /\ tx_valid' = FALSE
    BY <1>2 DEF PayloadByte, DmaWriteByte, Received, DispatchAck, DispatchNmc, DispatchWrite,
                DispatchRead, Dispatch, Clock, NoByte, Goto
  <2>2. LineIdle
    BY <2>1 DEF Transmitter
  <2>3. tx_busy' = FALSE /\ tx_ready' = TRUE
    BY <1>0, <2>1, <2>2 DEF Uart, LineIdle
  <2> QED BY <2>1, <2>3 DEF Transmitter, LineIdle
<1>3. CASE LostByte
  BY <1>3 DEF LostByte, uart, Transmitter, LineIdle
<1>4. CASE SendAck
  <2>1. state = "send_ack" /\ Uart
    BY <1>4 DEF SendAck, Clock
  <2>2. CASE tx_valid /\ ~tx_ready
    <3>1. tx_valid' = FALSE /\ state' = "ack_wait"
      BY <1>4, <2>2 DEF SendAck, Goto
    <3>2. tx_busy
      BY <2>2 DEF Transmitter
    <3>3. tx_busy' = TRUE /\ tx_ready' = FALSE
      BY <1>0, <2>1, <2>2, <3>2 DEF Uart
    <3> QED BY <3>1, <3>3 DEF Transmitter
  <2>3. CASE tx_valid /\ tx_ready
    <3>1. tx_valid' = TRUE /\ state' = "send_ack"
      BY <1>0, <1>4, <2>3 DEF SendAck, Goto
    <3>2. tx_busy' = TRUE /\ tx_ready' = FALSE
      BY <1>0, <2>1, <2>3, OfferTaken DEF Transmitter
    <3> QED BY <3>1, <3>2 DEF Transmitter
  <2>4. CASE ~tx_valid
    <3>1. tx_valid' = TRUE /\ state' = "send_ack"
      BY <1>0, <1>4, <2>4 DEF SendAck, Goto
    <3>2. tx_ready /\ ~tx_busy
      BY <2>1, <2>4 DEF Transmitter
    <3>3. tx_busy' = FALSE /\ tx_ready' = TRUE
      BY <1>0, <2>1, <2>4, <3>2 DEF Uart
    <3> QED BY <3>1, <3>3 DEF Transmitter
  <2> QED BY <2>2, <2>3, <2>4
<1>5. CASE AckWait
  <2>1. /\ state = "ack_wait" /\ tx_ready /\ Uart /\ tx_valid' = FALSE
        /\ state' \in {"idle", "send_ack"}
    BY <1>5 DEF AckWait, Clock, NoByte, ToIdle, Goto
  <2>2. ~tx_busy /\ ~tx_valid
    BY <2>1 DEF Transmitter
  <2>3. tx_busy' = FALSE /\ tx_ready' = TRUE
    BY <1>0, <2>1, <2>2 DEF Uart
  <2> QED BY <2>1, <2>3 DEF Transmitter
<1>6. CASE SendRespHdr
  <2>1. /\ tx_ready /\ ~tx_valid /\ Uart /\ tx_valid' = TRUE
        /\ state' \in {"send_resp_hdr", "dma_read_req"}
    BY <1>6 DEF SendRespHdr, TxFree, Clock, Present, Goto
  <2>2. tx_busy' = FALSE /\ tx_ready' = TRUE
    BY <1>0, <2>1 DEF Uart, Transmitter
  <2> QED BY <2>1, <2>2 DEF Transmitter
<1>7. CASE DmaReadReq
  <2>1. /\ state = "dma_read_req" /\ Uart /\ tx_valid' = FALSE
        /\ state' \in {"dma_read_resp", "idle"}
    BY <1>7 DEF DmaReadReq, Clock, NoByte, ToIdle, Goto
  <2>2. tx_valid /\ tx_ready /\ ~tx_busy
    BY <1>0, <2>1 DEF Transmitter
  <2>3. tx_busy' = TRUE /\ tx_ready' = FALSE
    BY <1>0, <2>1, <2>2, OfferTaken
  <2> QED BY <2>1, <2>3 DEF Transmitter
<1>8. ASSUME TxFree, Uart, NEW b, SendData(b)
      PROVE  Transmitter'
  <2>1. tx_ready /\ ~tx_valid /\ tx_valid' = TRUE /\ state' \in {"idle", "dma_read_req"}
    BY <1>8 DEF SendData, TxFree, Present, ToIdle, Goto
  <2>2. tx_busy' = FALSE /\ tx_ready' = TRUE
    BY <1>0, <1>8, <2>1 DEF Uart, Transmitter
  <2> QED BY <2>1, <2>2 DEF Transmitter
<1>9. CASE DmaReadSend
  BY <1>8, <1>9 DEF DmaReadSend, Clock
<1>10. CASE DmaReadValid
  <2>1. Uart
    BY <1>10 DEF DmaReadValid, Clock
  <2>2. CASE TxFree
    BY <1>8, <1>10, <2>1, <2>2 DEF DmaReadValid
  <2>3. CASE ~TxFree
    <3>1. state' = "dma_read_resp" /\ tx_valid' = FALSE
      BY <1>10, <2>3 DEF DmaReadValid, NoByte
    <3>2. tx_busy' => ~tx_ready'
      BY <1>0, <2>1 DEF Uart, Transmitter
    <3> QED BY <3>1, <3>2 DEF Transmitter
  <2> QED BY <2>2, <2>3
<1>11. CASE WaitClock
  <2>1. /\ state' = state /\ tx_valid' = FALSE /\ Uart /\ state # "send_ack"
        /\ state \notin {"dispatch", "dma_read_req"}
        /\ ~tx_busy /\ (tx_valid \/ ~tx_ready)
    BY <1>11 DEF WaitClock, Clock, NoByte
  <2>2. state \notin {"payload", "dma_write", "wait_nmc"}
    BY <1>0, <2>1 DEF Transmitter, LineIdle
  <2>3. tx_busy' => ~tx_ready'
    BY <1>0, <2>1 DEF Uart
  <2> QED BY <2>1, <2>2, <2>3 DEF Transmitter
<1>12. CASE Watchdog
  <2>1. state' = "idle" /\ tx_valid' = FALSE /\ Uart
    BY <1>12 DEF Watchdog, ToIdle, Goto, NoByte
  <2>2. tx_busy' => ~tx_ready'
    BY <1>0, <2>1 DEF Uart, Transmitter
  <2> QED BY <2>1, <2>2 DEF Transmitter
<1>13. CASE EngineDone
  <2>1. UNCHANGED uart /\ (state' = state \/ (state = "wait_nmc" /\ state' = "send_ack"))
    BY <1>13 DEF EngineDone, Goto
  <2> QED BY <2>1 DEF Transmitter, LineIdle, uart
<1>14. CASE UartDone
  <2>1. /\ tx_busy' = FALSE /\ UNCHANGED <<state, tx_valid, tx_ready>>
        /\ tx_busy /\ state \notin {"dispatch", "send_ack", "dma_read_req"}
    BY <1>14 DEF UartDone, AtRest
  <2>2. ~tx_ready /\ ~tx_valid
    BY <1>0, <2>1 DEF Transmitter
  <2> QED BY <2>1, <2>2 DEF Transmitter, LineIdle
<1>15. CASE BoardTick
  BY <1>15 DEF BoardTick, uart, Transmitter, LineIdle
<1>16. ASSUME UNCHANGED <<state, tx_valid, tx_ready, tx_busy>> PROVE Transmitter'
  BY <1>16 DEF Transmitter, LineIdle
<1>17. CASE RecvHeader \/ RecvPayload \/ Timeout
  BY <1>16, <1>17 DEF RecvHeader, RecvPayload, Timeout, Take
<1>18. CASE Restart \/ Opened \/ Stray
  BY <1>16, <1>18 DEF Restart, Opened, Stray, uart
<1>19. ASSUME NEW c \in Calls, Send(c) PROVE Transmitter'
  BY <1>16, <1>19 DEF Send, uart
<1>20. CASE UNCHANGED vars
  BY <1>16, <1>20 DEF vars, controller_vars, uart
<1>21. ControllerNext => Transmitter'
  BY <1>1, <1>2, <1>3, <1>4, <1>5, <1>6, <1>7, <1>9, <1>10, <1>11, <1>12 DEF ControllerNext
<1> QED
  BY <1>13, <1>14, <1>15, <1>17, <1>18, <1>19, <1>20, <1>21
  DEF Next, ControllerStep, TransmitterStep, EngineStep, HostReceive, Tick

-----------------------------------------------------------------------------
(***************************************************************************)
(* Facts about a state.                                                    *)
(***************************************************************************)
LEMMA StateFacts ==
  ASSUME TypeOK
  PROVE  /\ call \in Calls /\ phase \in {"closed", "header", "payload", "opening"}
         /\ waited \in Nat /\ stall_cnt \in Nat /\ stall_cnt <= WatchdogLimitNmc
         /\ tx_valid \in BOOLEAN /\ tx_ready \in BOOLEAN /\ tx_busy \in BOOLEAN
         /\ tx_data \in Symbols /\ tx_shift \in Symbols
         /\ up \in Seq(Symbols) /\ down \in Seq(Symbols) /\ Len(up) \in Nat
         /\ ack_byte_idx \in {0, 1, 2} /\ resp_hdr_idx \in {0, 1, 2}
         /\ call.len \in Nat /\ call.addr \in Nat /\ Len(call.data) \in Nat
         /\ rd.sent \in Nat /\ rd.requested \in Nat /\ rd.total \in Nat /\ rd.base \in Nat
         /\ Symbols \subseteq Nat /\ 0 \in Symbols
<1>1. ControllerTypeOK /\ MessageTypeOK /\ LineTypeOK /\ TransferTypeOK
  BY DEF TypeOK, ControllerTypeOK
<1>2. /\ tx_valid \in BOOLEAN /\ tx_ready \in BOOLEAN /\ tx_busy \in BOOLEAN
      /\ tx_data \in Symbols /\ tx_shift \in Symbols
      /\ up \in Seq(Symbols) /\ down \in Seq(Symbols) /\ Len(up) \in Nat
  BY <1>1 DEF LineTypeOK
<1>3. call \in Calls /\ phase \in {"closed", "header", "payload", "opening"} /\ waited \in 0 .. HostTimeout
  BY DEF TypeOK
<1>4. waited \in Nat
  BY <1>3, LinkAssumption DEF LinkConstantsOK
<1>5. call.len \in Symbols /\ call.addr \in Symbols /\ Len(call.data) \in Nat
  BY <1>3, CallFacts
<1>6. stall_cnt \in Nat /\ stall_cnt <= WatchdogLimitNmc
  BY <1>1, TimingFacts DEF TransferTypeOK
<1>7. ack_byte_idx \in {0, 1, 2} /\ resp_hdr_idx \in {0, 1, 2}
  BY <1>1 DEF MessageTypeOK
<1>8. Symbols \subseteq Nat /\ 0 \in Symbols
  BY CodesAreSymbols
<1>9. rd.sent \in Nat /\ rd.requested \in Nat /\ rd.total \in Nat /\ rd.base \in Nat
  BY <1>1, <1>8, ReadTypes
<1> QED BY <1>2, <1>3, <1>4, <1>5, <1>6, <1>7, <1>8, <1>9

LEMMA ContentsTyped ==
  ASSUME TypeOK
  PROVE  /\ Contents \in Seq(Symbols) /\ Len(Contents) = call.len
         /\ \A i \in 1 .. call.len : Contents[i] = mem[Cell(call.addr + i - 1)]
<1>1. call.len \in Nat /\ call.addr \in Nat
  BY StateFacts
<1>2. ASSUME NEW i \in 1 .. call.len PROVE mem[Cell(call.addr + i - 1)] \in Symbols
  <2>1. call.addr + i - 1 \in Nat
    BY <1>1
  <2> QED BY <2>1, CellInMemory DEF TypeOK, ControllerTypeOK, BoardTypeOK
<1> QED BY <1>1, <1>2 DEF Contents

LEMMA ReplyShape ==
  ASSUME TypeOK
  PROVE  /\ Reply \in Seq(Symbols) /\ Len(Reply) \in Nat
         /\ call.op = "read" =>
              /\ Len(Reply) = HeaderLen + call.len
              /\ Reply[1] = MSG_DATA_RESPONSE /\ Reply[2] = 0 /\ Reply[3] = call.len
              /\ \A i \in 1 .. call.len : Reply[HeaderLen + i] = mem[Cell(call.addr + i - 1)]
         /\ call.op # "read" =>
              /\ Len(Reply) = HeaderLen
              /\ Reply[1] = MSG_ACK /\ Reply[2] = 0 /\ Reply[3] = 0
<1>1. CASE call.op # "read"
  <2>1. Reply = <<MSG_ACK, 0, 0>>
    BY <1>1 DEF Reply
  <2>2. <<MSG_ACK, 0, 0>> \in Seq(Symbols)
    BY CodesAreSymbols DEF MSG_ACK
  <2> QED BY <1>1, <2>1, <2>2
<1>2. CASE call.op = "read"
  <2> DEFINE h == <<MSG_DATA_RESPONSE, 0, call.len>>
  <2>1. Reply = h \o Contents
    BY <1>2 DEF Reply
  <2>2. call.len \in Nat /\ call.len \in Symbols
    BY CallFacts, StateFacts
  <2>3. Len(h) = 3 /\ h[1] = MSG_DATA_RESPONSE /\ h[2] = 0 /\ h[3] = call.len
    OBVIOUS
  <2>4. h \in Seq(Symbols) /\ Contents \in Seq(Symbols)
    BY <2>2, CodesAreSymbols, ContentsTyped DEF MSG_DATA_RESPONSE
  <2> HIDE DEF h
  <2>5. /\ h \o Contents \in Seq(Symbols) /\ Len(h \o Contents) = Len(h) + Len(Contents)
        /\ \A i \in 1 .. Len(h) : (h \o Contents)[i] = h[i]
        /\ \A i \in 1 .. Len(Contents) : (h \o Contents)[Len(h) + i] = Contents[i]
    BY ONLY <2>4, JoinedSeq, SMTT(30)
  <2>6. /\ Len(Contents) = call.len
        /\ \A i \in 1 .. call.len : Contents[i] = mem[Cell(call.addr + i - 1)]
    BY ContentsTyped
  <2>7. 1 \in 1 .. 3 /\ 2 \in 1 .. 3 /\ 3 \in 1 .. 3
    OBVIOUS
  <2> QED BY <1>2, <2>1, <2>2, <2>3, <2>5, <2>6, <2>7
<1> QED BY <1>1, <1>2

LEMMA ReplyKept ==
  ASSUME UNCHANGED <<call, mem>>
  PROVE  Reply' = Reply
  BY DEF Reply, Contents

LEMMA ReplyFits ==
  ASSUME TypeOK, Undisturbed
  PROVE  Len(Reply) <= TtyBuffer
  BY ReplyShape, StateFacts DEF Undisturbed

LEMMA TransmittedTyped ==
  ASSUME TypeOK
  PROVE  /\ Transmitted \in Seq(Symbols) /\ Len(Transmitted) \in Nat
         /\ tx_busy \/ tx_valid => Len(Transmitted) = 1
         /\ ~tx_busy /\ ~tx_valid => Transmitted = <<>> /\ Len(Transmitted) = 0
  BY StateFacts DEF Transmitted

\* What Sent says of lengths and of what has arrived.
LEMMA SentFacts ==
  ASSUME TypeOK, NEW n \in Nat, Sent(n)
  PROVE  /\ Taken \in Nat /\ Len(up) + Len(Transmitted) = n - Taken
         /\ n <= Len(Reply) /\ Taken <= n
         /\ \A i \in 1 .. Len(up) : up[i] = Reply[Taken + i]
<1>1. /\ Taken \in Nat /\ Taken <= n /\ n <= Len(Reply)
      /\ up \o Transmitted = SubSeq(Reply, Taken + 1, n)
  BY DEF Sent, Taken
<1>2. Reply \in Seq(Symbols) /\ up \in Seq(Symbols) /\ Transmitted \in Seq(Symbols)
  BY ReplyShape, StateFacts, TransmittedTyped
<1>3. /\ Len(up) + Len(Transmitted) = n - Taken
      /\ \A i \in 1 .. Len(up) : up[i] = Reply[Taken + i]
  <2> DEFINE e == up \o Transmitted
  <2>1. e = up \o Transmitted /\ e = SubSeq(Reply, Taken + 1, n)
    BY <1>1
  <2>2. /\ e \in Seq(Symbols) /\ Len(e) = Len(up) + Len(Transmitted)
        /\ \A i \in 1 .. Len(up) : e[i] = up[i]
    BY ONLY <1>2, JoinedSeq, SMTT(30)
  <2> HIDE DEF e
  <2>3. Len(e) = n - Taken /\ \A i \in 1 .. n - Taken : e[i] = Reply[Taken + i]
    BY <1>1, <1>2, <2>1, PartOfSeq
  <2>4. Len(up) \in Nat /\ Len(Transmitted) \in Nat
    BY StateFacts, TransmittedTyped
  <2>5. Len(up) + Len(Transmitted) = n - Taken
    BY <2>2, <2>3
  <2>6. \A i \in 1 .. Len(up) : i \in 1 .. n - Taken
    BY ONLY <2>4, <2>5
  <2> QED BY ONLY <2>2, <2>3, <2>5, <2>6
<1> QED BY <1>1, <1>3

-----------------------------------------------------------------------------
(***************************************************************************)
(* What a step does to the line.                                           *)
(***************************************************************************)
GotAfter(k) ==
  /\ down' = SubSeq(Asked', k + 1, Len(Asked'))
  /\ \A i \in 1 .. k : Register(i)' = Asked'[i]

SentAfter(n) ==
  /\ Taken' <= n /\ n <= Len(Reply')
  /\ up' \o Transmitted' = SubSeq(Reply', Taken' + 1, n)

LEMMA LineCarries ==
  ASSUME TypeOK, Transmitter, Uart, tx_busy \/ tx_valid \/ tx_valid' = FALSE
  PROVE  up' = up /\ Transmitted' = Transmitted
<1>0. /\ tx_valid \in BOOLEAN /\ tx_ready \in BOOLEAN /\ tx_busy \in BOOLEAN
  BY StateFacts
<1>1. CASE tx_busy
  <2>1. tx_busy' = tx_busy /\ tx_shift' = tx_shift /\ up' = up
    BY <1>1 DEF Uart
  <2> QED BY <1>1, <2>1 DEF Transmitted
<1>2. CASE ~tx_busy /\ tx_valid
  <2>1. tx_busy' = TRUE /\ tx_shift' = tx_data /\ up' = up
    BY <1>0, <1>2 DEF Uart, Transmitter
  <2> QED BY <1>2, <2>1 DEF Transmitted
<1>3. CASE ~tx_busy /\ ~tx_valid
  <2>1. tx_busy' = tx_busy /\ up' = up /\ tx_valid' = FALSE
    BY <1>3 DEF Uart
  <2> QED BY <1>3, <2>1 DEF Transmitted
<1> QED BY <1>0, <1>1, <1>2, <1>3

LEMMA LineOffers ==
  ASSUME TypeOK, Uart, ~tx_busy, ~tx_valid, NEW b, tx_valid' = TRUE, tx_data' = b
  PROVE  up' = up /\ Transmitted = <<>> /\ Transmitted' = <<b>>
<1>1. tx_busy' = tx_busy /\ up' = up
  BY DEF Uart
<1> QED BY <1>1 DEF Transmitted

LEMMA SentKept ==
  ASSUME NEW n, Sent(n), up' \o Transmitted' = up \o Transmitted, UNCHANGED <<phase, call, mem>>
  PROVE  SentAfter(n)
  BY ReplyKept DEF Sent, SentAfter, Taken

LEMMA SentMore ==
  ASSUME TypeOK, NEW n \in Nat, Sent(n), n < Len(Reply), UNCHANGED <<up, phase, call, mem>>,
         Transmitted = <<>>, Transmitted' = <<Reply[n + 1]>>
  PROVE  SentAfter(n + 1)
<1>1. Reply' = Reply /\ Taken' = Taken
  BY ReplyKept DEF Taken
<1>2. Reply \in Seq(Symbols) /\ Len(Reply) \in Nat /\ up \in Seq(Symbols)
  BY ReplyShape, StateFacts
<1>3. Taken \in Nat /\ Taken <= n
  BY SentFacts
<1>4. up = SubSeq(Reply, Taken + 1, n)
  <2>1. up \o <<>> = up
    BY <1>2, ConcatEmptySeq
  <2> QED BY <2>1 DEF Sent
<1>5. up \o <<Reply[n + 1]>> = SubSeq(Reply, Taken + 1, n + 1)
  BY <1>2, <1>3, <1>4, NextOfSeq
<1>6. up' \o Transmitted' = SubSeq(Reply', Taken' + 1, n + 1)
  BY <1>1, <1>5
<1> QED BY <1>1, <1>2, <1>3, <1>6 DEF SentAfter

\* Taking k symbols off the front of what has arrived.
LEMMA FrontTaken ==
  ASSUME TypeOK, NEW n \in Nat, NEW k \in Nat, n <= Len(Reply), k <= Len(up),
         up \o Transmitted = SubSeq(Reply, 0 + 1, n)
  PROVE  SubSeq(up, k + 1, Len(up)) \o Transmitted = SubSeq(Reply, k + 1, n)
<1>0. /\ Reply \in Seq(Symbols) /\ up \in Seq(Symbols) /\ Transmitted \in Seq(Symbols)
      /\ Len(Reply) \in Nat /\ Len(up) \in Nat /\ Len(Transmitted) \in Nat
  BY ReplyShape, StateFacts, TransmittedTyped
<1> DEFINE e == up \o Transmitted
           g == SubSeq(up, k + 1, Len(up))
           h == g \o Transmitted
           q == SubSeq(Reply, k + 1, n)
<1>1. /\ e \in Seq(Symbols) /\ Len(e) = Len(up) + Len(Transmitted)
      /\ \A i \in 1 .. Len(up) : e[i] = up[i]
      /\ \A i \in 1 .. Len(Transmitted) : e[Len(up) + i] = Transmitted[i]
  BY ONLY <1>0, JoinedSeq, SMTT(30)
<1>2. e = SubSeq(Reply, 0 + 1, n)
  OBVIOUS
<1> HIDE DEF e
<1>3. Len(e) = n /\ \A i \in 1 .. n : e[i] = Reply[i]
  <2>1. Len(e) = n - 0 /\ \A i \in 1 .. n - 0 : e[i] = Reply[0 + i]
    BY <1>0, <1>2, PartOfSeq
  <2>2. n - 0 = n /\ \A i \in 1 .. n : 0 + i = i
    OBVIOUS
  <2> QED BY <2>1, <2>2
<1>4. g \in Seq(Symbols) /\ Len(g) = Len(up) - k /\ \A i \in 1 .. Len(up) - k : g[i] = up[k + i]
  BY <1>0, PartOfSeq
<1> HIDE DEF g
<1>5. /\ h \in Seq(Symbols) /\ Len(h) = Len(g) + Len(Transmitted)
      /\ \A i \in 1 .. Len(g) : h[i] = g[i]
      /\ \A i \in 1 .. Len(Transmitted) : h[Len(g) + i] = Transmitted[i]
  <2>1. g \in Seq(Symbols)
    BY <1>4
  <2> QED BY ONLY <1>0, <2>1, JoinedSeq, SMTT(30)
<1> HIDE DEF h
<1>6. n = Len(up) + Len(Transmitted) /\ k <= n
  BY <1>0, <1>1, <1>3
<1>7. q \in Seq(Symbols) /\ Len(q) = n - k /\ \A i \in 1 .. n - k : q[i] = Reply[k + i]
  BY <1>0, <1>6, PartOfSeq
<1> HIDE DEF q
<1>8. Len(h) = n - k /\ n - k \in Nat
  BY <1>0, <1>4, <1>5, <1>6
<1>9. ASSUME NEW i \in 1 .. n - k PROVE h[i] = q[i]
  <2>1. CASE i <= Len(g)
    <3>1. i \in 1 .. Len(g) /\ i \in 1 .. Len(up) - k /\ k + i \in 1 .. Len(up) /\ k + i \in 1 .. n
      BY <1>0, <1>4, <1>6, <1>9, <2>1
    <3>2. h[i] = g[i] /\ g[i] = up[k + i] /\ e[k + i] = up[k + i] /\ e[k + i] = Reply[k + i]
      BY <1>1, <1>3, <1>4, <1>5, <3>1
    <3> QED BY <1>7, <3>2
  <2>2. CASE i > Len(g)
    <3> DEFINE j == i - Len(g)
    <3>1. /\ j \in 1 .. Len(Transmitted) /\ i = Len(g) + j
          /\ Len(up) + j = k + i /\ Len(up) + j \in 1 .. n
      BY <1>0, <1>4, <1>6, <1>9, <2>2
    <3> HIDE DEF j
    <3>2. /\ h[i] = Transmitted[j] /\ e[Len(up) + j] = Transmitted[j]
          /\ e[Len(up) + j] = Reply[Len(up) + j]
      BY <1>1, <1>3, <1>5, <3>1
    <3> QED BY <1>7, <3>1, <3>2
  <2> QED BY <2>1, <2>2, <1>4, <1>0
<1>10. h = q
  BY <1>5, <1>7, <1>8, <1>9, SameElements
<1> QED BY <1>10 DEF h, g, q

LEMMA ReplyTyped == TypeOK => Reply \in Seq(Symbols) /\ Len(Reply) \in Nat
  BY ReplyShape

\* The first answer symbol is still to be sent.
LEMMA NothingSent ==
  ASSUME TypeOK, TypeOK', phase' = "header", up' = <<>>, Transmitted' = <<>>
  PROVE  SentAfter(0)
<1>1. Taken' = 0
  BY DEF Taken
<1>2. (TypeOK => Reply \in Seq(Symbols) /\ Len(Reply) \in Nat)'
  BY ReplyTyped, PTL
<1>3. SubSeq(Reply', 0 + 1, 0) = <<>>
  BY <1>2
<1>4. <<>> \o <<>> = <<>>
  OBVIOUS
<1> QED BY <1>1, <1>2, <1>3, <1>4 DEF SentAfter

-----------------------------------------------------------------------------
(***************************************************************************)
(* Receiving a request.                                                    *)
(***************************************************************************)
LEMMA AskedKept ==
  ASSUME call' = call
  PROVE  Asked' = Asked /\ Collected' = Collected
  BY DEF Asked, Collected

LEMMA HostKept ==
  ASSUME HostUntouched
  PROVE  UNCHANGED <<call, phase, waited, answer, verdict, ran>>
  BY DEF HostUntouched, host

\* The next symbol of the request goes into its register.
LEMMA SymbolTaken ==
  ASSUME TypeOK, NEW k \in Nat, Got(k), down # <<>>, down' = Tail(down), call' = call,
         \A i \in 1 .. k + 1 : Register(i)' = IF i = k + 1 THEN Head(down) ELSE Register(i)
  PROVE  GotAfter(k + 1) /\ Head(down) = Asked[k + 1] /\ k < Len(Asked)
<1>1. call \in Calls /\ down \in Seq(Symbols)
  BY StateFacts
<1>2. Asked \in Seq(Symbols) /\ Len(Asked) \in Nat
  BY <1>1, AskedShape
<1>3. down = SubSeq(Asked, k + 1, Len(Asked)) /\ \A i \in 1 .. k : Register(i) = Asked[i]
  BY DEF Got
<1>4. k \in 0 .. Len(Asked)
  <2>1. k > Len(Asked) => SubSeq(Asked, k + 1, Len(Asked)) = <<>>
    BY <1>2
  <2> QED BY <1>2, <1>3, <2>1
<1>5. /\ k < Len(Asked) /\ Head(down) = Asked[k + 1]
      /\ Tail(down) = SubSeq(Asked, k + 2, Len(Asked))
  BY <1>2, <1>3, <1>4, RestOfSeq
<1>6. Asked' = Asked
  BY AskedKept
<1>7. \A i \in 1 .. k + 1 : Register(i)' = Asked'[i]
  <2> SUFFICES ASSUME NEW i \in 1 .. k + 1 PROVE Register(i)' = Asked'[i]
    OBVIOUS
  <2>1. i = k + 1 \/ i \in 1 .. k
    OBVIOUS
  <2> QED BY <1>3, <1>5, <1>6, <2>1
<1>8. down' = SubSeq(Asked', (k + 1) + 1, Len(Asked'))
  <2>1. (k + 1) + 1 = k + 2
    OBVIOUS
  <2> QED BY <1>5, <1>6, <2>1
<1> QED BY <1>5, <1>7, <1>8 DEF GotAfter

LEMMA StaysEmpty ==
  ASSUME TypeOK, LineEmpty, Uart, tx_valid' = FALSE
  PROVE  LineEmpty' /\ Transmitted' = <<>> /\ up' = <<>>
<1>1. UNCHANGED <<tx_busy, up>>
  BY NothingOffered DEF LineEmpty, TypeOK, ControllerTypeOK
<1> QED BY <1>1 DEF LineEmpty, Transmitted

LEMMA ReceivedFacts ==
  ASSUME Received
  PROVE  /\ Uart /\ tx_valid' = FALSE /\ stall_cnt' = 0
         /\ down # <<>> /\ down' = Tail(down)
  BY DEF Received, Clock, NoByte

\* Bytes are under way to the controller only while it is receiving.
LEMMA OnTheWay ==
  ASSUME Exchange, down # <<>>
  PROVE  Open /\ answer = <<>> /\ verdict = "none" /\ (Receiving \/ Writing)
  BY DEF Exchange, Closed, Open, Working, GaveUp, Acking, Responding

LEMMA StillReceiving ==
  ASSUME answer = <<>>, verdict = "none", Fresh, waited = 0, HostUntouched,
         LineEmpty', stall_cnt' = 0,
         \/ state' = "header" /\ header_idx' \in {1, 2} /\ GotAfter(header_idx')
         \/ /\ state' = "payload" /\ payload_len' = Asked[3] /\ payload_idx' < Collected
            /\ GotAfter(HeaderLen + payload_idx')
         \/ state' = "dispatch" /\ payload_len' = Asked[3] /\ GotAfter(HeaderLen + Collected)
  PROVE  Exchange'
<1>1. UNCHANGED <<call, phase, waited, answer, verdict, ran>>
  BY HostKept
<1>2. Asked' = Asked /\ Collected' = Collected
  BY <1>1, AskedKept
<1>3. Fresh'
  BY <1>1 DEF Fresh
<1>4. Receiving'
  BY <1>1, <1>2, <1>3 DEF Receiving, Got, GotAfter
<1> QED BY <1>1, <1>4 DEF Exchange, Open

LEMMA IdleByteKeeps ==
  ASSUME TypeOK, Exchange, IdleByte, HostUntouched
  PROVE  Exchange'
<1>1. /\ state = "idle" /\ Received /\ state' = "header" /\ header_idx' = 1
      /\ header_buf' = [header_buf EXCEPT ![0] = Head(down)] /\ payload_buf' = payload_buf
  BY DEF IdleByte, Goto
<1>2. /\ Uart /\ tx_valid' = FALSE /\ stall_cnt' = 0
      /\ down # <<>> /\ down' = Tail(down)
  BY <1>1, ReceivedFacts
<1>3. answer = <<>> /\ verdict = "none" /\ Receiving
  BY <1>1, <1>2, OnTheWay DEF Writing
<1>4. Fresh /\ waited = 0 /\ Got(0)
  BY <1>1, <1>3 DEF Receiving
<1>5. LineEmpty'
  BY <1>2, <1>4, StaysEmpty DEF Fresh
<1>6. call' = call
  BY HostKept
<1>7. \A i \in 1 .. 0 + 1 : Register(i)' = IF i = 0 + 1 THEN Head(down) ELSE Register(i)
  BY <1>1 DEF Register, TypeOK, ControllerTypeOK, MessageTypeOK
<1>8. GotAfter(0 + 1)
  BY <1>2, <1>4, <1>6, <1>7, SymbolTaken
<1>9. GotAfter(header_idx')
  <2>1. 0 + 1 = header_idx'
    BY <1>1
  <2> QED BY <1>8, <2>1
<1> QED BY <1>1, <1>2, <1>3, <1>4, <1>5, <1>9, StillReceiving

LEMMA HeaderByteKeeps ==
  ASSUME TypeOK, Exchange, HeaderByte, HostUntouched
  PROVE  Exchange'
<1>1. state = "header" /\ Received /\ payload_buf' = payload_buf
  BY DEF HeaderByte
<1>2. /\ Uart /\ tx_valid' = FALSE /\ stall_cnt' = 0
      /\ down # <<>> /\ down' = Tail(down)
  BY <1>1, ReceivedFacts
<1>3. answer = <<>> /\ verdict = "none" /\ Receiving
  BY <1>1, <1>2, OnTheWay DEF Writing
<1>4. Fresh /\ waited = 0 /\ header_idx \in {1, 2} /\ Got(header_idx)
  BY <1>1, <1>3 DEF Receiving, Resting
<1>5. LineEmpty'
  BY <1>2, <1>4, StaysEmpty DEF Fresh
<1>6. call' = call /\ call \in Calls
  BY HostKept, StateFacts
<1>7. ASSUME NEW k \in {1, 2}, header_idx = k
      PROVE  GotAfter(k + 1) /\ Head(down) = Asked[k + 1]
  <2>1. \A i \in 1 .. k + 1 : Register(i)' = IF i = k + 1 THEN Head(down) ELSE Register(i)
    BY <1>1, <1>7 DEF HeaderByte, Register, TypeOK, ControllerTypeOK, MessageTypeOK
  <2>2. Got(k)
    BY <1>4, <1>7
  <2> QED BY <1>2, <1>6, <1>7, <2>1, <2>2, SymbolTaken
<1>8. CASE header_idx = 1
  <2>1. state' = "header" /\ header_idx' = 2
    BY <1>1, <1>8 DEF HeaderByte
  <2>2. GotAfter(1 + 1)
    BY <1>7, <1>8
  <2>3. GotAfter(header_idx')
    <3>1. 1 + 1 = header_idx'
      BY <2>1
    <3> QED BY <2>2, <3>1
  <2> QED BY <1>2, <1>3, <1>4, <1>5, <2>1, <2>3, StillReceiving
<1>9. CASE header_idx = 2
  <2>1. /\ payload_len' = Head(down) /\ payload_idx' = 0
        /\ state' = IF Head(down) = 0 THEN "dispatch" ELSE "payload"
    BY <1>1, <1>9 DEF HeaderByte, Goto
  <2>2. GotAfter(2 + 1) /\ Head(down) = Asked[2 + 1]
    BY <1>7, <1>9
  <2>3. Head(down) = Asked[3] /\ (Asked[3] = 0 <=> Collected = 0) /\ Collected \in 0 .. 3
    BY <1>6, <2>2, AskedShape
  <2>4. CASE Head(down) = 0
    <3>1. 2 + 1 = HeaderLen + Collected
      BY <2>3, <2>4
    <3>2. GotAfter(HeaderLen + Collected)
      BY <2>2, <3>1
    <3> QED BY <1>2, <1>3, <1>4, <1>5, <2>1, <2>3, <2>4, <3>2, StillReceiving
  <2>5. CASE Head(down) # 0
    <3>1. 2 + 1 = HeaderLen + payload_idx'
      BY <2>1
    <3>2. GotAfter(HeaderLen + payload_idx') /\ payload_idx' < Collected
      BY <2>1, <2>2, <2>3, <2>5, <3>1
    <3> QED BY <1>2, <1>3, <1>4, <1>5, <2>1, <2>3, <2>5, <3>2, StillReceiving
  <2> QED BY <2>4, <2>5
<1> QED BY <1>4, <1>8, <1>9

LEMMA PayloadByteKeeps ==
  ASSUME TypeOK, Exchange, PayloadByte, HostUntouched
  PROVE  Exchange'
<1>1. /\ state = "payload" /\ Received
      /\ payload_buf' = [payload_buf EXCEPT ![payload_idx] = Head(down)]
      /\ UNCHANGED <<header_buf, payload_len>>
  BY DEF PayloadByte
<1>2. /\ Uart /\ tx_valid' = FALSE /\ stall_cnt' = 0
      /\ down # <<>> /\ down' = Tail(down)
  BY <1>1, ReceivedFacts
<1>3. answer = <<>> /\ verdict = "none" /\ Receiving
  BY <1>1, <1>2, OnTheWay DEF Writing
<1>4. /\ Fresh /\ waited = 0 /\ payload_len = Asked[3] /\ payload_idx < Collected
      /\ Got(HeaderLen + payload_idx)
  BY <1>1, <1>3 DEF Receiving, Resting
<1>5. LineEmpty'
  BY <1>2, <1>4, StaysEmpty DEF Fresh
<1>6. call' = call /\ call \in Calls
  BY HostKept, StateFacts
<1>7. /\ Collected \in 0 .. 3
      /\ call.op # "write" => Asked[3] = Collected
      /\ Asked[1] = MSG_DATA_WRITE <=> call.op = "write"
  BY <1>6, AskedShape
<1>8. payload_idx \in {0, 1, 2} /\ BufLen \in Nat /\ BufLen > 3
  BY <1>4, <1>7, CodesAreSymbols DEF TypeOK, ControllerTypeOK, MessageTypeOK
<1>9. ASSUME NEW j \in {0, 1, 2}, payload_idx = j
      PROVE  Exchange'
  <2>1. Got(3 + j)
    BY <1>4, <1>9
  <2>2. \A i \in 1 .. (3 + j) + 1 :
          Register(i)' = IF i = (3 + j) + 1 THEN Head(down) ELSE Register(i)
    BY <1>1, <1>8, <1>9 DEF Register, TypeOK, ControllerTypeOK, MessageTypeOK
  <2>3. GotAfter((3 + j) + 1)
    BY <1>2, <1>6, <2>1, <2>2, SymbolTaken
  <2>4. header_buf[0] = Asked[1]
    BY <2>1 DEF Got, Register
  <2>5. PayloadComplete <=> j + 1 = Collected
    <3>1. CASE call.op = "write"
      <4>1. Collected = 1
        BY <3>1 DEF Collected
      <4> QED BY <1>4, <1>7, <1>9, <2>4, <3>1, <4>1 DEF PayloadComplete
    <3>2. CASE call.op # "write"
      <4>1. payload_len = Collected /\ payload_len % BufLen = Collected
        BY <1>4, <1>7, <1>8, <3>2
      <4> QED BY <1>4, <1>7, <1>8, <1>9, <2>4, <3>2, <4>1 DEF PayloadComplete
    <3> QED BY <3>1, <3>2
  <2>6. CASE PayloadComplete
    <3>1. state' = "dispatch"
      BY <2>6 DEF PayloadByte, Goto
    <3>2. (3 + j) + 1 = HeaderLen + Collected
      BY <2>5, <2>6
    <3>3. GotAfter(HeaderLen + Collected)
      BY <2>3, <3>2
    <3> QED BY <1>1, <1>2, <1>3, <1>4, <1>5, <3>1, <3>3, StillReceiving
  <2>7. CASE ~PayloadComplete
    <3>1. state' = "payload" /\ payload_idx' = j + 1
      BY <1>1, <1>9, <2>7 DEF PayloadByte
    <3>2. (3 + j) + 1 = HeaderLen + payload_idx' /\ payload_idx' < Collected
      BY <1>4, <1>7, <1>9, <2>5, <2>7, <3>1
    <3>3. GotAfter(HeaderLen + payload_idx')
      BY <2>3, <3>2
    <3> QED BY <1>1, <1>2, <1>3, <1>4, <1>5, <3>1, <3>2, <3>3, StillReceiving
  <2> QED BY <2>6, <2>7
<1> QED BY <1>8, <1>9

\* A byte is never lost: while one is under way the controller is at a branch
\* that takes it.
LEMMA NoLostByte ==
  ASSUME TypeOK, Exchange, LostByte
  PROVE  FALSE
<1>1. /\ state \notin {"idle", "header", "payload", "dispatch"} /\ down # <<>>
      /\ tx_busy \/ state # "ack_wait"
      /\ state = "dma_write" => wr.remaining = 0
  BY DEF LostByte, AtRest
<1>2. Receiving \/ Writing
  BY <1>1, OnTheWay
<1>3. CASE Receiving
  BY <1>1, <1>3 DEF Receiving, Resting, LineEmpty
<1>4. CASE Writing
  BY <1>1, <1>4 DEF Writing
<1> QED BY <1>2, <1>3, <1>4

-----------------------------------------------------------------------------
(***************************************************************************)
(* Storing the data of a write, and dispatching a request.                 *)
(***************************************************************************)
StoredAfter(n) == \A i \in 1 .. n : mem'[Cell(call'.addr + i - 1)] = call'.data[i]

LEMMA AckStarts ==
  ASSUME TypeOK, TypeOK', answer' = <<>>, verdict' = "none", phase' = "header",
         waited' <= WatchdogLimitNmc, down' = <<>>, call'.op # "read", header_buf'[1] = 0,
         call'.op = "write" => StoredAfter(Len(call'.data)),
         call'.op = "nmc" => ran',
         state' = "send_ack", ack_byte_idx' = 0, tx_valid' = FALSE,
         up' = <<>>, Transmitted' = <<>>
  PROVE  Exchange'
<1>1. SentAfter(0)
  BY NothingSent
<1>2. SentAfter(IF tx_valid' THEN ack_byte_idx' + 1 ELSE ack_byte_idx')
  BY <1>1
<1>3. Acking'
  BY <1>2 DEF Acking, Sent, SentAfter, StoredTo, StoredAfter
<1> QED BY <1>3 DEF Exchange, Open

LEMMA SymbolStored ==
  ASSUME TypeOK, Undisturbed, call.op = "write", call' = call,
         NEW n \in Nat, n < Len(call.data), StoredTo(n),
         mem' = [mem EXCEPT ![Cell(call.addr + n)] = call.data[n + 1]]
  PROVE  StoredAfter(n + 1)
<1>1. /\ call \in Calls /\ call.addr \in Nat /\ Len(call.data) \in Nat
      /\ Len(call.data) <= MemLen /\ MemLen \in Nat
  BY StateFacts, ControllerAssumption DEF Undisturbed, ControllerConstantsOK
<1>2. SUFFICES ASSUME NEW i \in 1 .. n + 1
               PROVE  mem'[Cell(call.addr + i - 1)] = call.data[i]
  BY DEF StoredAfter
<1>3. mem \in [0 .. MemLen - 1 -> Symbols] /\ call.addr + n \in Nat
  BY <1>1 DEF TypeOK, ControllerTypeOK, BoardTypeOK
<1>4. Cell(call.addr + n) \in 0 .. MemLen - 1
  BY <1>3, CellInMemory
<1>5. CASE i = n + 1
  <2>1. call.addr + i - 1 = call.addr + n
    BY <1>1, <1>5
  <2>2. mem'[Cell(call.addr + n)] = call.data[n + 1]
    BY <1>3, <1>4
  <2> QED BY <1>5, <2>1, <2>2
<1>6. CASE i \in 1 .. n
  <2>1. i - 1 \in Nat /\ i - 1 < n /\ n - (i - 1) < MemLen
    BY <1>1, <1>6
  <2>2. Cell(call.addr + (i - 1)) # Cell(call.addr + n)
    BY <1>1, <2>1, CellsDiffer
  <2>3. call.addr + (i - 1) = call.addr + i - 1 /\ call.addr + i - 1 \in Nat
    BY <1>1, <1>6
  <2>4. Cell(call.addr + i - 1) \in 0 .. MemLen - 1
    BY <2>3, CellInMemory
  <2>5. mem'[Cell(call.addr + i - 1)] = mem[Cell(call.addr + i - 1)]
    BY <1>3, <2>2, <2>3, <2>4
  <2> QED BY <1>6, <2>5 DEF StoredTo
<1> QED BY <1>5, <1>6

LEMMA DmaWriteByteKeeps ==
  ASSUME TypeOK, TypeOK', Undisturbed, Exchange, DmaWriteByte, HostUntouched
  PROVE  Exchange'
<1>1. /\ state = "dma_write" /\ Received /\ header_buf' = header_buf
      /\ mem' = [mem EXCEPT ![Cell(wr.base)] = Head(down)]
      /\ wr' = [base |-> wr.base + 1, remaining |-> wr.remaining - 1]
      /\ wr.remaining = 1 => state' = "send_ack" /\ ack_byte_idx' = 0
      /\ wr.remaining # 1 => state' = state
  BY DEF DmaWriteByte, Goto, message
<1>2. /\ Uart /\ tx_valid' = FALSE /\ stall_cnt' = 0
      /\ down # <<>> /\ down' = Tail(down)
  BY <1>1, ReceivedFacts
<1>3. answer = <<>> /\ verdict = "none" /\ Writing
  <2>1. answer = <<>> /\ verdict = "none" /\ (Receiving \/ Writing)
    BY <1>2, OnTheWay
  <2>2. ~Receiving
    BY <1>1 DEF Receiving, Resting
  <2> QED BY <2>1, <2>2
<1>4. /\ Fresh /\ waited = 0 /\ call.op = "write" /\ header_buf[1] = 0
      /\ wr.remaining \in 1 .. Len(call.data)
      /\ wr.base = call.addr + (Len(call.data) - wr.remaining)
      /\ down = SubSeq(call.data, Len(call.data) - wr.remaining + 1, Len(call.data))
      /\ StoredTo(Len(call.data) - wr.remaining)
  BY <1>3 DEF Writing
<1>5. LineEmpty' /\ Transmitted' = <<>> /\ up' = <<>>
  BY <1>2, <1>4, StaysEmpty DEF Fresh
<1>6. UNCHANGED <<call, phase, waited, answer, verdict, ran>>
  BY HostKept
<1>7. /\ call \in Calls /\ call.data \in Seq(Symbols) /\ Len(call.data) \in Nat
      /\ call.addr \in Nat /\ wr.remaining \in Nat
  <2>1. call \in Calls /\ call.addr \in Nat
    BY StateFacts
  <2>2. call.data \in Seq(Symbols) /\ Len(call.data) \in Nat
    BY <2>1, CallFacts
  <2> QED BY <1>4, <2>1, <2>2
<1>8. Len(call.data) - wr.remaining \in Nat
  BY <1>4, <1>7
<1>9. SUFFICES ASSUME NEW n \in Nat, n = Len(call.data) - wr.remaining
               PROVE  Exchange'
  BY <1>8
<1>10. /\ wr.remaining = Len(call.data) - n /\ n < Len(call.data) /\ n \in 0 .. Len(call.data)
       /\ wr'.remaining = Len(call.data) - (n + 1) /\ wr'.base = call.addr + (n + 1)
       /\ Len(call.data) - wr'.remaining = n + 1
       /\ Len(call.data) - wr'.remaining + 1 = n + 2
  <2>1. wr'.base = wr.base + 1 /\ wr'.remaining = wr.remaining - 1
    BY <1>1
  <2>2. wr.remaining \in Nat /\ wr.remaining >= 1 /\ wr.base = call.addr + n
    BY <1>4, <1>7, <1>9
  <2>3. /\ wr.remaining = Len(call.data) - n /\ n < Len(call.data)
        /\ n \in 0 .. Len(call.data)
    BY ONLY <1>7, <1>9, <2>2, n \in Nat
  <2>4. wr'.remaining = Len(call.data) - (n + 1)
    BY ONLY <1>7, <2>1, <2>3, n \in Nat
  <2>5. wr'.base = call.addr + (n + 1)
    BY ONLY <1>7, <2>1, <2>2, n \in Nat
  <2>6. Len(call.data) - wr'.remaining = n + 1 /\ Len(call.data) - wr'.remaining + 1 = n + 2
    <3>1. \A l, m \in Nat : l - (l - (m + 1)) = m + 1 /\ l - (l - (m + 1)) + 1 = m + 2
      OBVIOUS
    <3>2. /\ Len(call.data) - (Len(call.data) - (n + 1)) = n + 1
          /\ Len(call.data) - (Len(call.data) - (n + 1)) + 1 = n + 2
      BY <1>7, <3>1
    <3> QED BY ONLY <2>4, <3>2, Zenon
  <2> QED BY <2>3, <2>4, <2>5, <2>6
<1>11. down = SubSeq(call.data, n + 1, Len(call.data)) /\ StoredTo(n) /\ wr.base = call.addr + n
  BY <1>4, <1>9
<1>12. Head(down) = call.data[n + 1] /\ Tail(down) = SubSeq(call.data, n + 2, Len(call.data))
  BY <1>7, <1>10, <1>11, RestOfSeq
<1>13. StoredAfter(n + 1)
  <2>1. mem' = [mem EXCEPT ![Cell(call.addr + n)] = call.data[n + 1]]
    BY <1>1, <1>11, <1>12
  <2> QED BY <1>4, <1>6, <1>10, <1>11, <2>1, SymbolStored
<1>14. CASE wr.remaining = 1
  <2>1. n + 1 = Len(call.data) /\ n + 2 = Len(call.data) + 1
    BY <1>7, <1>10, <1>14
  <2>2. down' = <<>>
    BY <1>2, <1>7, <1>12, <2>1, NoneLeft
  <2>3. waited' <= WatchdogLimitNmc
    BY <1>4, <1>6, ControllerAssumption DEF ControllerConstantsOK
  <2>4. StoredAfter(Len(call'.data))
    BY <1>6, <1>13, <2>1
  <2>5. /\ phase' = "header" /\ answer' = <<>> /\ verdict' = "none"
        /\ call'.op # "read" /\ (call'.op = "nmc" => ran') /\ header_buf'[1] = 0
        /\ state' = "send_ack" /\ ack_byte_idx' = 0
    BY <1>1, <1>3, <1>4, <1>6, <1>14 DEF Fresh
  <2> QED BY <1>2, <1>5, <2>2, <2>3, <2>4, <2>5, AckStarts
<1>15. CASE wr.remaining # 1
  <2>1. wr'.remaining \in 1 .. Len(call'.data)
    BY <1>1, <1>4, <1>6, <1>7, <1>15
  <2>2. down' = SubSeq(call'.data, Len(call'.data) - wr'.remaining + 1, Len(call'.data))
    <3>1. Len(call.data) - wr'.remaining + 1 = n + 2
      BY <1>10
    <3> QED BY <1>2, <1>6, <1>12, <3>1
  <2>3. StoredAfter(Len(call'.data) - wr'.remaining)
    BY <1>6, <1>10, <1>13
  <2>4. wr'.base = call'.addr + (Len(call'.data) - wr'.remaining)
    BY <1>6, <1>10
  <2>5. Fresh'
    BY <1>4, <1>5, <1>6 DEF Fresh
  <2>6. Writing'
    BY <1>1, <1>2, <1>4, <1>6, <1>15, <2>1, <2>2, <2>3, <2>4, <2>5
    DEF Writing, StoredTo, StoredAfter
  <2> QED BY <1>3, <1>6, <2>6 DEF Exchange, Open
<1> QED BY <1>14, <1>15

\* What a dispatch finds and leaves.
LEMMA DispatchFacts ==
  ASSUME TypeOK, Exchange, HostUntouched, NEW types, Dispatch(types)
  PROVE  /\ answer' = <<>> /\ verdict' = "none" /\ phase' = "header" /\ ~ran'
         /\ waited' = 0 /\ stall_cnt' = 0 /\ header_buf' = header_buf /\ down' = down
         /\ LineEmpty' /\ Transmitted' = <<>> /\ up' = <<>> /\ tx_valid' = FALSE
         /\ call' = call /\ call \in Calls
         /\ header_buf[0] = Asked[1] /\ header_buf[1] = 0 /\ header_buf[0] \in types
         /\ payload_len = Asked[3] /\ Collected \in 0 .. 3
         /\ \A i \in 0 .. Collected - 1 : payload_buf[i] = Asked[4 + i]
         /\ down = SubSeq(Asked, 3 + Collected + 1, Len(Asked))
         /\ call.op # "write" => down = <<>>
<1>1. /\ state = "dispatch" /\ header_buf[0] \in types /\ Uart /\ tx_valid' = FALSE
      /\ stall_cnt' = 0 /\ header_buf' = header_buf /\ down' = down
  BY DEF Dispatch, Clock, NoByte, InWaitState, message
<1>2. Open /\ answer = <<>> /\ verdict = "none" /\ Receiving
  BY <1>1 DEF Exchange, Closed, Open, Resting, Writing, Working, GaveUp, Acking, Responding
<1>3. /\ Fresh /\ waited = 0 /\ payload_len = Asked[3] /\ Got(HeaderLen + Collected)
  BY <1>1, <1>2 DEF Receiving, Resting
<1>4. LineEmpty' /\ Transmitted' = <<>> /\ up' = <<>>
  BY <1>1, <1>3, StaysEmpty DEF Fresh
<1>5. UNCHANGED <<call, phase, waited, answer, verdict, ran>> /\ call \in Calls
  BY HostKept, StateFacts
<1>6. /\ Asked[2] = 0 /\ Collected \in 0 .. 3 /\ Asked \in Seq(Symbols)
      /\ call.op # "write" => Len(Asked) = HeaderLen + Collected
  BY <1>5, AskedShape
<1>7. /\ down = SubSeq(Asked, (3 + Collected) + 1, Len(Asked))
      /\ \A i \in 1 .. 3 + Collected : Register(i) = Asked[i]
  BY <1>3 DEF Got
<1>8. header_buf[0] = Asked[1] /\ header_buf[1] = Asked[2]
  <2>1. 1 \in 1 .. 3 + Collected /\ 2 \in 1 .. 3 + Collected
    BY <1>6
  <2>2. Register(1) = header_buf[0] /\ Register(2) = header_buf[1]
    BY DEF Register
  <2> QED BY <1>7, <2>1, <2>2
<1>9. ASSUME NEW i \in 0 .. Collected - 1 PROVE payload_buf[i] = Asked[4 + i]
  <2>1. 4 + i \in 1 .. 3 + Collected /\ 4 + i > 3 /\ 4 + i - 3 - 1 = i
    BY <1>6, <1>9
  <2>2. Register(4 + i) = payload_buf[i]
    BY <2>1 DEF Register
  <2> QED BY <1>7, <2>1, <2>2
<1>10. call.op # "write" => down = <<>>
  BY <1>6, <1>7, NoneLeft
<1> QED BY <1>1, <1>2, <1>3, <1>4, <1>5, <1>6, <1>7, <1>8, <1>9, <1>10 DEF Fresh

LEMMA DispatchAckKeeps ==
  ASSUME TypeOK, TypeOK', Exchange, DispatchAck, HostUntouched
  PROVE  Exchange'
<1> DEFINE types == Symbols \ {MSG_NMC_EXEC, MSG_DATA_WRITE, MSG_DATA_READ}
<1>1. Dispatch(types) /\ state' = "send_ack" /\ ack_byte_idx' = 0
  BY DEF DispatchAck, Goto
<1>2. /\ answer' = <<>> /\ verdict' = "none" /\ phase' = "header"
      /\ waited' = 0 /\ header_buf' = header_buf /\ down' = down
      /\ Transmitted' = <<>> /\ up' = <<>> /\ tx_valid' = FALSE
      /\ call' = call /\ call \in Calls
      /\ header_buf[0] = Asked[1] /\ header_buf[1] = 0 /\ header_buf[0] \in types
      /\ call.op # "write" => down = <<>>
  BY <1>1, DispatchFacts
<1>3. call.op \notin {"write", "read", "nmc"}
  BY <1>2, AskedShape
<1>4. waited' <= WatchdogLimitNmc
  BY <1>2, ControllerAssumption DEF ControllerConstantsOK
<1> QED BY <1>1, <1>2, <1>3, <1>4, AckStarts

LEMMA DispatchNmcKeeps ==
  ASSUME TypeOK, TypeOK', Exchange, EngineTimed, DispatchNmc, HostUntouched
  PROVE  Exchange'
<1>1. /\ Dispatch({MSG_NMC_EXEC}) /\ state = "dispatch" /\ state' = "wait_nmc"
      /\ engine' = IF ~engine.busy /\ payload_buf[0] \in NmcEngines
                   THEN [busy |-> TRUE, in |-> payload_buf[1], out |-> payload_buf[2], age |-> 0]
                   ELSE engine
  BY DEF DispatchNmc, Dispatch, Goto
<1>2. /\ answer' = <<>> /\ verdict' = "none" /\ phase' = "header" /\ ~ran'
      /\ waited' = 0 /\ stall_cnt' = 0 /\ header_buf' = header_buf /\ down' = down
      /\ LineEmpty' /\ call' = call /\ call \in Calls
      /\ header_buf[0] = Asked[1] /\ header_buf[1] = 0 /\ header_buf[0] \in {MSG_NMC_EXEC}
      /\ \A i \in 0 .. Collected - 1 : payload_buf[i] = Asked[4 + i]
      /\ call.op # "write" => down = <<>>
  BY <1>1, DispatchFacts
<1>3. call.op = "nmc"
  BY <1>2, AskedShape
<1>4. Asked[3] = 3 /\ Asked[4] = call.nmc_op /\ Asked[5] = call.addr /\ Asked[6] = call.out
  BY <1>2, <1>3, OtherShapes DEF Asked
<1>5. payload_buf[0] = call.nmc_op /\ payload_buf[1] = call.addr /\ payload_buf[2] = call.out
  <2>1. Collected = 3
    BY <1>3, <1>4 DEF Collected
  <2>2. /\ 0 \in 0 .. 3 - 1 /\ 1 \in 0 .. 3 - 1 /\ 2 \in 0 .. 3 - 1
        /\ 4 + 0 = 4 /\ 4 + 1 = 5 /\ 4 + 2 = 6
    OBVIOUS
  <2> QED BY <1>2, <1>4, <2>1, <2>2
<1>6. ~(engine.busy /\ engine.age <= EngineTicks) /\ engine.busy \in BOOLEAN
  BY <1>1 DEF EngineTimed, TypeOK, ControllerTypeOK, BoardTypeOK
<1>7. /\ call.nmc_op \in NmcEngines => engine'.busy
      /\ engine'.busy /\ engine'.age <= EngineTicks =>
           engine'.in = call.addr /\ engine'.out = call.out
  BY <1>1, <1>5, <1>6
<1>8. Working'
  BY <1>1, <1>2, <1>3, <1>7 DEF Working, Fresh
<1> QED BY <1>2, <1>8 DEF Exchange, Open

LEMMA DispatchWriteKeeps ==
  ASSUME TypeOK, TypeOK', Exchange, DispatchWrite, HostUntouched
  PROVE  Exchange'
<1>1. /\ Dispatch({MSG_DATA_WRITE})
      /\ wr' = [base |-> payload_buf[0],
                remaining |-> IF payload_len > AddrLen THEN payload_len - AddrLen ELSE 0]
      /\ payload_len > AddrLen => state' = "dma_write"
  BY DEF DispatchWrite, Goto
<1>2. /\ answer' = <<>> /\ verdict' = "none" /\ phase' = "header" /\ ~ran'
      /\ waited' = 0 /\ stall_cnt' = 0 /\ header_buf' = header_buf /\ down' = down
      /\ LineEmpty' /\ call' = call /\ call \in Calls
      /\ header_buf[0] = Asked[1] /\ header_buf[1] = 0 /\ header_buf[0] \in {MSG_DATA_WRITE}
      /\ payload_len = Asked[3]
      /\ \A i \in 0 .. Collected - 1 : payload_buf[i] = Asked[4 + i]
      /\ down = SubSeq(Asked, 3 + Collected + 1, Len(Asked))
  BY <1>1, DispatchFacts
<1>3. call.op = "write"
  BY <1>2, AskedShape
<1>4. /\ Asked[3] = 1 + Len(call.data) /\ Asked[4] = call.addr
      /\ SubSeq(Asked, 5, Len(Asked)) = call.data
  BY <1>2, <1>3, WriteShape DEF Asked
<1>5. /\ Len(call.data) \in Nat /\ Len(call.data) > 0 /\ call.data \in Seq(Symbols)
      /\ call.addr \in Nat
  BY <1>2, <1>3, CallFacts, StateFacts
<1>6. Collected = 1
  BY <1>3 DEF Collected
<1>7. payload_buf[0] = call.addr
  <2>1. 0 \in 0 .. 1 - 1 /\ 4 + 0 = 4
    OBVIOUS
  <2> QED BY <1>2, <1>4, <1>6, <2>1
<1>8. wr'.base = call.addr /\ wr'.remaining = Len(call.data) /\ state' = "dma_write"
  BY <1>1, <1>2, <1>4, <1>5, <1>7
<1>9. down' = call.data
  <2>1. 3 + 1 + 1 = 5
    OBVIOUS
  <2> QED BY <1>2, <1>4, <1>6, <2>1
<1>10. Len(call.data) - wr'.remaining = 0 /\ wr'.remaining \in 1 .. Len(call.data)
  BY <1>5, <1>8
<1>11. down' = SubSeq(call'.data, Len(call'.data) - wr'.remaining + 1, Len(call'.data))
  <2>1. 0 + 1 = 1
    OBVIOUS
  <2> QED BY <1>2, <1>5, <1>9, <1>10, <2>1, AllLeft
<1>12. wr'.base = call'.addr + (Len(call'.data) - wr'.remaining)
  BY <1>2, <1>5, <1>8, <1>10
<1>13. StoredAfter(Len(call'.data) - wr'.remaining)
  BY <1>2, <1>10 DEF StoredAfter
<1>14. Writing'
  BY <1>2, <1>3, <1>8, <1>10, <1>11, <1>12, <1>13 DEF Writing, Fresh, StoredTo, StoredAfter
<1> QED BY <1>2, <1>14 DEF Exchange, Open

LEMMA DispatchReadKeeps ==
  ASSUME TypeOK, TypeOK', Exchange, DispatchRead, HostUntouched
  PROVE  Exchange'
<1>1. /\ Dispatch({MSG_DATA_READ}) /\ state' = "send_resp_hdr" /\ resp_hdr_idx' = 0
      /\ rd' = [rd EXCEPT !.base = payload_buf[0], !.total = payload_buf[1],
                          !.requested = 0, !.sent = 0]
  BY DEF DispatchRead, Goto
<1>2. /\ answer' = <<>> /\ verdict' = "none" /\ phase' = "header"
      /\ waited' = 0 /\ header_buf' = header_buf /\ down' = down
      /\ Transmitted' = <<>> /\ up' = <<>> /\ call' = call /\ call \in Calls
      /\ header_buf[0] = Asked[1] /\ header_buf[1] = 0 /\ header_buf[0] \in {MSG_DATA_READ}
      /\ \A i \in 0 .. Collected - 1 : payload_buf[i] = Asked[4 + i]
      /\ call.op # "write" => down = <<>>
  BY <1>1, DispatchFacts
<1>3. call.op = "read"
  BY <1>2, AskedShape
<1>4. Asked[3] = 2 /\ Asked[4] = call.addr /\ Asked[5] = call.len
  BY <1>2, <1>3, OtherShapes DEF Asked
<1>5. payload_buf[0] = call.addr /\ payload_buf[1] = call.len
  <2>1. Collected = 2
    BY <1>3, <1>4 DEF Collected
  <2>2. 0 \in 0 .. 2 - 1 /\ 1 \in 0 .. 2 - 1 /\ 4 + 0 = 4 /\ 4 + 1 = 5
    OBVIOUS
  <2> QED BY <1>2, <1>4, <2>1, <2>2
<1>6. rd'.base = call.addr /\ rd'.total = call.len /\ rd'.sent = 0 /\ rd'.requested = 0
  BY <1>1, <1>5, ReadTypes DEF TypeOK, ControllerTypeOK, Reads
<1>7. waited' <= WatchdogLimitNmc
  BY <1>2, ControllerAssumption DEF ControllerConstantsOK
<1>8. SentAfter(0)
  BY <1>2, NothingSent
<1>9. SentAfter(resp_hdr_idx')
  BY <1>1, <1>8
<1>10. Responding'
  BY <1>1, <1>2, <1>3, <1>6, <1>7, <1>9 DEF Responding, Sent, SentAfter
<1> QED BY <1>2, <1>10 DEF Exchange, Open

-----------------------------------------------------------------------------
(***************************************************************************)
(* Acknowledging.                                                          *)
(***************************************************************************)
LEMMA AckingFacts ==
  ASSUME TypeOK, Acking
  PROVE  /\ phase = "header" /\ waited <= WatchdogLimitNmc /\ down = <<>>
         /\ call.op # "read" /\ header_buf[1] = 0 /\ Len(Reply) = HeaderLen
         /\ \A i \in {0, 1, 2} : AckByte(i) = Reply[i + 1]
<1>1. /\ phase = "header" /\ waited <= WatchdogLimitNmc /\ down = <<>>
      /\ call.op # "read" /\ header_buf[1] = 0
  BY DEF Acking
<1>2. Len(Reply) = HeaderLen /\ Reply[1] = MSG_ACK /\ Reply[2] = 0 /\ Reply[3] = 0
  BY <1>1, ReplyShape
<1>3. \A i \in {0, 1, 2} : AckByte(i) = Reply[i + 1]
  BY <1>1, <1>2 DEF AckByte
<1> QED BY <1>1, <1>2, <1>3

\* The acknowledgement goes on.
LEMMA StillAcking ==
  ASSUME Open, Acking,
         UNCHANGED <<call, phase, waited, answer, verdict, ran, down, header_buf, mem>>,
         \/ state' = "send_ack" /\ SentAfter(IF tx_valid' THEN ack_byte_idx' + 1 ELSE ack_byte_idx')
         \/ state' = "ack_wait" /\ SentAfter(ack_byte_idx' + 1)
         \/ state' = "idle" /\ SentAfter(HeaderLen)
  PROVE  Exchange'
<1>1. Acking'
  BY DEF Acking, Sent, SentAfter, StoredTo
<1>2. answer' = <<>> /\ verdict' = "none"
  BY DEF Open
<1> QED BY <1>1, <1>2 DEF Exchange, Open

LEMMA SendAckKeeps ==
  ASSUME TypeOK, Exchange, Transmitter, SendAck, HostUntouched
  PROVE  Exchange'
<1>1. /\ state = "send_ack" /\ Uart /\ tx_data' = AckByte(ack_byte_idx)
      /\ tx_valid' = ~(tx_valid /\ ~tx_ready)
      /\ state' = IF tx_valid /\ ~tx_ready THEN "ack_wait" ELSE "send_ack"
      /\ ack_byte_idx' = ack_byte_idx
      /\ UNCHANGED <<down, header_buf, mem>>
  BY DEF SendAck, Clock, Goto, indices, message, board
<1>2. Open /\ Acking
  BY <1>1 DEF Exchange, Closed, Open, Receiving, Resting, Writing, Working, GaveUp, Responding
<1>3. UNCHANGED <<call, phase, waited, answer, verdict, ran>>
  BY HostKept
<1>4. /\ ack_byte_idx \in {0, 1, 2}
      /\ tx_valid \in BOOLEAN /\ tx_ready \in BOOLEAN /\ tx_busy \in BOOLEAN
  BY StateFacts
<1>5. Sent(IF tx_valid THEN ack_byte_idx + 1 ELSE ack_byte_idx)
  BY <1>1, <1>2 DEF Acking
<1>6. SUFFICES ASSUME NEW n \in {0, 1, 2}, ack_byte_idx = n PROVE Exchange'
  BY <1>4
<1>7. CASE tx_valid
  <2>1. Sent(n + 1)
    BY <1>5, <1>6, <1>7
  <2>2. up' = up /\ Transmitted' = Transmitted
    BY <1>1, <1>7, LineCarries
  <2>3. SentAfter(n + 1)
    BY <1>1, <1>3, <2>1, <2>2, SentKept
  <2>4. SentAfter(ack_byte_idx' + 1)
    BY <1>1, <1>6, <2>3
  <2>5. CASE tx_ready
    <3>1. tx_valid' = TRUE /\ state' = "send_ack"
      BY <1>1, <1>4, <1>7, <2>5
    <3>2. SentAfter(IF tx_valid' THEN ack_byte_idx' + 1 ELSE ack_byte_idx')
      BY <2>4, <3>1
    <3> QED BY <1>1, <1>2, <1>3, <3>1, <3>2, StillAcking
  <2>6. CASE ~tx_ready
    <3>1. state' = "ack_wait"
      BY <1>1, <1>7, <2>6
    <3> QED BY <1>1, <1>2, <1>3, <2>4, <3>1, StillAcking
  <2> QED BY <2>5, <2>6
<1>8. CASE ~tx_valid
  <2>1. tx_ready /\ ~tx_busy /\ tx_valid' = TRUE /\ state' = "send_ack"
    BY <1>1, <1>4, <1>8 DEF Transmitter
  <2>2. up' = up /\ Transmitted = <<>> /\ Transmitted' = <<AckByte(ack_byte_idx)>>
    BY <1>1, <1>8, <2>1, LineOffers
  <2>3. Sent(n)
    BY <1>5, <1>6, <1>8
  <2>4. AckByte(ack_byte_idx) = Reply[n + 1] /\ n < Len(Reply)
    <3>1. Len(Reply) = HeaderLen /\ \A i \in {0, 1, 2} : AckByte(i) = Reply[i + 1]
      BY <1>2, AckingFacts
    <3> QED BY <1>6, <3>1
  <2>5. SentAfter(n + 1)
    BY <1>1, <1>3, <2>2, <2>3, <2>4, SentMore
  <2>6. SentAfter(IF tx_valid' THEN ack_byte_idx' + 1 ELSE ack_byte_idx')
    BY <1>1, <1>6, <2>1, <2>5
  <2> QED BY <1>1, <1>2, <1>3, <2>1, <2>6, StillAcking
<1> QED BY <1>4, <1>7, <1>8

LEMMA AckWaitKeeps ==
  ASSUME TypeOK, StallOnlyWaiting, Exchange, Transmitter, AckWait, HostUntouched
  PROVE  Exchange'
<1>1. /\ state = "ack_wait" /\ tx_ready /\ Uart /\ tx_valid' = FALSE
      /\ stall_cnt' \in {0, stall_cnt}
      /\ UNCHANGED <<down, header_buf, mem, engine>>
      /\ ack_byte_idx = 2 => state' = "idle"
      /\ ack_byte_idx # 2 => state' = "send_ack" /\ ack_byte_idx' = ack_byte_idx + 1
  BY DEF AckWait, Clock, NoByte, ToIdle, Goto, message, board
<1>2. ~tx_busy /\ ~tx_valid
  BY <1>1 DEF Transmitter
<1>3. up' = up /\ Transmitted' = Transmitted
  BY <1>1, LineCarries
<1>4. UNCHANGED <<call, phase, waited, answer, verdict, ran>>
  BY HostKept
<1>5. stall_cnt' = 0
  BY <1>1, StateFacts DEF StallOnlyWaiting
<1>6. LineEmpty => LineEmpty'
  BY <1>1, StaysEmpty
<1>7. CASE Closed
  <2>1. Resting /\ ack_byte_idx = 2
    BY <1>1, <1>7 DEF Closed, Resting
  <2>2. Resting'
    BY <1>1, <1>6, <2>1 DEF Resting
  <2>3. FailsOnlyByEngine'
    BY <1>1, <1>4, <1>7 DEF Closed, FailsOnlyByEngine
  <2> QED BY <1>1, <1>4, <1>7, <2>2, <2>3 DEF Exchange, Closed
<1>8. CASE Open /\ Receiving
  <2>1. Fresh /\ waited = 0 /\ Resting /\ ack_byte_idx = 2 /\ Got(0)
    BY <1>1, <1>8 DEF Receiving, Resting
  <2>2. Resting' /\ Fresh'
    BY <1>1, <1>4, <1>6, <2>1 DEF Resting, Fresh
  <2>3. GotAfter(0)
    BY <1>1, <1>4, <2>1, AskedKept DEF Got, GotAfter
  <2>4. Receiving'
    BY <1>4, <1>5, <2>1, <2>2, <2>3 DEF Receiving, Got, GotAfter
  <2> QED BY <1>4, <1>8, <2>4 DEF Exchange, Open
<1>9. CASE Open /\ Acking
  <2>1. Sent(ack_byte_idx + 1) /\ ack_byte_idx \in {0, 1, 2}
    BY <1>1, <1>9, StateFacts DEF Acking
  <2>2. SUFFICES ASSUME NEW n \in {0, 1, 2}, ack_byte_idx = n PROVE Exchange'
    BY <2>1
  <2>3. Sent(n + 1)
    BY <2>1, <2>2
  <2>4. SentAfter(n + 1)
    BY <1>1, <1>3, <1>4, <2>3, SentKept
  <2>5. CASE n = 2
    <3>1. n + 1 = HeaderLen
      BY <2>5
    <3>2. SentAfter(HeaderLen)
      BY <2>4, <3>1
    <3>3. state' = "idle"
      BY <1>1, <2>2, <2>5
    <3> QED BY <1>1, <1>4, <1>9, <3>2, <3>3, StillAcking
  <2>6. CASE n # 2
    <3>1. state' = "send_ack" /\ ack_byte_idx' = n + 1
      BY <1>1, <2>2, <2>6
    <3>2. SentAfter(IF tx_valid' THEN ack_byte_idx' + 1 ELSE ack_byte_idx')
      BY <1>1, <2>4, <3>1
    <3> QED BY <1>1, <1>4, <1>9, <3>1, <3>2, StillAcking
  <2> QED BY <2>5, <2>6
<1> QED
  BY <1>1, <1>7, <1>8, <1>9 DEF Exchange, Open, Writing, Working, GaveUp, Responding

-----------------------------------------------------------------------------
(***************************************************************************)
(* Answering a read.                                                       *)
(***************************************************************************)
LEMMA RespondingFacts ==
  ASSUME TypeOK, Responding
  PROVE  /\ phase \in {"header", "payload"} /\ waited <= WatchdogLimitNmc /\ down = <<>> /\ call.op = "read"
         /\ state # "idle" => header_buf[1] = 0 /\ rd.base = call.addr /\ rd.total = call.len
         /\ call.len \in Nat /\ Len(Reply) = HeaderLen + call.len
         /\ state # "idle" => \A i \in {0, 1, 2} : ResponseByte(i) = Reply[i + 1]
         /\ \A i \in 1 .. call.len : Reply[HeaderLen + i] = mem[Cell(call.addr + i - 1)]
<1>1. /\ phase \in {"header", "payload"} /\ waited <= WatchdogLimitNmc /\ down = <<>> /\ call.op = "read"
      /\ state # "idle" => header_buf[1] = 0 /\ rd.base = call.addr /\ rd.total = call.len
  BY DEF Responding
<1>2. /\ Len(Reply) = HeaderLen + call.len
      /\ Reply[1] = MSG_DATA_RESPONSE /\ Reply[2] = 0 /\ Reply[3] = call.len
      /\ \A i \in 1 .. call.len : Reply[HeaderLen + i] = mem[Cell(call.addr + i - 1)]
  BY <1>1, ReplyShape
<1>3. state # "idle" => \A i \in {0, 1, 2} : ResponseByte(i) = Reply[i + 1]
  BY <1>1, <1>2 DEF ResponseByte
<1>4. call.len \in Nat
  BY StateFacts
<1> QED BY <1>1, <1>2, <1>3, <1>4

\* The next symbol of tensor data.
LEMMA NextData ==
  ASSUME TypeOK, Responding, state # "idle", rd.sent < rd.total
  PROVE  /\ Reply[(HeaderLen + rd.sent) + 1] = mem[Cell(rd.base + rd.sent)]
         /\ HeaderLen + rd.sent < Len(Reply) /\ HeaderLen + rd.sent \in Nat
<1>1. /\ rd.base = call.addr /\ rd.total = call.len /\ call.len \in Nat
      /\ Len(Reply) = HeaderLen + call.len
      /\ \A i \in 1 .. call.len : Reply[HeaderLen + i] = mem[Cell(call.addr + i - 1)]
  BY RespondingFacts
<1>2. rd.sent \in Nat /\ call.addr \in Nat
  BY StateFacts
<1>3. rd.sent + 1 \in 1 .. call.len
  BY <1>1, <1>2
<1>4. Reply[HeaderLen + (rd.sent + 1)] = mem[Cell(call.addr + (rd.sent + 1) - 1)]
  BY <1>1, <1>3
<1>5. /\ HeaderLen + (rd.sent + 1) = (HeaderLen + rd.sent) + 1
      /\ call.addr + (rd.sent + 1) - 1 = rd.base + rd.sent
  BY <1>1, <1>2
<1>6. HeaderLen + rd.sent < Len(Reply) /\ HeaderLen + rd.sent \in Nat
  BY <1>1, <1>2
<1> QED BY <1>4, <1>5, <1>6

LEMMA StillResponding ==
  ASSUME Open, Responding, UNCHANGED <<call, phase, waited, answer, verdict, ran, down>>,
         state' # "idle" =>
           header_buf'[1] = 0 /\ rd'.base = call.addr /\ rd'.total = call.len,
         \/ /\ state' = "send_resp_hdr" /\ SentAfter(resp_hdr_idx')
            /\ rd'.sent = 0 /\ rd'.requested = 0
         \/ /\ state' = "dma_read_req" /\ SentAfter(HeaderLen + rd'.sent)
            /\ rd'.requested = rd'.sent /\ (rd'.sent < rd'.total \/ rd'.total = 0)
         \/ /\ state' = "dma_read_resp" /\ SentAfter(HeaderLen + rd'.sent)
            /\ rd'.sent < rd'.total /\ rd'.requested = rd'.sent + 1
            /\ rd'.have => rd'.latch = mem'[Cell(rd'.base + rd'.sent)]
            /\ ~rd'.have => dma' = rd'.base + rd'.sent
         \/ state' = "idle" /\ SentAfter(Len(Reply'))
  PROVE  Exchange'
<1>1. Responding'
  BY DEF Responding, Sent, SentAfter
<1>2. answer' = <<>> /\ verdict' = "none"
  BY DEF Open
<1> QED BY <1>1, <1>2 DEF Exchange, Open

LEMMA SendRespHdrKeeps ==
  ASSUME TypeOK, Exchange, Transmitter, SendRespHdr, HostUntouched
  PROVE  Exchange'
<1>1. /\ state = "send_resp_hdr" /\ TxFree /\ Uart
      /\ tx_valid' = TRUE /\ tx_data' = ResponseByte(resp_hdr_idx)
      /\ resp_hdr_idx' = (resp_hdr_idx + 1) % HeaderLen
      /\ state' = IF resp_hdr_idx = HeaderLen - 1 THEN "dma_read_req" ELSE "send_resp_hdr"
      /\ UNCHANGED <<down, header_buf, rd, mem>>
  BY DEF SendRespHdr, Clock, Present, Goto, message, board
<1>2. Open /\ Responding
  BY <1>1 DEF Exchange, Closed, Open, Receiving, Resting, Writing, Working, GaveUp, Acking
<1>3. Sent(resp_hdr_idx) /\ rd.sent = 0 /\ rd.requested = 0
  BY <1>1, <1>2 DEF Responding
<1>4. /\ rd.base = call.addr /\ rd.total = call.len /\ header_buf[1] = 0 /\ call.len \in Nat
      /\ Len(Reply) = HeaderLen + call.len
      /\ \A i \in {0, 1, 2} : ResponseByte(i) = Reply[i + 1]
  BY <1>1, <1>2, RespondingFacts
<1>5. UNCHANGED <<call, phase, waited, answer, verdict, ran>>
  BY HostKept
<1>6. ~tx_busy /\ ~tx_valid /\ resp_hdr_idx \in {0, 1, 2}
  BY <1>1, StateFacts DEF TxFree, Transmitter
<1>7. SUFFICES ASSUME NEW n \in {0, 1, 2}, resp_hdr_idx = n PROVE Exchange'
  BY <1>6
<1>8. up' = up /\ Transmitted = <<>> /\ Transmitted' = <<Reply[n + 1]>>
  <2>1. tx_data' = Reply[n + 1]
    BY <1>1, <1>4, <1>7
  <2> QED BY <1>1, <1>6, <2>1, LineOffers
<1>9. SentAfter(n + 1)
  <2>1. Sent(n) /\ n < Len(Reply) /\ n \in Nat
    BY <1>3, <1>4, <1>7
  <2> QED BY <1>1, <1>5, <1>8, <2>1, SentMore
<1>10. CASE n = 2
  <2>1. state' = "dma_read_req" /\ rd' = rd
    BY <1>1, <1>7, <1>10
  <2>2. n + 1 = HeaderLen + rd'.sent
    BY <1>3, <1>10, <2>1
  <2>3. SentAfter(HeaderLen + rd'.sent)
    BY <1>9, <2>2
  <2>4. rd'.requested = rd'.sent /\ (rd'.sent < rd'.total \/ rd'.total = 0)
    BY <1>3, <1>4, <2>1
  <2> QED BY <1>1, <1>2, <1>4, <1>5, <2>1, <2>3, <2>4, StillResponding
<1>11. CASE n # 2
  <2>1. state' = "send_resp_hdr" /\ resp_hdr_idx' = n + 1
    <3>1. (0 + 1) % 3 = 0 + 1 /\ (1 + 1) % 3 = 1 + 1
      OBVIOUS
    <3>2. n = 0 \/ n = 1
      BY <1>7, <1>11
    <3> QED BY <1>1, <1>7, <1>11, <3>1, <3>2
  <2>2. SentAfter(resp_hdr_idx')
    BY <1>9, <2>1
  <2> QED BY <1>1, <1>2, <1>3, <1>4, <1>5, <2>1, <2>2, StillResponding
<1> QED BY <1>10, <1>11

LEMMA DmaReadReqKeeps ==
  ASSUME TypeOK, ReadInFlight, Exchange, Transmitter, DmaReadReq, HostUntouched
  PROVE  Exchange'
<1>1. /\ state = "dma_read_req" /\ Uart /\ tx_valid' = FALSE
      /\ UNCHANGED <<down, mem, header_buf>>
      /\ rd.requested < rd.total =>
           /\ dma' = rd.base + rd.requested
           /\ rd' = [rd EXCEPT !.requested = @ + 1]
           /\ state' = "dma_read_resp"
      /\ ~(rd.requested < rd.total) => state' = "idle"
  BY DEF DmaReadReq, Clock, NoByte, ToIdle, Goto, message
<1>2. Open /\ Responding
  BY <1>1 DEF Exchange, Closed, Open, Receiving, Resting, Writing, Working, GaveUp, Acking
<1>3. /\ Sent(HeaderLen + rd.sent)
      /\ rd.requested = rd.sent /\ (rd.sent < rd.total \/ rd.total = 0)
  BY <1>1, <1>2 DEF Responding
<1>4. /\ rd.base = call.addr /\ rd.total = call.len /\ header_buf[1] = 0 /\ call.len \in Nat
      /\ Len(Reply) = HeaderLen + call.len
  BY <1>1, <1>2, RespondingFacts
<1>5. UNCHANGED <<call, phase, waited, answer, verdict, ran>>
  BY HostKept
<1>6. up' = up /\ Transmitted' = Transmitted
  BY <1>1, LineCarries
<1>7. rd.sent \in Nat /\ rd \in Reads(BOOLEAN) /\ ~rd.have
  BY <1>1, StateFacts, ReadTypes DEF TypeOK, ControllerTypeOK, ReadInFlight
<1>8. SentAfter(HeaderLen + rd.sent)
  <2>1. HeaderLen + rd.sent \in Nat
    BY <1>7
  <2>2. \A n \in Nat : Sent(n) => SentAfter(n)
    BY <1>1, <1>5, <1>6, SentKept
  <2> QED BY <1>3, <2>1, <2>2
<1>9. CASE rd.sent < rd.total
  <2>1. /\ dma' = rd.base + rd.sent /\ state' = "dma_read_resp"
        /\ rd' = [rd EXCEPT !.requested = rd.sent + 1]
    BY <1>1, <1>3, <1>9
  <2>2. /\ rd'.base = rd.base /\ rd'.total = rd.total /\ rd'.sent = rd.sent
        /\ rd'.requested = rd.sent + 1 /\ ~rd'.have
    BY <1>7, <2>1 DEF Reads
  <2>3. SentAfter(HeaderLen + rd'.sent)
    BY <1>8, <2>2
  <2> QED BY <1>1, <1>2, <1>4, <1>5, <1>9, <2>1, <2>2, <2>3, StillResponding
<1>10. CASE ~(rd.sent < rd.total)
  <2>1. state' = "idle"
    BY <1>1, <1>3, <1>10
  <2>2. HeaderLen + rd.sent <= Len(Reply)
    BY <1>3 DEF Sent
  <2>3. HeaderLen + rd.sent = Len(Reply)
    BY <1>3, <1>4, <1>7, <1>10, <2>2
  <2>4. Reply' = Reply
    BY <1>1, <1>5, ReplyKept
  <2>5. SentAfter(Len(Reply'))
    BY <1>8, <2>3, <2>4
  <2> QED BY <1>1, <1>2, <1>5, <2>1, <2>5, StillResponding
<1> QED BY <1>9, <1>10

\* A byte of tensor data is offered to the transmitter.
LEMMA DataSentKeeps ==
  ASSUME TypeOK, Open, Responding, Transmitter, state = "dma_read_resp", TxFree, Uart,
         NEW b, SendData(b), b = mem[Cell(rd.base + rd.sent)],
         HostUntouched, UNCHANGED <<down, mem>>
  PROVE  Exchange'
<1>1. /\ tx_valid' = TRUE /\ tx_data' = b /\ header_buf' = header_buf
      /\ rd.sent + 1 >= rd.total => state' = "idle"
      /\ ~(rd.sent + 1 >= rd.total) =>
           rd' = [rd EXCEPT !.have = FALSE, !.sent = @ + 1] /\ state' = "dma_read_req"
  BY DEF SendData, Present, ToIdle, Goto, message
<1>2. Sent(HeaderLen + rd.sent) /\ rd.sent < rd.total /\ rd.requested = rd.sent + 1
  BY DEF Responding
<1>3. /\ rd.base = call.addr /\ rd.total = call.len /\ header_buf[1] = 0 /\ call.len \in Nat
      /\ Len(Reply) = HeaderLen + call.len
  BY RespondingFacts
<1>4. UNCHANGED <<call, phase, waited, answer, verdict, ran>>
  BY HostKept
<1>5. ~tx_busy /\ ~tx_valid
  BY DEF TxFree, Transmitter
<1>6. rd.sent \in Nat /\ rd \in Reads(BOOLEAN)
  BY StateFacts, ReadTypes DEF TypeOK, ControllerTypeOK
<1>7. SUFFICES ASSUME NEW n \in Nat, n = HeaderLen + rd.sent PROVE Exchange'
  BY <1>6
<1>8. Reply[n + 1] = b /\ n < Len(Reply) /\ Sent(n)
  BY <1>2, <1>7, NextData
<1>9. up' = up /\ Transmitted = <<>> /\ Transmitted' = <<Reply[n + 1]>>
  BY <1>1, <1>5, <1>8, LineOffers
<1>10. SentAfter(n + 1) /\ Reply' = Reply
  BY <1>4, <1>8, <1>9, SentMore, ReplyKept
<1>11. CASE rd.sent + 1 >= rd.total
  <2>1. n + 1 = Len(Reply')
    BY <1>2, <1>3, <1>6, <1>7, <1>10, <1>11
  <2>2. SentAfter(Len(Reply')) /\ state' = "idle"
    BY <1>1, <1>10, <1>11, <2>1
  <2> QED BY <1>4, <2>2, StillResponding
<1>12. CASE ~(rd.sent + 1 >= rd.total)
  <2>1. rd' = [rd EXCEPT !.have = FALSE, !.sent = rd.sent + 1] /\ state' = "dma_read_req"
    BY <1>1, <1>12
  <2>2. /\ rd'.base = rd.base /\ rd'.total = rd.total /\ rd'.sent = rd.sent + 1
        /\ rd'.requested = rd.requested
    BY <1>6, <2>1 DEF Reads
  <2>3. n + 1 = HeaderLen + rd'.sent /\ rd'.sent < rd'.total
    BY <1>3, <1>6, <1>7, <1>12, <2>2
  <2>4. SentAfter(HeaderLen + rd'.sent)
    BY <1>10, <2>3
  <2> QED BY <1>1, <1>2, <1>3, <1>4, <2>1, <2>2, <2>3, <2>4, StillResponding
<1> QED BY <1>11, <1>12

LEMMA DmaReadSendKeeps ==
  ASSUME TypeOK, Exchange, Transmitter, DmaReadSend, HostUntouched
  PROVE  Exchange'
<1>1. state = "dma_read_resp" /\ rd.have /\ TxFree /\ Uart /\ SendData(rd.latch)
      /\ UNCHANGED <<down, mem>>
  BY DEF DmaReadSend, Clock, board
<1>2. Open /\ Responding
  BY <1>1 DEF Exchange, Closed, Open, Receiving, Resting, Writing, Working, GaveUp, Acking
<1>3. rd.latch = mem[Cell(rd.base + rd.sent)]
  BY <1>1, <1>2 DEF Responding
<1> QED BY <1>1, <1>2, <1>3, DataSentKeeps

LEMMA DmaReadValidKeeps ==
  ASSUME TypeOK, ReadInFlight, Exchange, Transmitter, DmaReadValid, HostUntouched
  PROVE  Exchange'
<1>1. /\ state = "dma_read_resp" /\ dma # NoRead /\ Uart /\ UNCHANGED <<down, mem>>
      /\ TxFree => SendData(IF rd.have THEN rd.latch ELSE mem[Cell(dma)])
      /\ ~TxFree =>
           /\ rd' = [rd EXCEPT !.have = TRUE, !.latch = mem[Cell(dma)]]
           /\ tx_valid' = FALSE /\ UNCHANGED <<state, header_buf>>
  BY DEF DmaReadValid, Clock, NoByte, message
<1>2. Open /\ Responding
  BY <1>1 DEF Exchange, Closed, Open, Receiving, Resting, Writing, Working, GaveUp, Acking
<1>3. ~rd.have /\ rd \in Reads(BOOLEAN) /\ rd.sent \in Nat
  BY <1>1, StateFacts, ReadTypes DEF TypeOK, ControllerTypeOK, ReadInFlight
<1>4. /\ Sent(HeaderLen + rd.sent) /\ rd.sent < rd.total /\ rd.requested = rd.sent + 1
      /\ dma = rd.base + rd.sent
  BY <1>1, <1>2, <1>3 DEF Responding
<1>5. CASE TxFree
  <2>1. SendData(mem[Cell(rd.base + rd.sent)])
    BY <1>1, <1>3, <1>4, <1>5
  <2> QED BY <1>1, <1>2, <1>5, <2>1, DataSentKeeps
<1>6. CASE ~TxFree
  <2>1. /\ rd.base = call.addr /\ rd.total = call.len /\ header_buf[1] = 0
    BY <1>1, <1>2, RespondingFacts
  <2>2. UNCHANGED <<call, phase, waited, answer, verdict, ran>>
    BY HostKept
  <2>3. up' = up /\ Transmitted' = Transmitted
    BY <1>1, <1>6, LineCarries
  <2>4. /\ rd'.base = rd.base /\ rd'.total = rd.total /\ rd'.sent = rd.sent
        /\ rd'.requested = rd.requested /\ rd'.have = TRUE /\ rd'.latch = mem[Cell(dma)]
    BY <1>1, <1>3, <1>6 DEF Reads
  <2>5. SentAfter(HeaderLen + rd'.sent)
    <3>1. HeaderLen + rd.sent \in Nat
      BY <1>3
    <3>2. \A n \in Nat : Sent(n) => SentAfter(n)
      BY <1>1, <2>2, <2>3, SentKept
    <3>3. SentAfter(HeaderLen + rd.sent)
      BY <1>4, <3>1, <3>2
    <3> QED BY <2>4, <3>3
  <2>6. rd'.latch = mem'[Cell(rd'.base + rd'.sent)]
    BY <1>1, <1>4, <2>4
  <2> QED BY <1>1, <1>2, <1>4, <1>6, <2>1, <2>2, <2>4, <2>5, <2>6, StillResponding
<1> QED BY <1>5, <1>6

-----------------------------------------------------------------------------
(***************************************************************************)
(* Only the transmitter moves.                                             *)
(***************************************************************************)
LEMMA TransmitterMoves ==
  ASSUME TypeOK, Open, Acking \/ Responding, up' \o Transmitted' = up \o Transmitted,
         UNCHANGED <<call, phase, waited, answer, verdict, ran, state, down, header_buf,
                     ack_byte_idx, resp_hdr_idx, rd, mem, dma>>,
         state = "send_ack" => tx_valid' = tx_valid
  PROVE  Exchange'
<1>1. \A n \in Nat : Sent(n) => SentAfter(n)
  BY SentKept
<1>2. /\ ack_byte_idx \in Nat /\ resp_hdr_idx \in Nat /\ rd.sent \in Nat
      /\ ack_byte_idx + 1 \in Nat /\ HeaderLen + rd.sent \in Nat
      /\ HeaderLen \in Nat /\ Len(Reply) \in Nat
  <2>1. ack_byte_idx \in {0, 1, 2} /\ resp_hdr_idx \in {0, 1, 2} /\ rd.sent \in Nat
    BY StateFacts
  <2>2. Len(Reply) \in Nat
    BY ReplyShape
  <2> QED BY <2>1, <2>2
<1>3. Reply' = Reply
  BY ReplyKept
<1>4. CASE Acking
  <2>1. CASE state = "send_ack"
    <3>1. Sent(IF tx_valid THEN ack_byte_idx + 1 ELSE ack_byte_idx)
      BY <1>4, <2>1 DEF Acking
    <3>2. (IF tx_valid THEN ack_byte_idx + 1 ELSE ack_byte_idx) \in Nat
      BY <1>2
    <3>3. SentAfter(IF tx_valid THEN ack_byte_idx + 1 ELSE ack_byte_idx)
      BY <1>1, <3>1, <3>2
    <3>4. SentAfter(IF tx_valid' THEN ack_byte_idx' + 1 ELSE ack_byte_idx')
      BY <2>1, <3>3
    <3> QED BY <1>4, <2>1, <3>4, StillAcking
  <2>2. CASE state = "ack_wait"
    <3>1. Sent(ack_byte_idx + 1)
      BY <1>4, <2>2 DEF Acking
    <3>2. SentAfter(ack_byte_idx' + 1)
      BY <1>1, <1>2, <3>1
    <3> QED BY <1>4, <2>2, <3>2, StillAcking
  <2>3. CASE state = "idle"
    <3>1. SentAfter(HeaderLen)
      BY <1>1, <1>2, <1>4, <2>3 DEF Acking
    <3> QED BY <1>4, <2>3, <3>1, StillAcking
  <2> QED BY <1>4, <2>1, <2>2, <2>3 DEF Acking
<1>5. CASE Responding
  <2>1. state # "idle" => header_buf[1] = 0 /\ rd.base = call.addr /\ rd.total = call.len
    BY <1>5, RespondingFacts
  <2>2. CASE state = "send_resp_hdr"
    <3>1. Sent(resp_hdr_idx) /\ rd.sent = 0 /\ rd.requested = 0
      BY <1>5, <2>2 DEF Responding
    <3>2. SentAfter(resp_hdr_idx')
      BY <1>1, <1>2, <3>1
    <3> QED BY <1>5, <2>1, <2>2, <3>1, <3>2, StillResponding
  <2>3. CASE state \in {"dma_read_req", "dma_read_resp"}
    <3>1. Sent(HeaderLen + rd.sent)
      BY <1>5, <2>3 DEF Responding
    <3>2. SentAfter(HeaderLen + rd.sent)
      BY <1>1, <1>2, <3>1
    <3>3. SentAfter(HeaderLen + rd'.sent)
      BY <3>2
    <3>4. state = "dma_read_req" =>
            rd.requested = rd.sent /\ (rd.sent < rd.total \/ rd.total = 0)
      BY <1>5 DEF Responding
    <3>5. state = "dma_read_resp" =>
            /\ rd.sent < rd.total /\ rd.requested = rd.sent + 1
            /\ rd.have => rd.latch = mem[Cell(rd.base + rd.sent)]
            /\ ~rd.have => dma = rd.base + rd.sent
      BY <1>5 DEF Responding
    <3> QED BY <1>5, <2>1, <2>3, <3>3, <3>4, <3>5, StillResponding
  <2>4. CASE state = "idle"
    <3>1. Sent(Len(Reply))
      BY <1>5, <2>4 DEF Responding
    <3>2. SentAfter(Len(Reply'))
      BY <1>1, <1>2, <1>3, <3>1
    <3> QED BY <1>5, <2>4, <3>2, StillResponding
  <2> QED BY <1>5, <2>2, <2>3, <2>4 DEF Responding
<1> QED BY <1>4, <1>5

\* A stage at which the line is empty and the controller does not move.
LEMMA EmptyStays ==
  ASSUME Exchange, ~(Acking \/ Responding), LineEmpty => LineEmpty',
         Writing \/ Working => stall_cnt' = stall_cnt,
         Receiving => stall_cnt' = 0,
         UNCHANGED <<call, phase, waited, answer, verdict, ran, state, message, ack_byte_idx,
                     wr, down, mem, engine>>
  PROVE  Exchange'
<1>1. Fresh => Fresh'
  BY DEF Fresh
<1>2. Resting => Resting'
  BY DEF Resting
<1>3. CASE Closed
  <2>1. FailsOnlyByEngine'
    BY <1>3 DEF Closed, FailsOnlyByEngine
  <2> QED BY <1>2, <1>3, <2>1 DEF Exchange, Closed
<1>4. CASE Open
  <2>1. answer' = <<>> /\ verdict' = "none" /\ Asked' = Asked /\ Collected' = Collected
    BY <1>4, AskedKept DEF Open
  <2>2. Receiving => Receiving'
    BY <1>1, <1>2, <2>1 DEF Receiving, Got, Register, message
  <2>3. Writing => Writing'
    BY <1>1 DEF Writing, StoredTo, message
  <2>4. Working => Working'
    BY <1>1 DEF Working, message
  <2>5. GaveUp => GaveUp'
    BY <1>1 DEF GaveUp
  <2> QED BY <1>4, <2>1, <2>2, <2>3, <2>4, <2>5 DEF Exchange, Open
<1> QED BY <1>3, <1>4 DEF Exchange

LEMMA WaitClockKeeps ==
  ASSUME TypeOK, StallOnlyWaiting, Exchange, Transmitter, WaitClock, HostUntouched
  PROVE  Exchange'
<1>1. /\ state \notin {"dispatch", "send_ack", "dma_read_req"} /\ Uart /\ tx_valid' = FALSE
      /\ ~tx_busy /\ (tx_valid \/ ~tx_ready) /\ stall_cnt' \in {0, stall_cnt}
      /\ UNCHANGED <<state, message, ack_byte_idx, resp_hdr_idx, wr, rd, down, mem, dma, engine>>
  BY DEF WaitClock, Clock, NoByte, indices, board
<1>2. UNCHANGED <<call, phase, waited, answer, verdict, ran>>
  BY HostKept
<1>3. up' = up /\ Transmitted' = Transmitted
  BY <1>1, LineCarries
<1>4. CASE Open /\ (Acking \/ Responding)
  BY <1>1, <1>2, <1>3, <1>4, TransmitterMoves DEF message
<1>5. CASE ~(Acking \/ Responding)
  <2>1. LineEmpty => LineEmpty'
    BY <1>1, StaysEmpty
  <2>2. ~Writing /\ ~Working
    BY <1>1 DEF Transmitter, LineIdle, Writing, Working
  <2>3. Receiving => stall_cnt' = 0
    BY <1>1 DEF Receiving
  <2> QED BY <1>1, <1>2, <1>5, <2>1, <2>2, <2>3, EmptyStays
<1>6. CASE Closed
  <2>1. LineEmpty => LineEmpty'
    BY <1>1, StaysEmpty
  <2>2. Resting' /\ FailsOnlyByEngine'
    BY <1>1, <1>2, <1>6, <2>1 DEF Closed, Resting, FailsOnlyByEngine
  <2> QED BY <1>1, <1>2, <1>6, <2>2 DEF Exchange, Closed
<1> QED BY <1>4, <1>5, <1>6 DEF Exchange

\* The stop bit has been sent: there is room for the symbol.
LEMMA UartDoneKeeps ==
  ASSUME TypeOK, Undisturbed, Exchange, Transmitter, UartDone, HostUntouched
  PROVE  Exchange'
<1>1. /\ tx_busy /\ state # "send_ack" /\ tx_busy' = FALSE
      /\ up' = IF Len(up) < TtyBuffer THEN Append(up, tx_shift) ELSE up
      /\ UNCHANGED <<state, header_buf, ack_byte_idx, resp_hdr_idx, rd, down, mem, dma, tx_valid>>
  BY DEF UartDone, AtRest, message, indices, board
<1>2. UNCHANGED <<call, phase, waited, answer, verdict, ran>>
  BY HostKept
<1>3. Open /\ (Acking \/ Responding)
  BY <1>1 DEF Exchange, Closed, Open, Receiving, Writing, Working, GaveUp, Fresh, Resting, LineEmpty
<1>4. ~tx_valid
  BY <1>1, StateFacts DEF Transmitter
<1>5. Transmitted = <<tx_shift>> /\ Transmitted' = <<>>
  BY <1>1, <1>4 DEF Transmitted
<1>6. PICK n \in Nat : Sent(n)
  <2>1. /\ ack_byte_idx \in Nat /\ resp_hdr_idx \in Nat /\ ack_byte_idx + 1 \in Nat
        /\ HeaderLen + rd.sent \in Nat /\ HeaderLen \in Nat /\ Len(Reply) \in Nat
    <3>1. ack_byte_idx \in {0, 1, 2} /\ resp_hdr_idx \in {0, 1, 2} /\ rd.sent \in Nat
      BY StateFacts
    <3>2. Len(Reply) \in Nat
      BY ReplyShape
    <3> QED BY <3>1, <3>2
  <2>2. CASE Acking
    BY <1>1, <2>1, <2>2 DEF Acking
  <2>3. CASE Responding
    BY <2>1, <2>3 DEF Responding
  <2> QED BY <1>3, <2>2, <2>3
<1>7. Len(up) < TtyBuffer
  <2>1. /\ Taken \in Nat /\ Len(up) + Len(Transmitted) = n - Taken /\ n <= Len(Reply)
    BY <1>6, SentFacts
  <2>2. Len(Transmitted) = 1 /\ Len(up) \in Nat /\ Len(Reply) \in Nat
    BY <1>1, TransmittedTyped, StateFacts, ReplyShape
  <2>3. Len(Reply) <= TtyBuffer /\ TtyBuffer \in Nat
    BY ReplyFits, ControllerAssumption DEF ControllerConstantsOK
  <2> QED BY <2>1, <2>2, <2>3
<1>8. up' \o Transmitted' = up \o Transmitted
  <2>1. up \in Seq(Symbols) /\ tx_shift \in Symbols
    BY StateFacts
  <2>2. Append(up, tx_shift) \in Seq(Symbols) /\ Append(up, tx_shift) = up \o <<tx_shift>>
    BY <2>1, AppendProperties, AppendIsConcat
  <2>3. Append(up, tx_shift) \o <<>> = Append(up, tx_shift)
    BY <2>2, ConcatEmptySeq
  <2> QED BY <1>1, <1>5, <1>7, <2>2, <2>3
<1> QED BY <1>1, <1>2, <1>3, <1>8, TransmitterMoves

-----------------------------------------------------------------------------
(***************************************************************************)
(* The watchdog, the engine and the passing of time.                       *)
(***************************************************************************)
\* The watchdog fires only on an engine.
LEMMA WatchdogKeeps ==
  ASSUME TypeOK, StallOnlyWaiting, Exchange, Watchdog, HostUntouched
  PROVE  Exchange'
<1>1. /\ Expired /\ state' = "idle" /\ Uart /\ tx_valid' = FALSE /\ UNCHANGED <<down, engine>>
  BY DEF Watchdog, ToIdle, Goto, NoByte, board
<1>2. /\ state \in {"header", "payload", "dma_write", "wait_nmc"} /\ stall_cnt >= Limit
  BY <1>1, ExpiredWaits DEF TypeOK
<1>3. Limit > 0 /\ Limit \in Nat
  BY TimingFacts DEF TypeOK, Limit
<1>4. UNCHANGED <<call, phase, waited, answer, verdict, ran>>
  BY HostKept
<1>5. Open /\ Working
  <2>1. stall_cnt # 0
    BY <1>2, <1>3
  <2> QED BY <1>2, <2>1 DEF Exchange, Closed, Open, Receiving, Resting, Writing, GaveUp,
                            Acking, Responding
<1>6. Fresh'
  BY <1>1, <1>4, <1>5, StaysEmpty DEF Working, Fresh
<1>7. GaveUp'
  BY <1>1, <1>4, <1>5, <1>6 DEF Working, GaveUp
<1> QED BY <1>4, <1>5, <1>7 DEF Exchange, Open

LEMMA EngineStepKeeps ==
  ASSUME TypeOK, TypeOK', EngineTimed, Exchange, EngineStep
  PROVE  Exchange'
<1>1. /\ engine.busy /\ engine.age <= EngineTicks
      /\ state = "wait_nmc" => state' = "send_ack" /\ ack_byte_idx' = 0
      /\ UNCHANGED <<message, uart, down>>
      /\ ran' = TRUE /\ UNCHANGED <<call, phase, waited, answer, verdict>>
  BY DEF EngineStep, EngineDone, Goto
<1>2. state = "wait_nmc"
  BY <1>1 DEF EngineTimed
<1>3. Open /\ Working
  BY <1>2 DEF Exchange, Closed, Open, Receiving, Resting, Writing, GaveUp, Acking, Responding
<1>4. /\ phase = "header" /\ LineEmpty /\ waited = stall_cnt /\ down = <<>>
      /\ call.op = "nmc" /\ header_buf[1] = 0
  BY <1>3 DEF Working, Fresh
<1>5. waited' <= WatchdogLimitNmc
  BY <1>1, <1>4, StateFacts
<1>6. up' = <<>> /\ Transmitted' = <<>> /\ tx_valid' = FALSE
  BY <1>1, <1>4, StateFacts DEF LineEmpty, Transmitted, uart
<1>7. /\ answer' = <<>> /\ verdict' = "none" /\ phase' = "header" /\ down' = <<>>
      /\ call'.op = "nmc" /\ header_buf'[1] = 0 /\ ran'
      /\ state' = "send_ack" /\ ack_byte_idx' = 0
  BY <1>1, <1>2, <1>3, <1>4 DEF Open, message
<1> QED BY <1>5, <1>6, <1>7, AckStarts

\* While a request is being received its next symbol is on the line.
LEMMA MoreToCome ==
  ASSUME TypeOK, Receiving \/ Writing, state # "dispatch"
  PROVE  down # <<>>
<1>1. /\ call \in Calls /\ call.data \in Seq(Symbols) /\ Len(call.data) \in Nat
      /\ Asked \in Seq(Symbols) /\ Len(Asked) \in Nat
  BY StateFacts, CallFacts, AskedShape
<1>2. Collected \in 0 .. 3 /\ Len(Asked) >= 3 + Collected
  BY <1>1, AskedShape
<1>3. ASSUME NEW k \in Nat, k < Len(Asked), Got(k) PROVE down # <<>>
  <2>1. k \in 0 .. Len(Asked)
    BY <1>1, <1>3
  <2>2. down = SubSeq(Asked, k + 1, Len(Asked))
    BY <1>3 DEF Got
  <2> QED BY <1>1, <1>3, <2>1, <2>2, RestOfSeq
<1>4. CASE Receiving
  <2>1. CASE Got(0)
    <3>1. 0 < Len(Asked) /\ 0 \in Nat
      BY <1>2, <1>1
    <3> QED BY <1>3, <2>1, <3>1
  <2>2. CASE header_idx \in {1, 2} /\ Got(header_idx)
    <3>1. header_idx < Len(Asked) /\ header_idx \in Nat
      BY <1>1, <1>2, <2>2
    <3> QED BY <1>3, <2>2, <3>1
  <2>3. CASE payload_idx < Collected /\ Got(HeaderLen + payload_idx)
    <3>1. HeaderLen + payload_idx < Len(Asked) /\ HeaderLen + payload_idx \in Nat
      BY <1>1, <1>2, <2>3, CodesAreSymbols DEF TypeOK, ControllerTypeOK, MessageTypeOK
    <3> QED BY <1>3, <2>3, <3>1
  <2> QED BY <1>4, <2>1, <2>2, <2>3 DEF Receiving
<1>5. CASE Writing
  <2>1. /\ wr.remaining \in 1 .. Len(call.data)
        /\ down = SubSeq(call.data, Len(call.data) - wr.remaining + 1, Len(call.data))
    BY <1>5 DEF Writing
  <2>2. PICK n \in 0 .. Len(call.data) : n = Len(call.data) - wr.remaining /\ n < Len(call.data)
    <3>1. /\ Len(call.data) - wr.remaining \in 0 .. Len(call.data)
          /\ Len(call.data) - wr.remaining < Len(call.data)
      BY <1>1, <2>1
    <3> QED BY <3>1
  <2>3. down = SubSeq(call.data, n + 1, Len(call.data))
    BY <2>1, <2>2
  <2> QED BY <1>1, <2>2, <2>3, RestOfSeq
<1> QED BY <1>4, <1>5

\* A complete answer is there.
LEMMA AnswerThere ==
  ASSUME TypeOK, Open, state = "idle", ~tx_busy, ~tx_valid, Acking \/ Responding
  PROVE  HeaderArrived \/ PayloadArrived
<1>1. Transmitted = <<>> /\ Len(Transmitted) = 0 /\ answer = <<>>
  BY TransmittedTyped DEF Open
<1>2. CASE Acking
  <2>1. Sent(HeaderLen) /\ phase = "header" /\ down = <<>>
    BY <1>2 DEF Acking
  <2>2. Len(up) + Len(Transmitted) = HeaderLen - Taken /\ Taken = 0
    BY <2>1, SentFacts DEF Taken
  <2>3. Len(up) \in Nat
    BY StateFacts
  <2>4. Len(up) = HeaderLen
    BY <1>1, <2>2, <2>3
  <2> QED BY <2>1, <2>4 DEF HeaderArrived
<1>3. CASE Responding
  <2>1. Sent(Len(Reply)) /\ phase \in {"header", "payload"} /\ down = <<>>
    BY <1>3, StateFacts DEF Responding
  <2>2. Len(Reply) = HeaderLen + call.len /\ call.len \in Nat
    BY <1>3, RespondingFacts
  <2>3. Len(up) + Len(Transmitted) = Len(Reply) - Taken
    BY <2>1, ReplyShape, SentFacts
  <2>4. Len(up) \in Nat
    BY StateFacts
  <2>5. CASE phase = "header"
    <3>1. Len(up) >= HeaderLen
      BY <1>1, <2>2, <2>3, <2>4, <2>5 DEF Taken
    <3> QED BY <2>1, <2>5, <3>1 DEF HeaderArrived
  <2>6. CASE phase = "payload"
    <3>1. Len(up) = call.len
      BY <1>1, <2>2, <2>3, <2>4, <2>6 DEF Taken
    <3>2. Remaining = call.len
      BY <1>1, <2>2 DEF Remaining
    <3> QED BY <2>2, <2>6, <3>1, <3>2 DEF PayloadArrived
  <2> QED BY <2>1, <2>5, <2>6
<1> QED BY <1>2, <1>3

LEMMA TickKeeps ==
  ASSUME TypeOK, TypeOK', Exchange, Tick
  PROVE  Exchange'
<1>1. /\ down = <<>> /\ LineIdle /\ ~Expired
      /\ state \in {"idle", "header", "payload", "dma_write", "wait_nmc"}
      /\ stall_cnt' = IF ~InWaitState THEN 0
                      ELSE IF stall_cnt < Limit THEN stall_cnt + 1 ELSE stall_cnt
      /\ engine' = IF engine.busy /\ engine.age <= EngineTicks
                   THEN [engine EXCEPT !.age = @ + 1] ELSE engine
      /\ UNCHANGED <<state, message, ack_byte_idx, uart, down, mem>>
  BY DEF Tick, BoardTick, Silent, indices
<1>2. /\ ~HeaderArrived /\ ~PayloadArrived
      /\ waited' = IF phase = "closed" THEN 0 ELSE waited + 1
      /\ UNCHANGED <<call, phase, answer, verdict, ran>>
  BY DEF Tick
<1>3. /\ engine'.busy = engine.busy /\ engine'.in = engine.in /\ engine'.out = engine.out
      /\ engine'.age <= EngineTicks => engine.age <= EngineTicks
  <2>1. engine \in [busy : BOOLEAN, in : Symbols, out : Symbols, age : 0 .. EngineTicks + 1]
        /\ EngineTicks \in Nat
    BY ControllerAssumption DEF TypeOK, ControllerTypeOK, BoardTypeOK, ControllerConstantsOK
  <2>2. engine' = [engine EXCEPT !.age = engine.age + 1] \/ engine' = engine
    BY <1>1
  <2> QED BY <2>1, <2>2
<1>4. LineEmpty => LineEmpty'
  BY <1>1 DEF LineEmpty, uart
<1>5. CASE Closed
  <2>1. FailsOnlyByEngine'
    BY <1>2, <1>3, <1>5 DEF Closed, FailsOnlyByEngine
  <2>2. Resting'
    BY <1>1, <1>4, <1>5 DEF Closed, Resting
  <2> QED BY <1>1, <1>2, <1>5, <2>1, <2>2 DEF Exchange, Closed
<1>6. CASE Open /\ (Receiving \/ Writing)
  BY <1>1, <1>6, MoreToCome
<1>7. CASE Open /\ Working
  <2>1. Fresh /\ waited = stall_cnt /\ state = "wait_nmc"
    BY <1>7 DEF Working
  <2>2. stall_cnt' = stall_cnt + 1
    <3>1. stall_cnt < Limit
      BY <1>1, <2>1, TimingFacts DEF Expired, InWaitState, Limit, TypeOK
    <3> QED BY <1>1, <2>1, <3>1 DEF InWaitState
  <2>3. waited' = stall_cnt'
    BY <1>2, <2>1, <2>2 DEF Fresh
  <2>4. Fresh'
    BY <1>2, <1>4, <2>1 DEF Fresh
  <2>5. Working'
    BY <1>1, <1>2, <1>3, <1>7, <2>1, <2>3, <2>4 DEF Working, message
  <2> QED BY <1>2, <1>7, <2>5 DEF Exchange, Open
<1>8. CASE Open /\ GaveUp
  <2>1. GaveUp'
    BY <1>1, <1>2, <1>3, <1>4, <1>8 DEF GaveUp, Fresh
  <2> QED BY <1>2, <1>8, <2>1 DEF Exchange, Open
<1>9. CASE Open /\ (Acking \/ Responding)
  <2>1. state = "idle"
    BY <1>1, <1>9 DEF Acking, Responding
  <2> QED BY <1>1, <1>2, <1>9, <2>1, AnswerThere DEF LineIdle
<1> QED BY <1>5, <1>6, <1>7, <1>8, <1>9 DEF Exchange, Open

-----------------------------------------------------------------------------
(***************************************************************************)
(* The host.                                                               *)
(***************************************************************************)
\* An answer begins to arrive only once the request has been carried out.
LEMMA SomethingArrived ==
  ASSUME TypeOK, Exchange, up # <<>>
  PROVE  Open /\ answer = <<>> /\ verdict = "none" /\ (Acking \/ Responding)
  BY DEF Exchange, Closed, Open, Receiving, Writing, Working, GaveUp, Fresh, Resting, LineEmpty

\* Nothing follows an acknowledgement.
LEMMA AckComplete ==
  ASSUME TypeOK, Transmitter, Acking, Len(up) >= HeaderLen
  PROVE  /\ Len(up) = HeaderLen /\ up[1] = MSG_ACK /\ ~tx_busy /\ ~tx_valid
         /\ state = "idle" \/ (state = "ack_wait" /\ ack_byte_idx = HeaderLen - 1)
<1>1. Taken = 0 /\ Len(Reply) = HeaderLen /\ Reply[1] = MSG_ACK
  BY ReplyShape DEF Acking, Taken
<1>2. ack_byte_idx \in {0, 1, 2} /\ Len(up) \in Nat /\ Len(Transmitted) \in Nat
  BY StateFacts, TransmittedTyped
<1>3. tx_busy \in BOOLEAN /\ tx_valid \in BOOLEAN
  BY StateFacts
<1>4. ASSUME NEW n \in Nat, Sent(n)
      PROVE  n = HeaderLen /\ Len(up) = HeaderLen /\ up[1] = MSG_ACK /\ ~tx_busy /\ ~tx_valid
  <2>1. /\ Len(up) + Len(Transmitted) = n - Taken /\ n <= Len(Reply)
        /\ \A i \in 1 .. Len(up) : up[i] = Reply[Taken + i]
    BY <1>4, SentFacts
  <2>2. n = 3 /\ Len(up) = 3 /\ Len(Transmitted) = 0
    <3>1. \A a, b, m \in Nat : a >= 3 /\ m <= 3 /\ a + b = m - 0 => m = 3 /\ a = 3 /\ b = 0
      OBVIOUS
    <3>2. Len(up) >= 3 /\ n <= 3 /\ Len(up) + Len(Transmitted) = n - 0
      BY <1>1, <2>1
    <3> QED BY <1>2, <1>4, <3>1, <3>2
  <2>3. up[1] = MSG_ACK
    <3>1. 1 \in 1 .. Len(up) /\ 0 + 1 = 1
      BY <2>2
    <3> QED BY <1>1, <2>1, <3>1
  <2>4. ~tx_busy /\ ~tx_valid
    BY <2>2, TransmittedTyped
  <2> QED BY <2>2, <2>3, <2>4
<1>5. CASE state = "send_ack"
  <2>1. PICK n \in Nat : Sent(n) /\ n = IF tx_valid THEN ack_byte_idx + 1 ELSE ack_byte_idx
    BY <1>2, <1>5 DEF Acking
  <2> QED BY <1>2, <1>4, <2>1
<1>6. CASE state = "ack_wait"
  <2>1. PICK n \in Nat : Sent(n) /\ n = ack_byte_idx + 1
    BY <1>2, <1>6 DEF Acking
  <2>2. n = HeaderLen /\ Len(up) = HeaderLen /\ up[1] = MSG_ACK /\ ~tx_busy /\ ~tx_valid
    BY <1>4, <2>1
  <2>3. ack_byte_idx = HeaderLen - 1
    BY <1>2, <2>1, <2>2
  <2> QED BY <1>6, <2>2, <2>3
<1>7. CASE state = "idle"
  <2>1. Sent(HeaderLen) /\ HeaderLen \in Nat
    BY <1>7 DEF Acking
  <2> QED BY <1>4, <1>7, <2>1
<1> QED BY <1>5, <1>6, <1>7 DEF Acking

\* How much of an answer has been sent, stage by stage.
LEMMA ResponseSent ==
  ASSUME TypeOK, Responding
  PROVE  \E n \in Nat :
           /\ Sent(n)
           /\ state = "send_resp_hdr" => n = resp_hdr_idx
           /\ state \in {"dma_read_req", "dma_read_resp"} => n = HeaderLen + rd.sent
           /\ state = "idle" => n = Len(Reply)
<1>1. resp_hdr_idx \in {0, 1, 2} /\ rd.sent \in Nat
  BY StateFacts
<1>2. Len(Reply) \in Nat
  BY ReplyShape
<1>3. CASE state = "send_resp_hdr"
  <2>1. Sent(resp_hdr_idx) /\ resp_hdr_idx \in Nat
    BY <1>1, <1>3 DEF Responding
  <2> QED BY <1>3, <2>1
<1>4. CASE state \in {"dma_read_req", "dma_read_resp"}
  <2>1. Sent(HeaderLen + rd.sent) /\ HeaderLen + rd.sent \in Nat
    BY <1>1, <1>4 DEF Responding
  <2> QED BY <1>4, <2>1
<1>5. CASE state = "idle"
  <2>1. Sent(Len(Reply)) /\ Len(Reply) \in Nat
    BY <1>2, <1>5 DEF Responding
  <2> QED BY <1>5, <2>1
<1> QED BY <1>3, <1>4, <1>5 DEF Responding

\* Nothing follows the last symbol of an answer.
LEMMA ResponseComplete ==
  ASSUME TypeOK, Transmitter, Responding, Len(up) >= Len(Reply) - Taken
  PROVE  /\ Len(up) = Len(Reply) - Taken /\ state = "idle" /\ ~tx_busy /\ ~tx_valid
         /\ \A i \in 1 .. Len(up) : up[i] = Reply[Taken + i]
<1>1. PICK n \in Nat :
        /\ Sent(n)
        /\ state = "send_resp_hdr" => n = resp_hdr_idx
        /\ state \in {"dma_read_req", "dma_read_resp"} => n = HeaderLen + rd.sent
  BY ResponseSent
<1>2. /\ Taken \in Nat /\ Len(up) + Len(Transmitted) = n - Taken /\ n <= Len(Reply)
      /\ \A i \in 1 .. Len(up) : up[i] = Reply[Taken + i]
  BY <1>1, SentFacts
<1>3. /\ Len(up) \in Nat /\ Len(Transmitted) \in Nat
      /\ resp_hdr_idx \in {0, 1, 2} /\ rd.sent \in Nat
  BY StateFacts, TransmittedTyped
<1>4. Len(Reply) = HeaderLen + call.len /\ call.len \in Nat
  BY RespondingFacts
<1>5. n = Len(Reply) /\ Len(up) = Len(Reply) - Taken /\ Len(Transmitted) = 0
  <2>1. \A a, b, l, m, t \in Nat :
          a + b = m - t /\ m <= l /\ a >= l - t => m = l /\ a = l - t /\ b = 0
    OBVIOUS
  <2>2. Len(Reply) \in Nat
    BY <1>4
  <2>3. Len(up) + Len(Transmitted) = n - Taken /\ n <= Len(Reply) /\ Taken \in Nat
    BY <1>2
  <2>4. Len(up) \in Nat /\ Len(Transmitted) \in Nat
    BY <1>3
  <2> QED BY ONLY <2>1, <2>2, <2>3, <2>4, Len(up) >= Len(Reply) - Taken, n \in Nat
<1>6. ~tx_busy /\ ~tx_valid
  BY <1>5, StateFacts, TransmittedTyped
<1>7. state # "send_resp_hdr"
  BY <1>1, <1>3, <1>4, <1>5
<1>8. state # "dma_read_req"
  BY <1>6 DEF Transmitter
<1>9. state # "dma_read_resp"
  <2>1. state = "dma_read_resp" => rd.sent < call.len /\ n = HeaderLen + rd.sent
    BY <1>1, RespondingFacts DEF Responding
  <2> QED BY <1>3, <1>4, <1>5, <2>1
<1> QED BY <1>2, <1>5, <1>6, <1>7, <1>8, <1>9 DEF Responding

\* Taking n symbols off a line that has no more leaves it empty.
LEMMA AllTaken ==
  ASSUME TypeOK, NEW n \in Nat, n = Len(up), Take(n), ~tx_busy, ~tx_valid
  PROVE  LineEmpty'
<1>1. up' = SubSeq(up, n + 1, Len(up)) /\ UNCHANGED <<tx_busy, tx_valid>>
  BY DEF Take
<1>2. up' = <<>>
  BY <1>1, StateFacts, NoneLeft
<1> QED BY <1>1, <1>2 DEF LineEmpty

LEMMA CallEnds ==
  ASSUME LineEmpty', phase' = "closed", down' = <<>>,
         state' = "idle" \/ (state' = "ack_wait" /\ ack_byte_idx' = HeaderLen - 1),
         FailsOnlyByEngine'
  PROVE  Exchange'
<1>1. Resting'
  BY DEF Resting
<1> QED BY <1>1 DEF Exchange, Closed

\* What a received header leads to.
LEMMA HeaderReceived ==
  ASSUME TypeOK, Exchange, Transmitter, RecvHeader
  PROVE  /\ Exchange'
         /\ call' = call /\ ran' = ran /\ UNCHANGED mem
         /\ \/ phase' = "payload" /\ UNCHANGED <<answer, verdict>>
            \/ /\ phase' = "closed" /\ verdict' = "ok" /\ answer' = <<>>
               /\ call.op # "read" => Acking
               /\ call.op = "read" => call.len = 0
<1>1. /\ phase = "header" /\ down = <<>> /\ Len(up) >= HeaderLen /\ Take(HeaderLen)
      /\ CASE Head(up) = MSG_DATA_RESPONSE /\ call.op = "read" /\ call.len > 0 ->
                /\ phase' = "payload" /\ waited' = 0
                /\ UNCHANGED <<call, answer, verdict, ran>>
           [] Head(up) = MSG_DATA_RESPONSE /\ call.op = "read" /\ call.len = 0 ->
                Return("ok", <<>>)
           [] Head(up) = MSG_ACK /\ call.op # "read" -> Return("ok", <<>>)
           [] Head(up) \notin {MSG_ACK, MSG_ERROR} /\ call.op = "write" ->
                \E v \in {"ok", "failed"} : Return(v, <<>>)
           [] OTHER -> Return("failed", <<>>)
  BY DEF RecvHeader, HeaderArrived
<1>2. /\ up' = SubSeq(up, HeaderLen + 1, Len(up))
      /\ UNCHANGED <<state, header_buf, ack_byte_idx, resp_hdr_idx, rd, tx_valid, tx_data,
                     tx_busy, tx_shift, down, mem, dma>>
  BY <1>1 DEF Take, message, indices, board
<1>3. up \in Seq(Symbols) /\ Len(up) \in Nat /\ call.len \in Nat
  BY StateFacts
<1>4. up # <<>> /\ Head(up) = up[1]
  <2>1. Len(up) > 0
    BY <1>1, <1>3
  <2> QED BY <1>3, <2>1, HeadOfSeq
<1>5. Open /\ answer = <<>> /\ verdict = "none" /\ (Acking \/ Responding)
  BY <1>4, SomethingArrived
<1>6. CASE Acking
  <2>1. call.op # "read"
    BY <1>6 DEF Acking
  <2>2. /\ Len(up) = HeaderLen /\ up[1] = MSG_ACK /\ ~tx_busy /\ ~tx_valid
        /\ state = "idle" \/ (state = "ack_wait" /\ ack_byte_idx = HeaderLen - 1)
    BY <1>1, <1>6, AckComplete
  <2>3. Return("ok", <<>>)
    BY <1>1, <1>4, <2>1, <2>2
  <2>4. phase' = "closed" /\ verdict' = "ok" /\ answer' = <<>> /\ call' = call /\ ran' = ran
    BY <2>3 DEF Return
  <2>5. LineEmpty'
    BY <1>1, <2>2, AllTaken
  <2>6. FailsOnlyByEngine'
    BY <2>4 DEF FailsOnlyByEngine
  <2>7. Exchange'
    BY <1>1, <1>2, <2>2, <2>4, <2>5, <2>6, CallEnds
  <2> QED BY <1>2, <1>6, <2>1, <2>4, <2>7
<1>7. CASE Responding
  <2>1. call.op = "read" /\ Len(Reply) = HeaderLen + call.len
    BY <1>7, RespondingFacts
  <2>2. Reply[1] = MSG_DATA_RESPONSE /\ Reply \in Seq(Symbols) /\ Len(Reply) \in Nat
    BY <2>1, ReplyShape
  <2>3. Taken = 0
    BY <1>1 DEF Taken
  <2>4. PICK n \in Nat :
          /\ Sent(n)
          /\ state = "send_resp_hdr" => n = resp_hdr_idx
          /\ state \in {"dma_read_req", "dma_read_resp"} => n = HeaderLen + rd.sent
          /\ state = "idle" => n = Len(Reply)
    BY <1>7, ResponseSent
  <2>5. /\ Len(up) + Len(Transmitted) = n - Taken /\ n <= Len(Reply)
        /\ \A i \in 1 .. Len(up) : up[i] = Reply[Taken + i]
    BY <2>4, SentFacts
  <2>6. Head(up) = MSG_DATA_RESPONSE
    <3>1. 1 \in 1 .. Len(up) /\ 0 + 1 = 1
      BY <1>1, <1>3
    <3> QED BY <1>4, <2>2, <2>3, <2>5, <3>1
  <2>7. CASE call.len > 0
    <3>1. phase' = "payload" /\ waited' = 0 /\ UNCHANGED <<call, answer, verdict, ran>>
      BY <1>1, <2>1, <2>6, <2>7
    <3>2. Transmitted' = Transmitted
      BY <1>2 DEF Transmitted
    <3>3. Reply' = Reply /\ Taken' = HeaderLen
      BY <1>2, <3>1, ReplyKept DEF Taken
    <3>4. n >= HeaderLen
      BY <1>1, <1>3, <2>3, <2>5, TransmittedTyped
    <3>5. up' \o Transmitted' = SubSeq(Reply', Taken' + 1, n)
      <4>1. up \o Transmitted = SubSeq(Reply, 0 + 1, n)
        BY <2>3, <2>4 DEF Sent
      <4>2. SubSeq(up, HeaderLen + 1, Len(up)) \o Transmitted = SubSeq(Reply, HeaderLen + 1, n)
        <5>1. HeaderLen <= Len(up) /\ HeaderLen \in Nat /\ n <= Len(Reply)
          BY <1>1, <1>3, <2>5
        <5> QED BY <4>1, <5>1, FrontTaken
      <4> QED BY <1>2, <3>2, <3>3, <4>2
    <3>6. SentAfter(n)
      BY <2>5, <3>3, <3>4, <3>5 DEF SentAfter
    <3>7. Responding'
      <4>1. /\ phase' \in {"header", "payload"} /\ waited' <= WatchdogLimitNmc /\ down' = <<>>
            /\ call'.op = "read"
            /\ state' # "idle" =>
                 header_buf'[1] = 0 /\ rd'.base = call'.addr /\ rd'.total = call'.len
        BY <1>1, <1>2, <1>7, <2>1, <3>1, RespondingFacts, ControllerAssumption
        DEF ControllerConstantsOK
      <4>2. CASE state = "send_resp_hdr"
        BY <1>3, <2>4, <3>4, <4>2, StateFacts
      <4>3. CASE state = "dma_read_req"
        <5>1. rd.requested = rd.sent /\ (rd.sent < rd.total \/ rd.total = 0)
          BY <1>7, <4>3 DEF Responding
        <5>2. SentAfter(HeaderLen + rd'.sent)
          BY <1>2, <2>4, <3>6, <4>3
        <5> QED BY <1>2, <4>1, <4>3, <5>1, <5>2 DEF Responding, Sent, SentAfter
      <4>4. CASE state = "dma_read_resp"
        <5>1. /\ rd.sent < rd.total /\ rd.requested = rd.sent + 1
              /\ rd.have => rd.latch = mem[Cell(rd.base + rd.sent)]
              /\ ~rd.have => dma = rd.base + rd.sent
          BY <1>7, <4>4 DEF Responding
        <5>2. SentAfter(HeaderLen + rd'.sent)
          BY <1>2, <2>4, <3>6, <4>4
        <5> QED BY <1>2, <4>1, <4>4, <5>1, <5>2 DEF Responding, Sent, SentAfter
      <4>5. CASE state = "idle"
        <5>1. SentAfter(Len(Reply'))
          BY <2>4, <3>3, <3>6, <4>5
        <5> QED BY <1>2, <4>1, <4>5, <5>1 DEF Responding, Sent, SentAfter
      <4> QED BY <1>7, <4>2, <4>3, <4>4, <4>5 DEF Responding
    <3>8. Exchange'
      BY <1>5, <3>1, <3>7 DEF Exchange, Open
    <3> QED BY <1>2, <3>1, <3>8
  <2>8. CASE call.len = 0
    <3>1. Return("ok", <<>>)
      BY <1>1, <2>1, <2>6, <2>8
    <3>2. phase' = "closed" /\ verdict' = "ok" /\ answer' = <<>> /\ call' = call /\ ran' = ran
      BY <3>1 DEF Return
    <3>3. Len(up) >= Len(Reply) - Taken
      BY <1>1, <2>1, <2>3, <2>8
    <3>4. Len(up) = HeaderLen /\ state = "idle" /\ ~tx_busy /\ ~tx_valid
      BY <1>7, <2>1, <2>3, <2>8, <3>3, ResponseComplete
    <3>5. LineEmpty'
      BY <1>1, <3>4, AllTaken
    <3>6. FailsOnlyByEngine'
      BY <3>2 DEF FailsOnlyByEngine
    <3>7. Exchange'
      BY <1>1, <1>2, <3>2, <3>4, <3>5, <3>6, CallEnds
    <3> QED BY <1>2, <2>1, <2>8, <3>2, <3>7
  <2> QED BY <1>3, <2>7, <2>8
<1> QED BY <1>5, <1>6, <1>7

LEMMA PayloadReceived ==
  ASSUME TypeOK, Exchange, Transmitter, RecvPayload
  PROVE  /\ Exchange'
         /\ call' = call /\ ran' = ran /\ UNCHANGED mem
         /\ call.op = "read" /\ phase' = "closed" /\ verdict' = "ok" /\ answer' = Contents
<1>1. /\ phase = "payload" /\ Len(up) >= Remaining /\ Take(Remaining)
      /\ Return("ok", answer \o SubSeq(up, 1, Remaining))
  BY DEF RecvPayload, PayloadArrived
<1>2. Open /\ answer = <<>> /\ Responding
  BY <1>1 DEF Exchange, Closed, Open, Receiving, Writing, Working, GaveUp, Fresh, Acking
<1>3. /\ call.op = "read" /\ down = <<>> /\ call.len \in Nat /\ Len(Reply) = HeaderLen + call.len
      /\ \A i \in 1 .. call.len : Reply[HeaderLen + i] = mem[Cell(call.addr + i - 1)]
  BY <1>2, RespondingFacts
<1>4. Remaining = call.len /\ Taken = HeaderLen
  BY <1>1, <1>2, <1>3 DEF Remaining, Taken
<1>5. Len(up) >= Len(Reply) - Taken /\ up \in Seq(Symbols) /\ Len(up) \in Nat
  <2>1. up \in Seq(Symbols) /\ Len(up) \in Nat
    BY StateFacts
  <2>2. Len(Reply) - Taken = call.len
    BY <1>3, <1>4 DEF HeaderLen
  <2> QED BY <1>1, <1>4, <2>1, <2>2
<1>6. /\ Len(up) = call.len /\ state = "idle" /\ ~tx_busy /\ ~tx_valid
      /\ \A i \in 1 .. call.len : up[i] = Reply[HeaderLen + i]
  <2>1. /\ Len(up) = Len(Reply) - Taken /\ state = "idle" /\ ~tx_busy /\ ~tx_valid
        /\ \A i \in 1 .. Len(up) : up[i] = Reply[Taken + i]
    BY <1>2, <1>5, ResponseComplete
  <2>2. Len(up) = call.len
    BY <1>3, <1>4, <2>1
  <2> QED BY <1>4, <2>1, <2>2
<1>7. LineEmpty'
  BY <1>1, <1>3, <1>4, <1>6, AllTaken
<1>8. /\ phase' = "closed" /\ verdict' = "ok" /\ call' = call /\ ran' = ran
      /\ answer' = <<>> \o SubSeq(up, 1, call.len)
      /\ UNCHANGED <<state, ack_byte_idx, down, mem>>
  BY <1>1, <1>2, <1>4 DEF Return, Take, indices, board
<1>9. answer' = Contents
  <2>1. SubSeq(up, 1, call.len) = up
    BY <1>5, <1>6, AllLeft
  <2>2. answer' = up
    BY <1>5, <1>8, <2>1, ConcatEmptySeq
  <2>3. /\ Contents \in Seq(Symbols) /\ Len(Contents) = call.len
        /\ \A i \in 1 .. call.len : Contents[i] = mem[Cell(call.addr + i - 1)]
    BY ContentsTyped
  <2>4. \A i \in 1 .. call.len : up[i] = Contents[i]
    BY <1>3, <1>6, <2>3
  <2> QED BY <1>3, <1>5, <1>6, <2>2, <2>3, <2>4, SameElements
<1>10. FailsOnlyByEngine'
  BY <1>8 DEF FailsOnlyByEngine
<1>11. Exchange'
  BY <1>3, <1>6, <1>7, <1>8, <1>10, CallEnds
<1> QED BY <1>3, <1>8, <1>9, <1>11

\* The host gives up only on an engine.
LEMMA GivenUp ==
  ASSUME TypeOK, Undisturbed, Exchange, Timeout
  PROVE  /\ Exchange'
         /\ call' = call /\ ran' = ran /\ UNCHANGED mem
         /\ phase = "header" /\ phase' = "closed" /\ verdict' = "failed" /\ answer' = <<>>
<1>1. /\ phase # "closed" /\ waited = HostTimeout /\ Take(Len(up))
      /\ phase = "header" => Return("failed", <<>>)
  BY DEF Timeout
<1>2. waited > WatchdogLimitNmc /\ waited > 0 /\ WatchdogLimitNmc \in Nat
  BY <1>1, LinkAssumption, ControllerAssumption
  DEF Undisturbed, LinkConstantsOK, ControllerConstantsOK
<1>3. stall_cnt <= WatchdogLimitNmc /\ stall_cnt \in Nat
  BY StateFacts
<1>4. Open /\ GaveUp
  <2>1. ~(waited <= WatchdogLimitNmc) /\ waited # 0 /\ waited # stall_cnt
    BY <1>2, <1>3, StateFacts
  <2> QED BY <1>1, <2>1 DEF Exchange, Closed, Open, Receiving, Writing, Working, Acking, Responding
<1>5. /\ Fresh /\ down = <<>> /\ state = "idle" /\ call.op = "nmc"
      /\ call.nmc_op \in NmcEngines => engine.busy
  BY <1>4 DEF GaveUp
<1>6. phase = "header" /\ ~ran /\ up = <<>> /\ ~tx_busy /\ ~tx_valid
  BY <1>5 DEF Fresh, LineEmpty
<1>7. /\ phase' = "closed" /\ verdict' = "failed" /\ answer' = <<>> /\ call' = call /\ ran' = ran
      /\ UNCHANGED <<state, ack_byte_idx, down, mem, engine>>
  BY <1>1, <1>6 DEF Return, Take, indices, board
<1>8. LineEmpty'
  BY <1>1, <1>6, StateFacts, AllTaken
<1>9. FailsOnlyByEngine'
  BY <1>5, <1>6, <1>7 DEF FailsOnlyByEngine
<1>10. Exchange'
  BY <1>5, <1>7, <1>8, <1>9, CallEnds
<1> QED BY <1>6, <1>7, <1>10

LEMMA SendKeeps ==
  ASSUME TypeOK, StallOnlyWaiting, Exchange, NEW c \in Calls, Send(c)
  PROVE  Exchange'
<1>1. /\ phase = "closed" /\ call' = c /\ phase' = "header" /\ waited' = 0
      /\ answer' = <<>> /\ verdict' = "none" /\ ran' = FALSE
      /\ down' = down \o Request(c)
      /\ UNCHANGED <<state, ack_byte_idx, stall_cnt, tx_valid, tx_busy, up>>
  BY DEF Send, indices, uart
<1>2. Resting /\ down = <<>>
  BY <1>1 DEF Exchange, Closed, Open, Receiving, Writing, Working, GaveUp, Acking, Responding, Fresh
<1>3. Fresh' /\ Resting'
  BY <1>1, <1>2 DEF Fresh, Resting, LineEmpty
<1>4. stall_cnt' = 0
  BY <1>1, <1>2, StateFacts DEF StallOnlyWaiting, Resting
<1>5. down' = Request(c)
  BY <1>1, <1>2, RequestIsSymbols, ConcatEmptySeq
<1>6. Asked' = Request(c)
  BY <1>1 DEF Asked
<1>7. GotAfter(0)
  <2>1. SubSeq(Request(c), 1, Len(Request(c))) = Request(c) /\ 0 + 1 = 1
    BY RequestIsSymbols, AllLeft
  <2> QED BY <1>5, <1>6, <2>1 DEF GotAfter
<1>8. Receiving'
  BY <1>1, <1>3, <1>4, <1>7 DEF Receiving, Got, GotAfter
<1> QED BY <1>1, <1>8 DEF Exchange, Open

LEMMA StutterKeeps ==
  ASSUME Exchange, UNCHANGED vars
  PROVE  Exchange'
<1>1. UNCHANGED <<state, header_buf, header_idx, payload_buf, payload_idx, payload_len,
                  ack_byte_idx, resp_hdr_idx, wr, rd, stall_cnt, tx_valid, tx_data, tx_ready,
                  tx_busy, tx_shift, up, down, mem, dma, engine>>
  BY DEF vars, controller_vars, message, indices, uart, board
<1>2. UNCHANGED <<call, phase, waited, answer, verdict, ran>>
  BY DEF vars, host
<1>3. (Closed => Closed')
  BY <1>1, <1>2 DEF Closed, Resting, LineEmpty, FailsOnlyByEngine
<1>4. /\ Asked' = Asked /\ Collected' = Collected /\ Reply' = Reply
      /\ Transmitted' = Transmitted /\ Taken' = Taken
  BY <1>1, <1>2, AskedKept, ReplyKept DEF Transmitted, Taken
<1>5. Receiving => Receiving'
  BY <1>1, <1>2, <1>4 DEF Receiving, Fresh, Resting, LineEmpty, Got, Register
<1>6. (Writing => Writing') /\ (Working => Working') /\ (GaveUp => GaveUp')
  BY <1>1, <1>2 DEF Writing, Working, GaveUp, Fresh, LineEmpty, StoredTo
<1>7. Acking => Acking'
  BY <1>1, <1>2, <1>4 DEF Acking, Sent, StoredTo
<1>8. Responding => Responding'
  BY <1>1, <1>2, <1>4 DEF Responding, Sent
<1> QED BY <1>2, <1>3, <1>5, <1>6, <1>7, <1>8 DEF Exchange, Open

-----------------------------------------------------------------------------
(***************************************************************************)
(* The theorems.                                                           *)
(***************************************************************************)
LEMMA XInvInit == Init => XInv
<1> SUFFICES ASSUME Init PROVE XInv
  OBVIOUS
<1>1. /\ state = "idle" /\ down = <<>> /\ up = <<>>
      /\ tx_valid = FALSE /\ tx_busy = FALSE /\ phase = "closed" /\ verdict = "none"
  BY DEF Init, ControllerInit
<1>2. Exchange
  BY <1>1 DEF Exchange, Closed, Resting, LineEmpty, FailsOnlyByEngine
<1>3. Transmitter
  BY <1>1 DEF Transmitter
<1> QED BY <1>2, <1>3 DEF XInv

LEMMA ExchangeKept ==
  ASSUME TypeOK, TypeOK', Undisturbed, IInv, Exchange, Transmitter, [Next]_vars
  PROVE  Exchange'
<1>1. ReadInFlight /\ StallOnlyWaiting /\ EngineTimed
  BY DEF IInv
<1>2. CASE ControllerStep
  <2>1. ControllerNext /\ HostUntouched
    BY <1>2 DEF ControllerStep
  <2>2. CASE IdleByte \/ HeaderByte \/ PayloadByte \/ LostByte \/ DmaWriteByte
    BY <2>1, <2>2, IdleByteKeeps, HeaderByteKeeps, PayloadByteKeeps, NoLostByte, DmaWriteByteKeeps
  <2>3. CASE DispatchAck \/ DispatchNmc \/ DispatchWrite \/ DispatchRead
    BY <1>1, <2>1, <2>3, DispatchAckKeeps, DispatchNmcKeeps, DispatchWriteKeeps, DispatchReadKeeps
  <2>4. CASE SendAck \/ AckWait \/ SendRespHdr
    BY <1>1, <2>1, <2>4, SendAckKeeps, AckWaitKeeps, SendRespHdrKeeps
  <2>5. CASE DmaReadReq \/ DmaReadValid \/ DmaReadSend
    BY <1>1, <2>1, <2>5, DmaReadReqKeeps, DmaReadValidKeeps, DmaReadSendKeeps
  <2>6. CASE WaitClock \/ Watchdog
    BY <1>1, <2>1, <2>6, WaitClockKeeps, WatchdogKeeps
  <2> QED BY <2>1, <2>2, <2>3, <2>4, <2>5, <2>6 DEF ControllerNext
<1>3. CASE TransmitterStep
  BY <1>3, UartDoneKeeps DEF TransmitterStep
<1>4. CASE EngineStep
  BY <1>1, <1>4, EngineStepKeeps
<1>5. CASE HostReceive
  BY <1>5, HeaderReceived, PayloadReceived, GivenUp DEF HostReceive
<1>6. CASE Tick
  BY <1>6, TickKeeps
<1>7. CASE Restart \/ Opened \/ Stray
  BY <1>1, <1>7, OpenedNever DEF Restart, Stray, Fault, Undisturbed
<1>8. ASSUME NEW c \in Calls, Send(c) PROVE Exchange'
  BY <1>1, <1>8, SendKeeps
<1>9. CASE UNCHANGED vars
  BY <1>9, StutterKeeps
<1> QED
  BY <1>2, <1>3, <1>4, <1>5, <1>6, <1>7, <1>8, <1>9 DEF Next

LEMMA XInvNext ==
  ASSUME TypeOK, TypeOK', Undisturbed, IInv, XInv, [Next]_vars
  PROVE  XInv'
<1>1. Exchange /\ Transmitter
  BY DEF XInv
<1>2. Exchange'
  BY <1>1, ExchangeKept
<1>3. Transmitter'
  BY <1>1, TransmitterKept DEF IInv
<1> QED BY <1>2, <1>3 DEF XInv

\* On an undisturbed link the exchange goes through its stages, whatever is
\* asked for and in any order.
LEMMA XInvInvariant ==
  ASSUME Undisturbed
  PROVE  Spec => [](TypeOK /\ IInv /\ XInv)
<1>1. Init => TypeOK /\ IInv /\ XInv
  BY InitTypes, IInvInit, XInvInit
<1>2. TypeOK /\ IInv /\ XInv /\ [Next]_vars => (TypeOK /\ IInv /\ XInv)'
  <2> SUFFICES ASSUME TypeOK, IInv, XInv, [Next]_vars
               PROVE  TypeOK' /\ IInv' /\ XInv'
    OBVIOUS
  <2>1. TypeOK' /\ IInv'
    BY NextTypes, IInvNext
  <2> QED BY <2>1, XInvNext
<1> QED BY <1>1, <1>2, PTL DEF Spec

\* On an undisturbed link nothing of a request or of its answer is under way
\* between two calls (executors.cpp sends the next request without draining).
THEOREM NothingLeftTheorem ==
  ASSUME Undisturbed
  PROVE  Spec => []NothingLeftOver
<1>1. TypeOK /\ IInv /\ XInv => NothingLeftOver
  <2> SUFFICES ASSUME TypeOK, XInv, phase = "closed"
               PROVE  down = <<>> /\ Resting
    BY DEF NothingLeftOver, Resting, LineEmpty
  <2> QED BY DEF XInv, Exchange, Closed, Open, Receiving, Writing, Working, GaveUp, Acking,
                 Responding, Fresh
<1> QED BY <1>1, XInvInvariant, PTL

\* On an undisturbed link a call fails only because its operation has no engine
\* or its engine has not finished: no symbol of a request or an answer is lost.
THEOREM FailsOnlyTheorem ==
  ASSUME Undisturbed
  PROVE  Spec => []FailsOnlyByEngine
<1>1. TypeOK /\ IInv /\ XInv => FailsOnlyByEngine
  BY DEF XInv, Exchange, Closed, Open, FailsOnlyByEngine
<1> QED BY <1>1, XInvInvariant, PTL

-----------------------------------------------------------------------------
(***************************************************************************)
(* The link implements RemoteMemory: a request begins a call, a symbol of  *)
(* data is a store, an engine runs, and the last symbol of the answer, or  *)
(* the deadline, ends it.  The program sees nothing else.                  *)
(***************************************************************************)
Remotely == [Remote!RNext]_(Remote!rvars)

LEMMA NothingSeen ==
  ASSUME UNCHANGED <<mem, call, ran, answer, verdict>>,
         phase' = phase \/ (phase # "closed" /\ phase' # "closed")
  PROVE  Remotely
<1>1. (phase' # "closed") = (phase # "closed")
  OBVIOUS
<1>2. (IF phase' = "closed" THEN answer' ELSE <<>>) = (IF phase = "closed" THEN answer ELSE <<>>)
  OBVIOUS
<1> QED BY <1>1, <1>2 DEF Remotely, Remote!rvars

LEMMA BeginSeen ==
  ASSUME NEW c \in Calls, phase = "closed", phase' = "header", call' = c, ran' = FALSE,
         verdict' = "none", mem' = mem
  PROVE  Remotely
<1>1. Remote!Begin(c)
  BY DEF Remote!Begin
<1> QED BY <1>1 DEF Remotely, Remote!RNext

LEMMA StoreSeen ==
  ASSUME NEW i \in 1 .. Len(call.data), phase = "header", call.op = "write",
         mem' = [mem EXCEPT ![Cell(call.addr + i - 1)] = call.data[i]],
         UNCHANGED <<call, phase, ran, answer, verdict>>
  PROVE  Remotely
<1>1. Remote!Store(i)
  BY DEF Remote!Store, Remote!At, Cell
<1> QED BY <1>1 DEF Remotely, Remote!RNext

LEMMA RunSeen ==
  ASSUME phase = "header", call.op = "nmc", ~ran, ran' = TRUE,
         mem' = [mem EXCEPT ![Cell(call.out)] = (mem[Cell(call.addr)] + 1) % NValues],
         UNCHANGED <<call, phase, answer, verdict>>
  PROVE  Remotely
<1>1. Remote!Run
  BY DEF Remote!Run, Remote!At, Cell
<1> QED BY <1>1 DEF Remotely, Remote!RNext

LEMMA SuccessSeen ==
  ASSUME phase # "closed", phase' = "closed", verdict' = "ok", UNCHANGED <<mem, call, ran>>,
         call.op = "write" => StoredTo(Len(call.data)),
         call.op = "nmc" => ran,
         answer' = IF call.op = "read" THEN Contents ELSE <<>>
  PROVE  Remotely
<1>1. call.op = "write" => Remote!Stored
  BY DEF StoredTo, Remote!Stored, Remote!At, Cell
<1>2. Remote!Contents = Contents
  BY DEF Contents, Remote!Contents, Remote!At, Cell
<1>3. Remote!Succeed
  BY <1>1, <1>2, Zenon DEF Remote!Succeed
<1> QED BY <1>3 DEF Remotely, Remote!RNext

LEMMA FailureSeen ==
  ASSUME phase # "closed", phase' = "closed", verdict' = "failed", answer' = <<>>,
         UNCHANGED <<mem, call, ran>>
  PROVE  Remotely
<1>1. Remote!Fail
  BY DEF Remote!Fail
<1> QED BY <1>1 DEF Remotely, Remote!RNext

\* Of the controller's own steps only that of a byte of data changes the memory.
LEMMA MemoryKept ==
  ASSUME ControllerNext, ~DmaWriteByte
  PROVE  mem' = mem
<1>1. CASE IdleByte \/ HeaderByte \/ PayloadByte \/ LostByte
  BY <1>1 DEF IdleByte, HeaderByte, PayloadByte, LostByte, board
<1>2. CASE DispatchAck \/ DispatchNmc \/ DispatchWrite \/ DispatchRead
  BY <1>2 DEF DispatchAck, DispatchNmc, DispatchWrite, DispatchRead, board
<1>3. CASE SendAck \/ AckWait \/ SendRespHdr \/ DmaReadReq \/ DmaReadValid \/ DmaReadSend
  BY <1>3 DEF SendAck, AckWait, SendRespHdr, DmaReadReq, DmaReadValid, DmaReadSend, board
<1>4. CASE WaitClock \/ Watchdog
  BY <1>4 DEF WaitClock, Watchdog, board
<1> QED BY <1>1, <1>2, <1>3, <1>4 DEF ControllerNext

LEMMA DmaWriteSeen ==
  ASSUME TypeOK, Exchange, DmaWriteByte, HostUntouched
  PROVE  Remotely
<1>1. /\ state = "dma_write" /\ down # <<>>
      /\ mem' = [mem EXCEPT ![Cell(wr.base)] = Head(down)]
  BY DEF DmaWriteByte, Received
<1>2. Writing
  <2>1. Receiving \/ Writing
    BY <1>1, OnTheWay
  <2> QED BY <1>1, <2>1 DEF Receiving, Resting
<1>3. /\ phase = "header" /\ call.op = "write" /\ wr.remaining \in 1 .. Len(call.data)
      /\ wr.base = call.addr + (Len(call.data) - wr.remaining)
      /\ down = SubSeq(call.data, Len(call.data) - wr.remaining + 1, Len(call.data))
  BY <1>2 DEF Writing, Fresh
<1>4. /\ call \in Calls /\ call.data \in Seq(Symbols) /\ Len(call.data) \in Nat
      /\ call.addr \in Nat
  BY StateFacts, CallFacts
<1>5. PICK n \in 0 .. Len(call.data) : n = Len(call.data) - wr.remaining /\ n < Len(call.data)
  <2>1. /\ Len(call.data) - wr.remaining \in 0 .. Len(call.data)
        /\ Len(call.data) - wr.remaining < Len(call.data)
    BY <1>3, <1>4
  <2> QED BY <2>1
<1>6. Head(down) = call.data[n + 1]
  <2>1. down = SubSeq(call.data, n + 1, Len(call.data))
    BY <1>3, <1>5
  <2> QED BY <1>4, <1>5, <2>1, RestOfSeq
<1>7. PICK i \in 1 .. Len(call.data) : i = n + 1
  BY <1>4, <1>5
<1>8. wr.base = call.addr + i - 1
  BY <1>3, <1>4, <1>5, <1>7
<1>9. mem' = [mem EXCEPT ![Cell(call.addr + i - 1)] = call.data[i]]
  BY <1>1, <1>6, <1>7, <1>8
<1>10. UNCHANGED <<call, phase, waited, answer, verdict, ran>>
  BY HostKept
<1> QED BY <1>3, <1>9, <1>10, StoreSeen

LEMMA EngineSeen ==
  ASSUME TypeOK, EngineTimed, Exchange, EngineStep
  PROVE  Remotely
<1>1. /\ engine.busy /\ engine.age <= EngineTicks
      /\ mem' = [mem EXCEPT ![Cell(engine.out)] = (mem[Cell(engine.in)] + 1) % NValues]
      /\ ran' = TRUE /\ UNCHANGED <<call, phase, answer, verdict>>
  BY DEF EngineStep, EngineDone
<1>2. state = "wait_nmc"
  BY <1>1 DEF EngineTimed
<1>3. Working
  BY <1>2 DEF Exchange, Closed, Open, Receiving, Resting, Writing, GaveUp, Acking, Responding
<1>4. /\ phase = "header" /\ ~ran /\ call.op = "nmc"
      /\ engine.in = call.addr /\ engine.out = call.out
  BY <1>1, <1>3 DEF Working, Fresh
<1> QED BY <1>1, <1>4, RunSeen

LEMMA HeaderSeen ==
  ASSUME TypeOK, Exchange, Transmitter, RecvHeader
  PROVE  Remotely
<1>1. phase = "header"
  BY DEF RecvHeader, HeaderArrived
<1>2. call' = call /\ ran' = ran /\ mem' = mem
  BY HeaderReceived
<1>3. CASE phase' = "payload" /\ UNCHANGED <<answer, verdict>>
  BY <1>1, <1>2, <1>3, NothingSeen
<1>4. CASE /\ phase' = "closed" /\ verdict' = "ok" /\ answer' = <<>>
           /\ call.op # "read" => Acking
           /\ call.op = "read" => call.len = 0
  <2>1. CASE call.op = "read"
    <3>1. Contents = <<>>
      BY <1>4, <2>1, ContentsTyped, EmptySeq
    <3> QED BY <1>1, <1>2, <1>4, <2>1, <3>1, SuccessSeen
  <2>2. CASE call.op # "read"
    <3>1. /\ call.op = "write" => StoredTo(Len(call.data))
          /\ call.op = "nmc" => ran
      BY <1>4, <2>2 DEF Acking
    <3> QED BY <1>1, <1>2, <1>4, <2>2, <3>1, SuccessSeen
  <2> QED BY <2>1, <2>2
<1> QED BY <1>3, <1>4, HeaderReceived

LEMMA StepsRemotely ==
  ASSUME TypeOK, Undisturbed, IInv, XInv, [Next]_vars
  PROVE  Remotely
<1>1. Exchange /\ Transmitter /\ EngineTimed
  BY DEF XInv, IInv
<1>2. CASE ControllerStep
  <2>1. ControllerNext /\ HostUntouched
    BY <1>2 DEF ControllerStep
  <2>2. CASE DmaWriteByte
    BY <1>1, <2>1, <2>2, DmaWriteSeen
  <2>3. CASE ~DmaWriteByte
    BY <2>1, <2>3, MemoryKept, HostKept, NothingSeen
  <2> QED BY <2>2, <2>3
<1>3. CASE TransmitterStep
  BY <1>3, HostKept, NothingSeen DEF TransmitterStep, UartDone, board
<1>4. CASE EngineStep
  BY <1>1, <1>4, EngineSeen
<1>5. CASE RecvHeader
  BY <1>1, <1>5, HeaderSeen
<1>6. CASE RecvPayload
  <2>1. phase = "payload"
    BY <1>6 DEF RecvPayload, PayloadArrived
  <2>2. /\ call' = call /\ ran' = ran /\ mem' = mem /\ call.op = "read"
        /\ phase' = "closed" /\ verdict' = "ok" /\ answer' = Contents
    BY <1>1, <1>6, PayloadReceived
  <2> QED BY <2>1, <2>2, SuccessSeen
<1>7. CASE Timeout
  <2>1. /\ call' = call /\ ran' = ran /\ mem' = mem
        /\ phase = "header" /\ phase' = "closed" /\ verdict' = "failed" /\ answer' = <<>>
    BY <1>1, <1>7, GivenUp
  <2> QED BY <2>1, FailureSeen
<1>8. CASE Tick
  BY <1>8, NothingSeen DEF Tick, BoardTick
<1>9. CASE Restart \/ Opened \/ Stray
  BY <1>1, <1>9, OpenedNever DEF Restart, Stray, Fault, Undisturbed
<1>10. ASSUME NEW c \in Calls, Send(c) PROVE Remotely
  BY <1>10, BeginSeen DEF Send, board
<1>11. CASE UNCHANGED vars
  BY <1>11, NothingSeen DEF vars, controller_vars, board, host
<1> QED
  BY <1>2, <1>3, <1>4, <1>5, <1>6, <1>7, <1>8, <1>9, <1>10, <1>11 DEF Next, HostReceive

LEMMA StartsRemotely == Init => Remote!RInit
  BY DEF Init, ControllerInit, Remote!RInit

\* On an undisturbed link the two ends and the line between them implement the
\* remote memory.
THEOREM RemoteTheorem ==
  ASSUME Undisturbed
  PROVE  Spec => ImplementsRemote
<1>1. TypeOK /\ IInv /\ XInv /\ [Next]_vars => [Remote!RNext]_(Remote!rvars)
  BY StepsRemotely DEF Remotely
<1> QED
  BY <1>1, StartsRemotely, XInvInvariant, PTL DEF Spec, ImplementsRemote, Remote!RSpec
=============================================================================
