-------------------------- MODULE Ddr2ArbiterProofs --------------------------
(***************************************************************************)
(* Theorems about Ddr2Arbiter, for any words, lanes, values and idle       *)
(* limit: at most one read is under way, and the engines' two-entry        *)
(* queues, which have no ready, never overflow.                            *)
(***************************************************************************)
EXTENDS Ddr2Arbiter, TLAPS

(***************************************************************************)
(* What the static priority means for one port.                            *)
(***************************************************************************)
LEMMA PriorityNames ==
  /\ DOMAIN Priority = 1..6
  /\ Priority[1] = "nmc_wr" /\ Priority[2] = "nmc_rd" /\ Priority[3] = "mac_wr"
  /\ Priority[4] = "mac_rd" /\ Priority[5] = "flush"  /\ Priority[6] = "dma_rd"
  BY DEF Priority

\* What is issued was wanted, and at most one thing is issued in a clock.
LEMMA IssuedOnce ==
  ASSUME NEW k, Issues(k)
  PROVE  /\ ~mig.issuing /\ Wants[k]
         /\ \A m : Issues(m) => m = k
<1>1. PICK i \in 1..6 : /\ k = Priority[i] /\ Wants[k]
                        /\ \A j \in 1 .. i - 1 : ~Wants[Priority[j]]
  BY PriorityNames DEF Issues
<1>2. ASSUME NEW m, Issues(m) PROVE m = k
  <2>1. PICK h \in 1..6 : /\ m = Priority[h] /\ Wants[m]
                          /\ \A j \in 1 .. h - 1 : ~Wants[Priority[j]]
    BY <1>2, PriorityNames DEF Issues
  <2>2. ~(i \in 1 .. h - 1) /\ ~(h \in 1 .. i - 1)
    BY <1>1, <2>1
  <2>3. i = h
    BY <2>2
  <2> QED BY <1>1, <2>1, <2>3
<1> QED BY <1>1, <1>2 DEF Issues

\* A write is issued only from a queue that holds one.
LEMMA WriteIsQueued ==
  ASSUME NEW p \in Ports, Issues(WriteOf(p)) PROVE wq[p] # <<>>
<1>1. Wants[WriteOf(p)]
  BY IssuedOnce
<1> QED BY <1>1 DEF Ports, WriteOf, Wants

\* A port's read is issued only behind all its writes, and alone.
LEMMA ReadIsLast ==
  ASSUME NEW p \in Ports, Issues(ReadOf(p))
  PROVE  rd_req[p] # <<>> /\ ~rd_busy /\ wq[p] = <<>>
<1>1. Wants[ReadOf(p)]
  BY IssuedOnce
<1>2. CASE p = "nmc"
  <2>1. ~Wants["nmc_wr"]
    <3>1. PICK i \in 1..6 : /\ "nmc_rd" = Priority[i]
                            /\ \A j \in 1 .. i - 1 : ~Wants[Priority[j]]
      BY <1>2, PriorityNames DEF Issues, ReadOf
    <3>2. i = 2
      BY <3>1, PriorityNames
    <3> QED BY <3>1, <3>2, PriorityNames
  <2> QED BY <1>1, <1>2, <2>1 DEF Wants, ReadOf
<1>3. CASE p = "mac"
  <2>1. ~Wants["mac_wr"]
    <3>1. PICK i \in 1..6 : /\ "mac_rd" = Priority[i]
                            /\ \A j \in 1 .. i - 1 : ~Wants[Priority[j]]
      BY <1>3, PriorityNames DEF Issues, ReadOf
    <3>2. i = 4
      BY <3>1, PriorityNames
    <3>3. 3 \in 1 .. i - 1
      BY <3>2
    <3> QED BY <3>1, <3>3, PriorityNames
  <2> QED BY <1>1, <1>3, <2>1 DEF Wants, ReadOf
<1> QED BY <1>2, <1>3 DEF Ports

\* A read is issued only when none is under way.
LEMMA ReadWhenFree == IssuesRead => ~rd_busy /\ ~mig.issuing /\ ~IssuesWrite
<1>1. ASSUME NEW k \in {"nmc_rd", "mac_rd", "dma_rd"}, Issues(k)
      PROVE  ~rd_busy /\ ~mig.issuing /\ ~IssuesWrite
  <2>1. Wants[k] /\ ~mig.issuing /\ \A m : Issues(m) => m = k
    BY <1>1, IssuedOnce
  <2>2. ~rd_busy
    <3>1. CASE k = "nmc_rd"
      BY <2>1, <3>1 DEF Wants
    <3>2. CASE k = "mac_rd"
      BY <2>1, <3>2 DEF Wants
    <3>3. CASE k = "dma_rd"
      BY <2>1, <3>3 DEF Wants
    <3> QED BY <3>1, <3>2, <3>3
  <2>3. ~IssuesWrite
    BY <2>1 DEF IssuesWrite
  <2> QED BY <2>1, <2>2, <2>3
<1> QED BY <1>1 DEF IssuesRead

(***************************************************************************)
(* One read.  OneRead is not inductive: a second command could be taken    *)
(* while the memory works on the first.                                    *)
(***************************************************************************)
ReadCommand == mig.issuing /\ ~mig.write

MigOK ==
  /\ mig.issuing \in BOOLEAN
  /\ mig.issuing => /\ mig.write \in BOOLEAN
                    /\ mig = [issuing |-> TRUE, en |-> mig.en, wren |-> mig.wren,
                              write |-> mig.write, entry |-> mig.entry]

RInv ==
  /\ MigOK
  /\ rd_busy \in BOOLEAN
  /\ ret.at \in {"none", "queued", "valid"}
  /\ ret = NoReturn \/ ret = [at |-> ret.at, data |-> ret.data]
  /\ OneRead
  /\ ~(ReadCommand /\ ret.at # "none")

LEMMA ReadStarts == Init => RInv
<1> SUFFICES ASSUME Init PROVE RInv
  OBVIOUS
<1>1. mig.issuing = FALSE /\ ret.at = "none" /\ rd_busy = FALSE /\ ret = NoReturn
  BY DEF Init, NoCommand, NoReturn
<1> QED BY <1>1 DEF RInv, MigOK, OneRead, ReadCommand

\* The answer of the memory, once the command's fate is known.
LEMMA ReturnSteps ==
  ASSUME RInv, MigReturn
  PROVE  /\ ret'.at \in {"none", "queued", "valid"}
         /\ ret' = NoReturn \/ ret' = [at |-> ret'.at, data |-> ret'.data]
         /\ ret.at = "none" =>
              (ret'.at # "none" <=> mig.issuing /\ ~mig.write /\ ~mig'.issuing)
         /\ ret.at = "queued" => ret'.at # "none"
         /\ ret.at = "valid" => ret'.at = "none"
<1>1. CASE ret.at = "none"
  BY <1>1 DEF MigReturn, NoReturn, RInv
<1>2. CASE ret.at = "queued"
  <2>1. ret = [at |-> ret.at, data |-> ret.data]
    BY <1>2 DEF RInv, NoReturn
  <2> QED BY <1>2, <2>1 DEF MigReturn
<1>3. CASE ret.at = "valid"
  BY <1>3 DEF MigReturn, NoReturn
<1> QED BY <1>1, <1>2, <1>3 DEF RInv

LEMMA ClockKeepsRInv ==
  ASSUME RInv, Mig, ReadTag PROVE RInv'
<1> USE DEF RInv, MigOK, OneRead, ReadCommand
<1>0. MigReturn
  BY DEF Mig
<1>1. CASE MigIdle
  <2>1. mig' = mig /\ ~mig.issuing /\ ~IssuesRead
    BY <1>1 DEF MigIdle
  <2>2. rd_busy' = (rd_busy /\ ret.at # "valid")
    BY <2>1 DEF ReadTag
  <2> QED BY <1>0, <2>1, <2>2, ReturnSteps
<1>2. CASE MigIssue
  <2>1. mig'.issuing = TRUE /\ mig'.write \in BOOLEAN /\ MigOK'
    <3>1. PICK e : Present(TRUE, e) \/ Present(FALSE, e)
      BY <1>2 DEF MigIssue
    <3>2. CASE Present(TRUE, e)
      BY <3>2 DEF Present
    <3>3. CASE Present(FALSE, e)
      BY <3>3 DEF Present
    <3> QED BY <3>1, <3>2, <3>3
  <2>2. ~mig.issuing
    BY <1>2, IssuedOnce DEF MigIssue
  <2>3. mig'.write = ~IssuesRead
    <3>1. CASE mig'.write = TRUE
      <4>1. IssuesWrite
        BY <1>2, <3>1 DEF MigIssue, Present, IssuesWrite, Ports, WriteOf
      <4> QED BY <3>1, <4>1, ReadWhenFree
    <3>2. CASE mig'.write = FALSE
      <4>1. IssuesRead
        BY <1>2, <3>2 DEF MigIssue, Present, IssuesRead, Ports, ReadOf
      <4> QED BY <3>2, <4>1
    <3> QED BY <2>1, <3>1, <3>2
  <2>4. CASE IssuesRead
    <3>1. ~rd_busy
      BY <2>4, ReadWhenFree
    <3>2. rd_busy' = TRUE
      BY <2>4 DEF ReadTag
    <3> QED BY <1>0, <2>1, <2>2, <2>3, <2>4, <3>1, <3>2, ReturnSteps
  <2>5. CASE ~IssuesRead
    <3>1. rd_busy' = (rd_busy /\ ret.at # "valid")
      BY <2>5 DEF ReadTag
    <3> QED BY <1>0, <2>1, <2>2, <2>3, <2>5, <3>1, ReturnSteps
  <2> QED BY <2>4, <2>5
<1>3. CASE MigHandshake
  <2>1. mig.issuing /\ ~IssuesRead
    BY <1>3, ReadWhenFree DEF MigHandshake
  <2>2. rd_busy' = (rd_busy /\ ret.at # "valid")
    BY <2>1 DEF ReadTag
  <2>3. CASE mig' = NoCommand
    <3>1. ~mig'.issuing /\ mig'.issuing \in BOOLEAN
      BY <2>3 DEF NoCommand
    <3> QED BY <1>0, <2>1, <2>2, <3>1, ReturnSteps
  <2>4. CASE \E en, wren \in BOOLEAN : mig' = [mig EXCEPT !.en = en, !.wren = wren]
    <3>1. mig'.issuing = TRUE /\ mig'.write = mig.write /\ MigOK'
      BY <2>1, <2>4
    <3> QED BY <1>0, <2>1, <2>2, <3>1, ReturnSteps
  <2>5. PICK rdy, wdf_rdy \in BOOLEAN :
          \/ mig' = [mig EXCEPT !.en = mig.en /\ ~rdy, !.wren = mig.wren /\ ~wdf_rdy]
          \/ mig' = NoCommand
    BY <1>3 DEF MigHandshake
  <2> QED BY <2>3, <2>4, <2>5
<1> QED BY <1>1, <1>2, <1>3 DEF Mig

\* Every step but stuttering is a clock.
LEMMA StepIsClock ==
  ASSUME Next PROVE \E rd, wr : Clock(rd, wr)
<1>1. CASE Quietly
  BY <1>1 DEF Quietly
<1> QED BY <1>1 DEF Next, DmaPresent, DmaWriting, DmaReading, EngineStart, EngineRead,
                    EngineWrite, EngineWait, Compute

\* Whatever the clients ask for and however long the memory takes, the tag of
\* a read is never changed under a word that is still to come.
THEOREM OneReadTheorem == Spec => []OneRead
<1>1. RInv /\ [Next]_vars => RInv'
  <2>1. ASSUME RInv, Next PROVE RInv'
    BY <2>1, StepIsClock, ClockKeepsRInv DEF Clock
  <2>2. ASSUME RInv, UNCHANGED vars PROVE RInv'
    BY <2>2 DEF vars, arbiter, RInv, MigOK, OneRead, ReadCommand
  <2> QED BY <2>1, <2>2
<1>2. RInv => OneRead
  BY DEF RInv
<1> QED BY <1>1, <1>2, ReadStarts, PTL DEF Spec


(***************************************************************************)
(* The queues.  An engine that may write has been answered since it last   *)
(* did, and a read is issued behind the writes of its port.                *)
(***************************************************************************)
Engine  == client.at \in {"run", "wait", "second"}
Active(p) == Engine /\ client.port = p

ClientOK ==
  /\ client.at \in {"off", "wr", "rd", "rdwait", "run", "wait", "second"}
  /\ Engine => client.port \in Ports
  /\ client.at = "run" => client.wrote \in BOOLEAN
  /\ client.at = "second" => client.port = "mac"

\* Only the engine that runs has anything in the arbiter.
OthersRest ==
  \A p \in Ports : ~Active(p) => wq[p] = <<>> /\ rd_req[p] = <<>>

\* An engine's read is pending, under way, or neither.
ReadAlone(p) ==
  /\ client.at \in {"run", "second"} => rd_req[p] = <<>>
  /\ client.at \in {"run", "second"} \/ rd_req[p] # <<>> => ~(rd_busy /\ rd_owner = p)

\* How many writes it can have queued.
RoomLeft(p) ==
  /\ Len(wq[p]) <= 2
  /\ client.at = "second" => Len(wq[p]) <= 1
  /\ client.at = "run" /\ ~client.wrote => wq[p] = <<>>
  /\ client.at = "wait" /\ rd_req[p] = <<>> => wq[p] = <<>>

QInv ==
  /\ ClientOK
  /\ \A p \in Ports : wq[p] \in Seq(Entries)
  /\ OthersRest
  /\ \A p \in Ports : Active(p) => ReadAlone(p) /\ RoomLeft(p)

LEMMA EmptyQueue == <<>> \in Seq(Entries) /\ Len(<<>>) = 0
  OBVIOUS

LEMMA QueuesStart == Init => QInv
<1> SUFFICES ASSUME Init PROVE QInv
  OBVIOUS
<1>1. client.at = "off" /\ \A p \in Ports : wq[p] = <<>> /\ rd_req[p] = <<>>
  BY DEF Init, Off
<1> QED BY <1>1, EmptyQueue DEF QInv, ClientOK, OthersRest, Active, Engine

\* What a clock does to one port that is given the pulses rd and wr.
LEMMA PortStep ==
  ASSUME NEW p \in Ports, NEW rd, NEW wr, Clock(rd, wr), wq[p] \in Seq(Entries),
         wr[p] = <<>> \/ (\E e \in Entries : wr[p] = <<e>>)
  PROVE  /\ wq'[p] \in Seq(Entries)
         /\ Len(wq'[p]) <= Len(wq[p]) + 1
         /\ wr[p] = <<>> => Len(wq'[p]) <= Len(wq[p]) /\ (wq[p] = <<>> => wq'[p] = <<>>)
         /\ rd[p] # <<>> => rd_req'[p] = rd[p]
         /\ rd[p] = <<>> => \/ rd_req'[p] = <<>> /\ (rd_req[p] # <<>> => wq[p] = <<>>)
                            \/ rd_req'[p] = rd_req[p] /\ ~Issues(ReadOf(p))
         /\ rd_busy' /\ rd_owner' = p =>
              \/ Issues(ReadOf(p)) /\ rd_req[p] # <<>>
              \/ rd_busy /\ rd_owner = p /\ ret.at # "valid"
<1>1. wq'[p] = (IF Issues(WriteOf(p)) THEN Tail(wq[p]) ELSE wq[p]) \o wr[p]
  BY DEF Clock, Queues
<1>2. Issues(WriteOf(p)) => wq[p] # <<>>
  BY WriteIsQueued
<1>3. Issues(ReadOf(p)) => rd_req[p] # <<>> /\ wq[p] = <<>>
  BY ReadIsLast
<1>4. /\ wq'[p] \in Seq(Entries)
      /\ Len(wq'[p]) <= Len(wq[p]) + 1
      /\ wr[p] = <<>> => Len(wq'[p]) <= Len(wq[p]) /\ (wq[p] = <<>> => wq'[p] = <<>>)
  <2> DEFINE left == IF Issues(WriteOf(p)) THEN Tail(wq[p]) ELSE wq[p]
  <2>1. left \in Seq(Entries) /\ Len(left) <= Len(wq[p]) /\ (wq[p] = <<>> => left = <<>>)
    BY <1>2
  <2> HIDE DEF left
  <2>2. wq'[p] = left \o wr[p]
    BY <1>1 DEF left
  <2>3. CASE wr[p] = <<>>
    <3>1. wq'[p] = left
      BY <2>1, <2>2, <2>3
    <3> QED BY <2>1, <3>1
  <2>4. ASSUME NEW e \in Entries, wr[p] = <<e>>
        PROVE  wq'[p] \in Seq(Entries) /\ Len(wq'[p]) <= Len(wq[p]) + 1 /\ wr[p] # <<>>
    <3>1. wq'[p] \in Seq(Entries) /\ Len(wq'[p]) = Len(left) + 1
      BY <2>1, <2>2, <2>4
    <3> QED BY <2>1, <2>4, <3>1
  <2> QED BY <2>3, <2>4
<1>5. rd_req'[p] = IF rd[p] # <<>> THEN rd[p] ELSE IF Issues(ReadOf(p)) THEN <<>> ELSE rd_req[p]
  BY DEF Clock, ReadRequests
<1>6. ASSUME rd_busy', rd_owner' = p
      PROVE  Issues(ReadOf(p)) \/ (rd_busy /\ rd_owner = p /\ ret.at # "valid")
  <2>1. ReadTag
    BY DEF Clock
  <2>2. CASE Issues("nmc_rd")
    <3>1. rd_owner' = "nmc"
      BY <2>1, <2>2, IssuedOnce DEF ReadTag
    <3> QED BY <1>6, <2>2, <3>1 DEF ReadOf
  <2>3. CASE Issues("mac_rd")
    <3>1. rd_owner' = "mac"
      BY <2>1, <2>3, IssuedOnce DEF ReadTag
    <3> QED BY <1>6, <2>3, <3>1 DEF ReadOf
  <2>4. CASE Issues("dma_rd")
    <3>1. rd_owner' = "dma"
      BY <2>1, <2>4, IssuedOnce DEF ReadTag
    <3> QED BY <1>6, <3>1 DEF Ports
  <2>5. CASE ~IssuesRead
    BY <1>6, <2>1, <2>5 DEF ReadTag, IssuesRead
  <2> QED BY <2>2, <2>3, <2>4, <2>5 DEF IssuesRead
<1> QED BY <1>3, <1>4, <1>5, <1>6

\* A clock in which no port is given a pulse.
Calm(p) ==
  /\ wq'[p] \in Seq(Entries) /\ Len(wq'[p]) <= Len(wq[p])
  /\ wq[p] = <<>> => wq'[p] = <<>>
  /\ \/ rd_req'[p] = <<>> /\ (rd_req[p] # <<>> => wq[p] = <<>>)
     \/ rd_req'[p] = rd_req[p] /\ ~Issues(ReadOf(p))
  /\ rd_busy' /\ rd_owner' = p =>
       \/ Issues(ReadOf(p)) /\ rd_req[p] # <<>>
       \/ rd_busy /\ rd_owner = p /\ ret.at # "valid"

LEMMA CalmClock ==
  ASSUME QInv, NEW rd, NEW wr, Clock(rd, wr), NEW p \in Ports, rd[p] = <<>>, wr[p] = <<>>
  PROVE  Calm(p)
<1>1. wq[p] \in Seq(Entries)
  BY DEF QInv
<1> QED BY <1>1, PortStep DEF Calm

LEMMA QuietIsCalm ==
  ASSUME QInv, Clock(NoPulse, NoPulse) PROVE \A p \in Ports : Calm(p)
  BY CalmClock DEF NoPulse

\* A port at rest stays at rest, and so does the rest of what QInv says of a
\* port whose engine goes on as it was.
LEMMA CalmKeeps ==
  ASSUME QInv, NEW p \in Ports, Calm(p)
  PROVE  /\ wq[p] = <<>> /\ rd_req[p] = <<>> => wq'[p] = <<>> /\ rd_req'[p] = <<>>
         /\ client' = client /\ Active(p) => ReadAlone(p)' /\ RoomLeft(p)'
<1>1. wq[p] \in Seq(Entries)
  BY DEF QInv
<1>2. ASSUME client' = client, Active(p) PROVE ReadAlone(p)' /\ RoomLeft(p)'
  <2>1. ReadAlone(p) /\ RoomLeft(p)
    BY <1>2 DEF QInv
  <2>2. ReadAlone(p)'
    BY <1>2, <2>1 DEF Calm, ReadAlone
  <2>3. RoomLeft(p)'
    BY <1>1, <1>2, <2>1 DEF Calm, RoomLeft
  <2> QED BY <2>2, <2>3
<1> QED BY <1>2 DEF Calm

LEMMA DmaKeepsQInv ==
  ASSUME QInv, Clock(NoPulse, NoPulse), ~Engine, ~Engine', ClientOK' PROVE QInv'
<1>1. \A p \in Ports : Calm(p) /\ wq[p] = <<>> /\ rd_req[p] = <<>>
  BY QuietIsCalm DEF QInv, OthersRest, Active
<1>2. \A p \in Ports : wq'[p] = <<>> /\ rd_req'[p] = <<>>
  BY <1>1, CalmKeeps
<1> QED BY <1>2, EmptyQueue DEF QInv, OthersRest, Active

LEMMA SameKeepsQInv ==
  ASSUME QInv, Clock(NoPulse, NoPulse), client' = client PROVE QInv'
<1>1. \A p \in Ports : Calm(p)
  BY QuietIsCalm
<1>2. ClientOK'
  BY DEF QInv, ClientOK, Engine
<1>3. OthersRest'
  BY <1>1, CalmKeeps DEF QInv, OthersRest, Active, Engine
<1>4. \A p \in Ports : Active(p)' => ReadAlone(p)' /\ RoomLeft(p)'
  BY <1>1, CalmKeeps DEF Active, Engine
<1>5. \A p \in Ports : wq'[p] \in Seq(Entries)
  BY <1>1 DEF Calm
<1> QED BY <1>2, <1>3, <1>4, <1>5 DEF QInv

LEMMA StartKeepsQInv ==
  ASSUME QInv, NEW q \in Ports, EngineStart(q) PROVE QInv'
<1>1. \A p \in Ports : Calm(p) /\ wq[p] = <<>> /\ rd_req[p] = <<>>
  BY QuietIsCalm DEF QInv, OthersRest, Active, Engine, EngineStart, Quietly, Off
<1>2. \A p \in Ports : wq'[p] = <<>> /\ rd_req'[p] = <<>>
  BY <1>1, CalmKeeps
<1>3. ~rd_busy
  BY DEF EngineStart, AtRest
<1>4. \A p \in Ports : ~(rd_busy' /\ rd_owner' = p)
  BY <1>1, <1>3 DEF Calm
<1>5. client'.at = "run" /\ client'.port = q /\ client'.wrote = TRUE
  BY DEF EngineStart
<1>6. ClientOK' /\ Active(q)'
  BY <1>5 DEF ClientOK, Engine, Active
<1>7. ReadAlone(q)' /\ RoomLeft(q)'
  BY <1>2, <1>4, <1>5, EmptyQueue DEF ReadAlone, RoomLeft
<1> QED BY <1>2, <1>5, <1>6, <1>7, EmptyQueue DEF QInv, OthersRest, Active

LEMMA ReadKeepsQInv ==
  ASSUME QInv, NEW w \in Words, EngineRead(w) PROVE QInv'
<1>0. PICK q \in Ports : client.port = q
  BY DEF EngineRead, QInv, ClientOK, Engine
<1>1. /\ Active(q) /\ client.at = "run"
      /\ client'.at = "wait" /\ client'.port = q
      /\ Clock(Pulse(q, w), NoPulse)
  BY <1>0 DEF EngineRead, Engine, Active
<1>2. Pulse(q, w)[q] = <<w>> /\ \A p \in Ports : NoPulse[p] = <<>>
  BY <1>1 DEF Pulse, NoPulse
<1>3. \A p \in Ports \ {q} : Pulse(q, w)[p] = <<>>
  BY <1>1 DEF Pulse, NoPulse
<1>4. \A p \in Ports \ {q} : wq'[p] = <<>> /\ rd_req'[p] = <<>>
  <2> SUFFICES ASSUME NEW p \in Ports \ {q} PROVE wq'[p] = <<>> /\ rd_req'[p] = <<>>
    OBVIOUS
  <2>1. Calm(p)
    BY <1>1, <1>2, <1>3, CalmClock
  <2>2. wq[p] = <<>> /\ rd_req[p] = <<>>
    BY <1>0 DEF QInv, OthersRest, Active
  <2> QED BY <2>1, <2>2, CalmKeeps
<1>5. wq[q] \in Seq(Entries) /\ Len(wq[q]) <= 2 /\ rd_req[q] = <<>>
      /\ ~(rd_busy /\ rd_owner = q)
  BY <1>1 DEF QInv, RoomLeft, ReadAlone
<1>6. /\ wq'[q] \in Seq(Entries) /\ Len(wq'[q]) <= Len(wq[q])
      /\ rd_req'[q] = <<w>>
      /\ ~(rd_busy' /\ rd_owner' = q)
  BY <1>1, <1>2, <1>5, PortStep
<1>7. Len(wq'[q]) <= 2 /\ rd_req'[q] # <<>>
  BY <1>5, <1>6
<1>8. \A p \in Ports : wq'[p] \in Seq(Entries)
  BY <1>4, <1>6, EmptyQueue
<1>9. ClientOK' /\ Active(q)'
  BY <1>1 DEF ClientOK, Engine, Active
<1>10. OthersRest'
  BY <1>1, <1>4, <1>9 DEF OthersRest, Active
<1>11. ReadAlone(q)' /\ RoomLeft(q)'
  BY <1>1, <1>6, <1>7 DEF ReadAlone, RoomLeft
<1> QED BY <1>1, <1>8, <1>9, <1>10, <1>11 DEF QInv, Active

LEMMA WaitKeepsQInv ==
  ASSUME QInv, EngineWait PROVE QInv'
<1>0. PICK q \in Ports : client.port = q
  BY DEF EngineWait, QInv, ClientOK, Engine
<1>1. Active(q) /\ client.at = "wait" /\ Clock(NoPulse, NoPulse)
  BY <1>0 DEF EngineWait, Quietly, Engine, Active
<1>2. CASE ~Returned(q)
  BY <1>0, <1>1, <1>2, SameKeepsQInv DEF EngineWait
<1>3. CASE Returned(q)
  <2>1. client'.at = "run" /\ client'.port = q /\ client'.wrote = FALSE
    BY <1>0, <1>3 DEF EngineWait
  <2>2. rd_req[q] = <<>> /\ wq[q] = <<>> /\ ret.at = "valid"
    BY <1>1, <1>3 DEF Returned, QInv, ReadAlone, RoomLeft
  <2>3. \A p \in Ports : Calm(p) /\ wq[p] = <<>> /\ rd_req[p] = <<>>
    BY <1>0, <1>1, <2>2, QuietIsCalm DEF QInv, OthersRest, Active
  <2>4. \A p \in Ports : wq'[p] = <<>> /\ rd_req'[p] = <<>>
    BY <2>3, CalmKeeps
  <2>5. ~(rd_busy' /\ rd_owner' = q)
    BY <1>1, <2>2, <2>3 DEF Calm
  <2>6. ClientOK' /\ Active(q)'
    BY <2>1 DEF ClientOK, Engine, Active
  <2>7. ReadAlone(q)' /\ RoomLeft(q)'
    BY <2>1, <2>4, <2>5, EmptyQueue DEF ReadAlone, RoomLeft
  <2> QED BY <2>1, <2>4, <2>6, <2>7, EmptyQueue DEF QInv, OthersRest, Active
<1> QED BY <1>2, <1>3

LEMMA WriteKeepsQInv ==
  ASSUME QInv, NEW w \in Words, NEW d \in WordsFor(w), EngineWrite(w, d) PROVE QInv'
<1> DEFINE e == [word |-> w, lanes |-> Lanes, data |-> d]
<1>0. PICK q \in Ports : client.port = q
  BY DEF EngineWrite, QInv, ClientOK, Engine
<1>1. /\ Active(q) /\ Clock(NoPulse, Pulse(q, e))
      /\ (client.at = "run" /\ ~client.wrote) \/ client.at = "second"
      /\ client.at = "second" => q = "mac"
  BY <1>0 DEF EngineWrite, QInv, ClientOK, Engine, Active
<1>2. /\ client'.port = q
      /\ \/ client.at = "run" /\ q = "mac" /\ client'.at = "second"
         \/ client'.at = "run" /\ client'.wrote = TRUE
  BY <1>0, <1>1 DEF EngineWrite
<1>3. e \in Entries
  BY DEF Entries, WordsFor
<1> HIDE DEF e
<1>4. Pulse(q, e)[q] = <<e>> /\ \A p \in Ports : NoPulse[p] = <<>>
  BY <1>1 DEF Pulse, NoPulse
<1>5. \A p \in Ports \ {q} : Pulse(q, e)[p] = <<>>
  BY <1>1 DEF Pulse, NoPulse
<1>6. \A p \in Ports \ {q} : wq'[p] = <<>> /\ rd_req'[p] = <<>>
  <2> SUFFICES ASSUME NEW p \in Ports \ {q} PROVE wq'[p] = <<>> /\ rd_req'[p] = <<>>
    OBVIOUS
  <2>1. Calm(p)
    BY <1>1, <1>4, <1>5, CalmClock
  <2>2. wq[p] = <<>> /\ rd_req[p] = <<>>
    BY <1>0 DEF QInv, OthersRest, Active
  <2> QED BY <2>1, <2>2, CalmKeeps
<1>7. /\ wq[q] \in Seq(Entries) /\ Len(wq[q]) <= 1
      /\ client.at = "run" => Len(wq[q]) = 0
      /\ rd_req[q] = <<>> /\ ~(rd_busy /\ rd_owner = q)
  BY <1>1 DEF QInv, RoomLeft, ReadAlone
<1>8. /\ wq'[q] \in Seq(Entries) /\ Len(wq'[q]) <= Len(wq[q]) + 1
      /\ rd_req'[q] = <<>>
      /\ ~(rd_busy' /\ rd_owner' = q)
  BY <1>1, <1>3, <1>4, <1>7, PortStep
<1>9. Len(wq'[q]) <= 2 /\ (client.at = "run" => Len(wq'[q]) <= 1)
  BY <1>7, <1>8
<1>10. \A p \in Ports : wq'[p] \in Seq(Entries)
  BY <1>6, <1>8, EmptyQueue
<1>11. ClientOK' /\ Active(q)'
  BY <1>1, <1>2 DEF ClientOK, Engine, Active
<1>12. OthersRest'
  BY <1>2, <1>6, <1>11 DEF OthersRest, Active
<1>13. ReadAlone(q)' /\ RoomLeft(q)'
  BY <1>1, <1>2, <1>8, <1>9 DEF ReadAlone, RoomLeft
<1> QED BY <1>2, <1>10, <1>11, <1>12, <1>13 DEF QInv, Active

LEMMA ComputeKeepsQInv ==
  ASSUME QInv, Compute PROVE QInv'
<1>1. Clock(NoPulse, NoPulse)
  BY DEF Compute, Quietly
<1>2. CASE client' = client
  BY <1>1, <1>2, SameKeepsQInv
<1>3. CASE AtRest /\ client' = Off
  <2>1. \A p \in Ports : Calm(p) /\ wq[p] = <<>> /\ rd_req[p] = <<>>
    BY <1>1, <1>3, QuietIsCalm DEF AtRest
  <2>2. \A p \in Ports : wq'[p] = <<>> /\ rd_req'[p] = <<>>
    BY <2>1, CalmKeeps
  <2>3. client'.at = "off"
    BY <1>3 DEF Off
  <2> QED BY <2>2, <2>3, EmptyQueue DEF QInv, ClientOK, Engine, OthersRest, Active
<1> QED BY <1>2, <1>3 DEF Compute

LEMMA NextKeepsQInv ==
  ASSUME QInv, Next PROVE QInv'
<1>1. CASE DmaPresent
  <2>1. ClientOK' /\ ~Engine /\ ~Engine'
    BY <1>1 DEF DmaPresent, ClientOK, Engine, Off, DmaWrites, DmaReads
  <2> QED BY <1>1, <2>1, DmaKeepsQInv DEF DmaPresent, Quietly
<1>2. CASE DmaWriting
  <2>1. ClientOK' /\ ~Engine /\ ~Engine'
    BY <1>2 DEF DmaWriting, ClientOK, Engine, Off, DmaWrites, QInv
  <2> QED BY <1>2, <2>1, DmaKeepsQInv DEF DmaWriting
<1>3. CASE DmaReading
  <2>1. ClientOK' /\ ~Engine /\ ~Engine'
    BY <1>3 DEF DmaReading, ClientOK, Engine, Off, QInv
  <2> QED BY <1>3, <2>1, DmaKeepsQInv DEF DmaReading, Quietly
<1>4. ASSUME NEW q \in Ports, EngineStart(q) PROVE QInv'
  BY <1>4, StartKeepsQInv
<1>5. ASSUME NEW w \in Words, EngineRead(w) PROVE QInv'
  BY <1>5, ReadKeepsQInv
<1>6. ASSUME NEW w \in Words, NEW d \in WordsFor(w), EngineWrite(w, d) PROVE QInv'
  BY <1>6, WriteKeepsQInv
<1>7. CASE EngineWait
  BY <1>7, WaitKeepsQInv
<1>8. CASE Compute
  BY <1>8, ComputeKeepsQInv
<1> QED BY <1>1, <1>2, <1>3, <1>4, <1>5, <1>6, <1>7, <1>8 DEF Next

\* Whatever the engines read and write, and however long the memory makes them
\* wait, no write pulse finds its two-entry queue full.
THEOREM QueuesFitTheorem == Spec => []QueuesFit
<1>1. QInv /\ [Next]_vars => QInv'
  <2>1. ASSUME QInv, UNCHANGED vars PROVE QInv'
    BY <2>1 DEF vars, arbiter, QInv, ClientOK, Engine, OthersRest, Active, ReadAlone, RoomLeft
  <2> QED BY <2>1, NextKeepsQInv
<1>2. QInv => QueuesFit
  <2> SUFFICES ASSUME QInv, NEW p \in Ports PROVE Len(wq[p]) <= 2
    BY DEF QueuesFit
  <2>1. CASE Active(p)
    BY <2>1 DEF QInv, RoomLeft
  <2>2. CASE ~Active(p)
    BY <2>2 DEF QInv, OthersRest
  <2> QED BY <2>1, <2>2
<1> QED BY <1>1, <1>2, QueuesStart, PTL DEF Spec

(***************************************************************************)
(* Types.  A register that is not valid is left out of its record, so that *)
(* its users must be shown to read it only when it is there: the word of a *)
(* read miss as long as the word read for it is to come.                   *)
(***************************************************************************)
WriteCommands == [issuing : {TRUE}, en : BOOLEAN, wren : BOOLEAN, write : {TRUE}, entry : Entries]
ReadCommands  == [issuing : {TRUE}, en : BOOLEAN, wren : BOOLEAN, write : {FALSE},
                  entry : [word : Words]]
Staged == [valid : {TRUE}, word : Words, idle : 0 .. WA_IDLE_LIMIT, flush : BOOLEAN,
           data : Data, lanes : SUBSET Lanes]
Lines  == [valid : {TRUE}, word : Words, data : Data]
Misses == [busy : {TRUE}, req : BOOLEAN, word : Words, lane : Lanes]

MemoryTyped ==
  /\ ddr \in [Words -> Data]
  /\ mig = NoCommand \/ mig \in WriteCommands \/ mig \in ReadCommands
  /\ ret = NoReturn \/ ret \in [at : {"queued", "valid"}, data : Data]

PortsTyped ==
  /\ rd_busy \in BOOLEAN /\ rd_owner \in Ports \cup {"dma"}
  /\ \A p \in Ports : wq[p] \in Seq(Entries)
  /\ \A p \in Ports : rd_req[p] \in {<<>>} \cup {<<w>> : w \in Words}

StreamTyped ==
  /\ wa = [valid |-> FALSE, flush |-> FALSE] \/ wa \in Staged
  /\ rc = [valid |-> FALSE] \/ rc \in Lines
  /\ dr = [busy |-> FALSE, req |-> FALSE] \/ dr \in Misses
  /\ rd_busy /\ rd_owner = "dma" => dr.busy
  /\ out = <<>> \/ \E l \in Lanes : out[1] \in [{l} -> Values]

ClientTyped ==
  /\ client.at = "wr" => client \in DmaWrites
  /\ client.at = "rd" => client \in DmaReads
  /\ client.at \in {"run", "wait", "second"} => client.port \in Ports

TInv == MemoryTyped /\ PortsTyped /\ StreamTyped /\ ClientTyped

LEMMA TypesStart == Init => TInv
<1> SUFFICES ASSUME Init PROVE TInv
  OBVIOUS
<1>1. Zeroes \in Data
  BY ArbiterAssumption DEF Zeroes, Data
<1>2. MemoryTyped
  BY <1>1 DEF Init, MemoryTyped
<1>3. PortsTyped
  BY EmptyQueue DEF Init, PortsTyped, Ports
<1>4. StreamTyped
  BY DEF Init, StreamTyped
<1>5. ClientTyped
  BY DEF Init, ClientTyped, Off
<1> QED BY <1>2, <1>3, <1>4, <1>5 DEF TInv

\* What is presented to the memory is a store of a word or a read of one.
LEMMA PresentedTyped ==
  ASSUME TInv, MigIssue PROVE mig' \in WriteCommands \/ mig' \in ReadCommands
<1>1. ASSUME NEW p \in Ports, Issues(WriteOf(p)), Present(TRUE, Head(wq[p]))
      PROVE  mig' \in WriteCommands
  <2>1. wq[p] \in Seq(Entries) /\ wq[p] # <<>>
    BY <1>1, WriteIsQueued DEF TInv, PortsTyped
  <2>2. Head(wq[p]) \in Entries
    BY <2>1
  <2> QED BY <1>1, <2>2 DEF Present, WriteCommands
<1>2. ASSUME NEW p \in Ports, Issues(ReadOf(p)), Present(FALSE, ReadEntry(rd_req[p][1]))
      PROVE  mig' \in ReadCommands
  <2>1. rd_req[p] # <<>>
    BY <1>2, ReadIsLast
  <2>2. rd_req[p][1] \in Words
    BY <2>1 DEF TInv, PortsTyped
  <2> QED BY <1>2, <2>2 DEF Present, ReadEntry, ReadCommands
<1>3. ASSUME Issues("flush"),
             Present(TRUE, [word |-> wa.word, lanes |-> wa.lanes, data |-> wa.data])
      PROVE  mig' \in WriteCommands
  <2>1. Wants["flush"]
    BY <1>3, IssuedOnce
  <2>2. wa.flush
    BY <2>1 DEF Wants
  <2>3. wa \in Staged
    BY <2>2 DEF TInv, StreamTyped
  <2> QED BY <1>3, <2>3 DEF Present, WriteCommands, Entries, Staged
<1>4. ASSUME Issues("dma_rd"), Present(FALSE, ReadEntry(dr.word))
      PROVE  mig' \in ReadCommands
  <2>1. Wants["dma_rd"]
    BY <1>4, IssuedOnce
  <2>2. dr.req
    BY <2>1 DEF Wants
  <2>3. dr \in Misses
    BY <2>2 DEF TInv, StreamTyped
  <2> QED BY <1>4, <2>3 DEF Present, ReadEntry, ReadCommands, Misses
<1> QED BY <1>1, <1>2, <1>3, <1>4 DEF MigIssue

LEMMA OverlayTyped ==
  ASSUME NEW m \in [Words -> Data], NEW e \in Entries PROVE Overlay(m, e) \in [Words -> Data]
<1>1. [l \in Lanes |-> IF l \in e.lanes THEN e.data[l] ELSE m[e.word][l]] \in Data
  BY DEF Entries, Data
<1> QED BY <1>1 DEF Overlay, Entries

LEMMA MemoryKeepsType ==
  ASSUME TInv, Mig PROVE MemoryTyped'
<1>1. ddr' \in [Words -> Data] /\ (mig' = NoCommand \/ mig' \in WriteCommands \/ mig' \in ReadCommands)
  <2>1. CASE MigIdle
    BY <2>1 DEF MigIdle, TInv, MemoryTyped
  <2>2. CASE MigIssue
    BY <2>2, PresentedTyped DEF MigIssue, TInv, MemoryTyped
  <2>3. CASE MigHandshake
    <3>1. mig \in WriteCommands \/ mig \in ReadCommands
      BY <2>3 DEF MigHandshake, TInv, MemoryTyped, NoCommand
    <3>2. PICK rdy, wdf_rdy \in BOOLEAN :
            \/ /\ mig' = [mig EXCEPT !.en = mig.en /\ ~rdy, !.wren = mig.wren /\ ~wdf_rdy]
               /\ ddr' = ddr
            \/ mig' = NoCommand /\ ddr' = IF mig.write THEN Overlay(ddr, mig.entry) ELSE ddr
      BY <2>3 DEF MigHandshake
    <3>3. ddr' \in [Words -> Data]
      <4>1. CASE mig.write
        <5>1. mig.entry \in Entries
          BY <3>1, <4>1 DEF WriteCommands, ReadCommands
        <5> QED BY <3>2, <4>1, <5>1, OverlayTyped DEF TInv, MemoryTyped
      <4>2. CASE ~mig.write
        BY <3>2, <4>2 DEF TInv, MemoryTyped
      <4> QED BY <4>1, <4>2
    <3> QED BY <3>1, <3>2, <3>3 DEF WriteCommands, ReadCommands
  <2> QED BY <2>1, <2>2, <2>3 DEF Mig
<1>2. ret' = NoReturn \/ ret' \in [at : {"queued", "valid"}, data : Data]
  <2>1. MigReturn
    BY DEF Mig
  <2>2. CASE ret.at = "none"
    <3>1. ASSUME mig.issuing, ~mig.write PROVE ddr[mig.entry.word] \in Data
      <4>1. mig \in ReadCommands
        <5>1. mig # NoCommand
          BY <3>1 DEF NoCommand
        <5>2. mig \notin WriteCommands
          BY <3>1 DEF WriteCommands
        <5> QED BY <5>1, <5>2 DEF TInv, MemoryTyped
      <4>2. mig.entry.word \in Words
        BY <4>1 DEF ReadCommands
      <4> QED BY <4>2 DEF TInv, MemoryTyped
    <3> QED BY <2>1, <2>2, <3>1 DEF MigReturn
  <2>3. CASE ret.at = "queued"
    BY <2>1, <2>3 DEF MigReturn, TInv, MemoryTyped, NoReturn
  <2>4. CASE ret.at = "valid"
    BY <2>1, <2>4 DEF MigReturn
  <2> QED BY <2>2, <2>3, <2>4 DEF TInv, MemoryTyped, NoReturn
<1> QED BY <1>1, <1>2 DEF MemoryTyped

PulsesTyped(rd, wr) ==
  \A p \in Ports : /\ rd[p] \in {<<>>} \cup {<<w>> : w \in Words}
                   /\ wr[p] = <<>> \/ (\E e \in Entries : wr[p] = <<e>>)

LEMMA PortsKeepType ==
  ASSUME TInv, NEW rd, NEW wr, Clock(rd, wr), PulsesTyped(rd, wr) PROVE PortsTyped'
<1>1. rd_busy' \in BOOLEAN /\ rd_owner' \in Ports \cup {"dma"}
  BY IssuedOnce DEF Clock, ReadTag, TInv, PortsTyped, Ports
<1>2. \A p \in Ports : wq'[p] \in Seq(Entries)
  BY PortStep DEF TInv, PortsTyped, PulsesTyped
<1>3. \A p \in Ports : rd_req'[p] \in {<<>>} \cup {<<w>> : w \in Words}
  BY DEF Clock, ReadRequests, TInv, PortsTyped, PulsesTyped
<1> QED BY <1>1, <1>2, <1>3 DEF PortsTyped

LEMMA StagedKeepsType ==
  ASSUME TInv, Assembler PROVE wa' = [valid |-> FALSE, flush |-> FALSE] \/ wa' \in Staged
<1>0. wa = [valid |-> FALSE, flush |-> FALSE] \/ wa \in Staged
  BY DEF TInv, StreamTyped
<1>1. CASE wa_accept
  <2>1. wa' = Merge
    BY <1>1 DEF Assembler
  <2>2. client.word \in Words /\ client.lane \in Lanes /\ client.byte \in Values
    BY <1>1, ArbiterAssumption DEF wa_accept, dma_wr_en, TInv, ClientTyped, DmaWrites
  <2> DEFINE old == IF wa.valid THEN wa.data ELSE Zeroes
             held == IF wa.valid THEN wa.lanes ELSE {}
  <2>3. old \in Data /\ held \in SUBSET Lanes
    <3>1. CASE wa.valid
      <4>1. wa \in Staged
        BY <1>0, <3>1
      <4> QED BY <3>1, <4>1 DEF Staged
    <3>2. CASE ~wa.valid
      <4>1. Zeroes \in Data
        BY ArbiterAssumption DEF Zeroes, Data
      <4> QED BY <3>2, <4>1
    <3> QED BY <3>1, <3>2
  <2>4. [old EXCEPT ![client.lane] = client.byte] \in Data
    BY <2>2, <2>3 DEF Data
  <2>5. FlushTrigger \in BOOLEAN /\ 0 \in 0 .. WA_IDLE_LIMIT
    BY ArbiterAssumption DEF FlushTrigger
  <2>6. held \cup {client.lane} \in SUBSET Lanes
    BY <2>2, <2>3
  <2> HIDE DEF held
  <2>7. Merge = [valid |-> TRUE, word |-> client.word, idle |-> 0, flush |-> FlushTrigger,
                 data |-> [old EXCEPT ![client.lane] = client.byte],
                 lanes |-> held \cup {client.lane}]
    BY DEF Merge, held
  <2> HIDE DEF old
  <2> QED BY <2>1, <2>2, <2>4, <2>5, <2>6, <2>7 DEF Staged
<1>2. CASE ~wa_accept /\ Issues("flush")
  BY <1>2 DEF Assembler
<1>3. CASE ~wa_accept /\ ~Issues("flush") /\ ~wa.valid
  BY <1>0, <1>3 DEF Assembler
<1>4. CASE ~wa_accept /\ ~Issues("flush") /\ wa.valid
  <2>1. wa \in Staged
    BY <1>0, <1>4
  <2>2. (wa.flush \/ FlushTrigger) \in BOOLEAN
    OBVIOUS
  <2>3. (IF wa.idle # WA_IDLE_LIMIT THEN wa.idle + 1 ELSE wa.idle) \in 0 .. WA_IDLE_LIMIT
    BY <2>1, ArbiterAssumption DEF Staged
  <2>4. wa' = [wa EXCEPT !.flush = wa.flush \/ FlushTrigger,
                         !.idle = IF wa.idle # WA_IDLE_LIMIT THEN wa.idle + 1 ELSE wa.idle]
    BY <1>4 DEF Assembler
  <2> QED BY <2>1, <2>2, <2>3, <2>4 DEF Staged
<1> QED BY <1>1, <1>2, <1>3, <1>4

\* A word that comes back for the byte stream finds its miss waiting.
LEMMA MissIsThere ==
  ASSUME TInv, Returned("dma") PROVE dr \in Misses /\ ret.data \in Data
<1>1. dr \in Misses
  BY DEF Returned, TInv, StreamTyped
<1>2. ret.data \in Data
  BY DEF Returned, TInv, MemoryTyped, NoReturn
<1> QED BY <1>1, <1>2

LEMMA StreamKeepsType ==
  ASSUME TInv, NEW rd, NEW wr, Clock(rd, wr) PROVE StreamTyped'
<1>0. dr = [busy |-> FALSE, req |-> FALSE] \/ dr \in Misses
  BY DEF TInv, StreamTyped
<1>1. wa' = [valid |-> FALSE, flush |-> FALSE] \/ wa' \in Staged
  BY StagedKeepsType DEF Clock
<1>2. rc' = [valid |-> FALSE] \/ rc' \in Lines
  <2>1. Returned("dma") => [valid |-> TRUE, word |-> dr.word, data |-> ret.data] \in Lines
    BY MissIsThere DEF Misses, Lines
  <2> QED BY <2>1 DEF Clock, Cache, TInv, StreamTyped
<1>3. dr_accept => client.word \in Words /\ client.lane \in Lanes /\ ~dr.busy
  BY DEF dr_accept, dma_rd_en, dma_rd_ready, TInv, ClientTyped, DmaReads
<1>4. DmaRead
  BY DEF Clock
<1>5. dr' = [busy |-> FALSE, req |-> FALSE] \/ dr' \in Misses
  <2>1. CASE dr_accept /\ ~rc_hit
    BY <1>3, <1>4, <2>1 DEF DmaRead, Misses
  <2>2. CASE ~(dr_accept /\ ~rc_hit) /\ Returned("dma")
    BY <1>4, <2>2 DEF DmaRead
  <2>3. CASE ~(dr_accept /\ ~rc_hit) /\ ~Returned("dma")
    <3>1. dr' = [dr EXCEPT !.req = dr.req /\ ~Issues("dma_rd")]
      BY <1>4, <2>3 DEF DmaRead
    <3>2. CASE dr = [busy |-> FALSE, req |-> FALSE]
      BY <3>1, <3>2
    <3>3. CASE dr \in Misses
      <4>1. (dr.req /\ ~Issues("dma_rd")) \in BOOLEAN
        OBVIOUS
      <4> QED BY <3>1, <3>3, <4>1 DEF Misses
    <3> QED BY <1>0, <3>2, <3>3
  <2> QED BY <2>1, <2>2, <2>3
<1>6. rd_busy' /\ rd_owner' = "dma" => dr'.busy
  <2> SUFFICES ASSUME rd_busy', rd_owner' = "dma" PROVE dr'.busy
    OBVIOUS
  <2>1. dr.busy /\ (dr_accept => FALSE) /\ ~Returned("dma")
    <3>1. CASE IssuesRead
      <4>1. Issues("dma_rd")
        BY <3>1, IssuedOnce DEF Clock, ReadTag, IssuesRead
      <4>2. Wants["dma_rd"]
        BY <4>1, IssuedOnce
      <4>3. dr.req /\ ~rd_busy
        BY <4>2 DEF Wants
      <4>4. dr.req => dr.busy
        <5>1. dr = [busy |-> FALSE, req |-> FALSE] => ~dr.req
          OBVIOUS
        <5>2. dr \in Misses => dr.busy
          BY DEF Misses
        <5> QED BY <1>0, <5>1, <5>2
      <4> QED BY <1>3, <4>3, <4>4 DEF Returned
    <3>2. CASE ~IssuesRead
      <4>1. rd_busy /\ ret.at # "valid" /\ rd_owner = "dma"
        BY <3>2 DEF Clock, ReadTag, IssuesRead
      <4> QED BY <1>3, <4>1 DEF Returned, TInv, StreamTyped
    <3> QED BY <3>1, <3>2
  <2>2. dr' = [dr EXCEPT !.req = dr.req /\ ~Issues("dma_rd")]
    BY <1>4, <2>1 DEF DmaRead
  <2> QED BY <2>1, <2>2 DEF TInv, StreamTyped, Misses
<1>7. out' = <<>> \/ \E l \in Lanes : out'[1] \in [{l} -> Values]
  <2>1. CASE dr_accept /\ rc_hit
    <3>1. rc \in Lines
      BY <2>1 DEF rc_hit, TInv, StreamTyped
    <3>2. [l \in {client.lane} |-> rc.data[l]] \in [{client.lane} -> Values]
      BY <1>3, <2>1, <3>1 DEF Lines, Data
    <3>3. out'[1] = [l \in {client.lane} |-> rc.data[l]]
      BY <1>4, <2>1 DEF DmaRead
    <3> QED BY <1>3, <2>1, <3>2, <3>3
  <2>2. CASE ~(dr_accept /\ rc_hit) /\ Returned("dma")
    <3>1. dr.lane \in Lanes /\ [l \in {dr.lane} |-> ret.data[l]] \in [{dr.lane} -> Values]
      BY <2>2, MissIsThere DEF Misses, Data
    <3>2. out'[1] = [l \in {dr.lane} |-> ret.data[l]]
      BY <1>4, <2>2 DEF DmaRead
    <3> QED BY <3>1, <3>2
  <2>3. CASE ~(dr_accept /\ rc_hit) /\ ~Returned("dma")
    BY <1>4, <2>3 DEF DmaRead
  <2> QED BY <2>1, <2>2, <2>3
<1> QED BY <1>1, <1>2, <1>5, <1>6, <1>7 DEF StreamTyped

LEMMA ClockKeepsType ==
  ASSUME TInv, NEW rd, NEW wr, Clock(rd, wr), PulsesTyped(rd, wr), ClientTyped' PROVE TInv'
  BY MemoryKeepsType, PortsKeepType, StreamKeepsType DEF Clock, TInv

LEMMA NoPulseTyped == PulsesTyped(NoPulse, NoPulse)
  BY DEF PulsesTyped, NoPulse

LEMMA NextKeepsType ==
  ASSUME TInv, Next PROVE TInv'
<1>0. ClientTyped
  BY DEF TInv
<1>1. CASE DmaPresent
  <2>1. ClientTyped'
    BY <1>1 DEF DmaPresent, ClientTyped, DmaWrites, DmaReads
  <2> QED BY <1>1, <2>1, ClockKeepsType, NoPulseTyped DEF DmaPresent, Quietly
<1>2. CASE DmaWriting
  <2>1. ClientTyped'
    BY <1>0, <1>2 DEF DmaWriting, ClientTyped, DmaWrites, Off
  <2> QED BY <1>2, <2>1, ClockKeepsType, NoPulseTyped DEF DmaWriting
<1>3. CASE DmaReading
  <2>1. ClientTyped'
    BY <1>0, <1>3 DEF DmaReading, ClientTyped, Off
  <2> QED BY <1>3, <2>1, ClockKeepsType, NoPulseTyped DEF DmaReading, Quietly
<1>4. ASSUME NEW p \in Ports, EngineStart(p) PROVE TInv'
  <2>1. ClientTyped'
    BY <1>4 DEF EngineStart, ClientTyped
  <2> QED BY <1>4, <2>1, ClockKeepsType, NoPulseTyped DEF EngineStart, Quietly
<1>5. ASSUME NEW w \in Words, EngineRead(w) PROVE TInv'
  <2>1. ClientTyped' /\ client.port \in Ports
    BY <1>0, <1>5 DEF EngineRead, ClientTyped
  <2>2. PulsesTyped(Pulse(client.port, w), NoPulse)
    BY <2>1 DEF PulsesTyped, Pulse, NoPulse
  <2> QED BY <1>5, <2>1, <2>2, ClockKeepsType DEF EngineRead
<1>6. ASSUME NEW w \in Words, NEW d \in WordsFor(w), EngineWrite(w, d) PROVE TInv'
  <2> DEFINE e == [word |-> w, lanes |-> Lanes, data |-> d]
  <2>1. ClientTyped' /\ client.port \in Ports
    BY <1>0, <1>6 DEF EngineWrite, ClientTyped, Ports
  <2>2. e \in Entries
    BY DEF Entries, WordsFor
  <2> HIDE DEF e
  <2>3. PulsesTyped(NoPulse, Pulse(client.port, e))
    BY <2>1, <2>2 DEF PulsesTyped, Pulse, NoPulse
  <2>4. Clock(NoPulse, Pulse(client.port, e))
    BY <1>6 DEF EngineWrite, e
  <2> QED BY <2>1, <2>3, <2>4, ClockKeepsType
<1>7. CASE EngineWait
  <2>1. ClientTyped'
    BY <1>0, <1>7 DEF EngineWait, ClientTyped
  <2> QED BY <1>7, <2>1, ClockKeepsType, NoPulseTyped DEF EngineWait, Quietly
<1>8. CASE Compute
  <2>1. ClientTyped'
    BY <1>0, <1>8 DEF Compute, ClientTyped, Off
  <2> QED BY <1>8, <2>1, ClockKeepsType, NoPulseTyped DEF Compute, Quietly
<1> QED BY <1>1, <1>2, <1>3, <1>4, <1>5, <1>6, <1>7, <1>8 DEF Next

\* The arbiter, the memory and the queues keep their types, and no register is
\* read that the code has not set.
THEOREM TypeCorrect == Spec => []TypeOK
<1>1. TInv /\ [Next]_vars => TInv'
  <2>1. ASSUME TInv, UNCHANGED vars PROVE TInv'
    <3>1. MemoryTyped'
      BY <2>1 DEF vars, arbiter, TInv, MemoryTyped
    <3>2. PortsTyped'
      BY <2>1 DEF vars, arbiter, TInv, PortsTyped
    <3>3. StreamTyped'
      BY <2>1 DEF vars, arbiter, TInv, StreamTyped
    <3>4. ClientTyped'
      BY <2>1 DEF vars, arbiter, TInv, ClientTyped
    <3> QED BY <3>1, <3>2, <3>3, <3>4 DEF TInv
  <2> QED BY <2>1, NextKeepsType
<1>2. TInv => TypeOK
  <2> SUFFICES ASSUME TInv PROVE TypeOK
    OBVIOUS
  <2>1. \A p \in Ports : \A i \in DOMAIN wq[p] : wq[p][i] \in Entries
    BY DEF TInv, PortsTyped
  <2>2. wa.valid => wa.idle \in 0 .. WA_IDLE_LIMIT /\ wa.lanes \in SUBSET Lanes
    <3>1. wa = [valid |-> FALSE, flush |-> FALSE] => ~wa.valid
      OBVIOUS
    <3>2. wa \in Staged => wa.idle \in 0 .. WA_IDLE_LIMIT /\ wa.lanes \in SUBSET Lanes
      BY DEF Staged
    <3> QED BY <3>1, <3>2 DEF TInv, StreamTyped
  <2> QED BY <2>1, <2>2 DEF TypeOK, TInv, MemoryTyped, PortsTyped, StreamTyped,
                            WriteCommands, ReadCommands
<1> QED BY <1>1, <1>2, TypesStart, PTL DEF Spec

-----------------------------------------------------------------------------
(***************************************************************************)
(* For any words, lanes, values, stores and idle limit: nothing a client   *)
(* stored is lost or reordered on its way to the memory, and reads return  *)
(* what was stored last.  With Ddr2ArbiterProofs, whose invariants it      *)
(* builds on, this is the whole of SerialMemory.                           *)
(***************************************************************************)

(***************************************************************************)
(* The memory as it will be: with the command under way taken, with the    *)
(* queues behind it drained, with the staged word flushed.                 *)
(***************************************************************************)
Issued == IF mig.issuing /\ mig.write THEN Overlay(ddr, mig.entry) ELSE ddr

Under(m, q) ==
  IF q = <<>> THEN m
  ELSE IF Len(q) = 1 THEN Overlay(m, q[1]) ELSE Overlay(Overlay(m, q[1]), q[2])

Queued == Under(Under(Issued, wq["nmc"]), wq["mac"])

Staging == [word |-> wa.word, lanes |-> wa.lanes, data |-> wa.data]

View == IF wa.valid THEN Overlay(Queued, Staging) ELSE Queued

LEMMA EmptyLen ==
  ASSUME NEW S, NEW q \in Seq(S) PROVE q = <<>> <=> Len(q) = 0
  OBVIOUS

LEMMA OneOrTwo ==
  ASSUME NEW S, NEW q \in Seq(S), q # <<>>, Len(q) <= 2 PROVE Len(q) = 1 \/ Len(q) = 2
<1>1. ASSUME NEW n \in Nat, n # 0, n <= 2 PROVE n = 1 \/ n = 2
  BY <1>1
<1>2. Len(q) \in Nat /\ Len(q) # 0
  OBVIOUS
<1> QED BY <1>1, <1>2

LEMMA TailElements ==
  ASSUME NEW S, NEW q \in Seq(S), q # <<>>
  PROVE  \E t \in Seq(S) : /\ t = Tail(q) /\ Len(t) = Len(q) - 1
                           /\ \A i \in 1 .. Len(t) : t[i] = q[i + 1]
<1> DEFINE t == Tail(q)
<1>1. t \in Seq(S) /\ Len(t) = Len(q) - 1
  OBVIOUS
<1>2. \A i \in 1 .. Len(q) - 1 : t[i] = q[i + 1]
  OBVIOUS
<1>3. t = Tail(q)
  OBVIOUS
<1> HIDE DEF t
<1> QED BY <1>1, <1>2, <1>3

LEMMA PushedElements ==
  ASSUME NEW S, NEW q \in Seq(S), NEW e \in S
  PROVE  \E t \in Seq(S) : /\ t = q \o <<e>> /\ Len(t) = Len(q) + 1
                           /\ \A i \in 1 .. Len(q) : t[i] = q[i]
                           /\ t[Len(q) + 1] = e
<1> DEFINE t == q \o <<e>>
<1>1. t \in Seq(S) /\ Len(t) = Len(q) + 1
  OBVIOUS
<1>2. \A i \in 1 .. Len(q) : t[i] = q[i]
  OBVIOUS
<1>3. t[Len(q) + 1] = e
  OBVIOUS
<1>4. t = q \o <<e>>
  OBVIOUS
<1> HIDE DEF t
<1> QED BY <1>1, <1>2, <1>3, <1>4

LEMMA PopFirst ==
  ASSUME NEW m, NEW q \in Seq(Entries), q # <<>>, Len(q) <= 2
  PROVE  Under(Overlay(m, Head(q)), Tail(q)) = Under(m, q)
<1>1. PICK t \in Seq(Entries) : /\ t = Tail(q) /\ Len(t) = Len(q) - 1
                                /\ \A i \in 1 .. Len(t) : t[i] = q[i + 1]
  BY TailElements
<1>2. Head(q) = q[1]
  OBVIOUS
<1>3. CASE Len(q) = 1
  <2>1. t = <<>>
    BY <1>1, <1>3, EmptyLen
  <2> QED BY <1>1, <1>2, <1>3, <2>1 DEF Under
<1>4. CASE Len(q) = 2
  <2>1. Len(t) = 1
    BY <1>1, <1>4
  <2>2. t # <<>>
    <3>1. Len(t) # 0
      BY <2>1
    <3> QED BY <3>1, EmptyLen
  <2>3. 1 \in 1 .. Len(t) /\ 1 + 1 = 2
    BY <2>1
  <2>4. t[1] = q[1 + 1]
    BY <1>1, <2>3
  <2> QED BY <1>1, <1>2, <1>4, <2>1, <2>2, <2>3, <2>4 DEF Under
<1> QED BY <1>3, <1>4, OneOrTwo

LEMMA PushLast ==
  ASSUME NEW m, NEW q \in Seq(Entries), Len(q) <= 1, NEW e \in Entries
  PROVE  Under(m, q \o <<e>>) = Overlay(Under(m, q), e)
<1>1. PICK t \in Seq(Entries) : /\ t = q \o <<e>> /\ Len(t) = Len(q) + 1
                                /\ \A i \in 1 .. Len(q) : t[i] = q[i]
                                /\ t[Len(q) + 1] = e
  BY PushedElements, ZenonT(40)
<1>2. Len(q) \in Nat /\ 0 + 1 = 1 /\ 1 + 1 = 2
  OBVIOUS
<1>3. Len(q) = 0 \/ Len(q) = 1
  BY <1>2, SMTT(20)
<1>4. CASE Len(q) = 0
  <2>1. q = <<>> /\ t # <<>> /\ Len(t) = 1
    BY <1>1, <1>2, <1>4, EmptyLen
  <2>2. t[1] = e
    BY <1>1, <1>2, <1>4
  <2> QED BY <1>1, <2>1, <2>2 DEF Under
<1>5. CASE Len(q) = 1
  <2>1. q # <<>> /\ Len(t) = 2
    BY <1>1, <1>2, <1>5, EmptyLen
  <2>2. t # <<>>
    BY <2>1, EmptyLen
  <2>3. 1 \in 1 .. Len(q)
    BY <1>5
  <2>4. t[1] = q[1]
    BY <1>1, <2>3
  <2>5. t[2] = e
    BY <1>1, <1>2, <1>5
  <2> QED BY <1>1, <1>5, <2>1, <2>2, <2>4, <2>5 DEF Under
<1> QED BY <1>3, <1>4, <1>5

LEMMA UnderTyped ==
  ASSUME NEW m \in [Words -> Data], NEW q \in Seq(Entries), Len(q) <= 2
  PROVE  Under(m, q) \in [Words -> Data]
<1>1. CASE q = <<>>
  BY <1>1 DEF Under
<1>2. CASE q # <<>> /\ Len(q) = 1
  <2>1. q[1] \in Entries
    BY <1>2
  <2> QED BY <1>2, <2>1, OverlayTyped DEF Under
<1>3. CASE q # <<>> /\ Len(q) = 2
  <2>1. q[1] \in Entries /\ q[2] \in Entries
    BY <1>3
  <2>2. Overlay(m, q[1]) \in [Words -> Data]
    BY <2>1, OverlayTyped
  <2> QED BY <1>3, <2>1, <2>2, OverlayTyped DEF Under
<1> QED BY <1>1, <1>2, <1>3, OneOrTwo

(***************************************************************************)
(* What a clock does to it.  Only one client is active, so that at most    *)
(* one queue holds anything, and the assembler nothing if one does; what   *)
(* is issued is then the next store in order.                              *)
(***************************************************************************)
Left(p) == IF Issues(WriteOf(p)) THEN Tail(wq[p]) ELSE wq[p]

Flushed == Issues("flush")

\* An engine runs only after the byte stream's last word is in the memory.
StreamRests == Engine => ~wa.valid

LEMMA OneQueue ==
  ASSUME QInv, StreamRests, NEW p \in Ports, wq[p] # <<>>
  PROVE  /\ Active(p) /\ ~wa.valid
         /\ \A r \in Ports \ {p} : wq[r] = <<>>
<1>1. Active(p)
  BY DEF QInv, OthersRest
<1>2. \A r \in Ports \ {p} : ~Active(r)
  BY <1>1 DEF Active
<1> QED BY <1>1, <1>2 DEF QInv, OthersRest, StreamRests, Active

LEMMA ShortQueues ==
  ASSUME QInv, NEW p \in Ports PROVE wq[p] \in Seq(Entries) /\ Len(wq[p]) <= 2
<1>1. CASE Active(p)
  BY <1>1 DEF QInv, RoomLeft
<1>2. CASE ~Active(p)
  BY <1>2, EmptyQueue DEF QInv, OthersRest
<1> QED BY <1>1, <1>2

\* A clock that issues no store leaves the memory as it will be.
LEMMA NoStoreIssued ==
  ASSUME RInv, MigIdle \/ MigHandshake \/ (MigIssue /\ ~IssuesWrite)
  PROVE  Issued' = Issued
<1>1. CASE MigIdle
  BY <1>1 DEF MigIdle, Issued
<1>2. CASE MigHandshake
  <2>1. PICK rdy, wdf_rdy \in BOOLEAN :
          \/ /\ mig' = [mig EXCEPT !.en = mig.en /\ ~rdy, !.wren = mig.wren /\ ~wdf_rdy]
             /\ ddr' = ddr
          \/ mig' = NoCommand /\ ddr' = IF mig.write THEN Overlay(ddr, mig.entry) ELSE ddr
    BY <1>2 DEF MigHandshake
  <2>2. mig.issuing = TRUE
    BY <1>2 DEF MigHandshake, RInv, MigOK
  <2>3. CASE /\ mig' = [mig EXCEPT !.en = mig.en /\ ~rdy, !.wren = mig.wren /\ ~wdf_rdy]
             /\ ddr' = ddr
    <3>1. mig'.issuing = mig.issuing /\ mig'.write = mig.write /\ mig'.entry = mig.entry
      BY <2>2, <2>3 DEF RInv, MigOK
    <3> QED BY <2>3, <3>1 DEF Issued
  <2>4. CASE mig' = NoCommand /\ ddr' = IF mig.write THEN Overlay(ddr, mig.entry) ELSE ddr
    BY <2>2, <2>4 DEF Issued, NoCommand
  <2> QED BY <2>1, <2>3, <2>4
<1>3. CASE MigIssue /\ ~IssuesWrite
  <2>1. ~mig.issuing
    BY <1>3, IssuedOnce DEF MigIssue
  <2>2. PICK e : Present(FALSE, e)
    BY <1>3 DEF MigIssue, IssuesWrite, Ports, WriteOf
  <2>3. mig'.write = FALSE /\ ddr' = ddr
    BY <1>3, <2>2 DEF Present, MigIssue
  <2> QED BY <2>1, <2>3 DEF Issued
<1> QED BY <1>1, <1>2, <1>3

\* The store that is issued is on the memory's side of the view.
LEMMA StoreIssued ==
  ASSUME MigIssue, NEW e, Present(TRUE, e) PROVE Issued' = Overlay(Issued, e)
<1>1. ~mig.issuing /\ ddr' = ddr
  BY IssuedOnce DEF MigIssue
<1>2. mig'.issuing = TRUE /\ mig'.write = TRUE /\ mig'.entry = e
  BY DEF Present
<1> QED BY <1>1, <1>2 DEF Issued

\* The memory as it will be, counted from what is on the memory's side after
\* the clock, with what the clock left in the queues and the assembler.
Drained == Under(Under(Issued', Left("nmc")), Left("mac"))

LEMMA MemoryMoves ==
  ASSUME RInv, QInv, TInv, StreamRests, Mig
  PROVE  View = IF wa.valid /\ ~Flushed THEN Overlay(Drained, Staging) ELSE Drained
<1>1. CASE ~IssuesWrite
  <2>1. Issued' = Issued
    BY <1>1, NoStoreIssued DEF Mig
  <2>2. Left("nmc") = wq["nmc"] /\ Left("mac") = wq["mac"] /\ ~Flushed
    BY <1>1 DEF Left, IssuesWrite, WriteOf, Flushed
  <2>3. Drained = Queued
    BY <2>1, <2>2 DEF Drained, Queued
  <2> QED BY <2>2, <2>3 DEF View
<1>2. CASE IssuesWrite
  <2>1. PICK k \in {"nmc_wr", "mac_wr", "flush"} : Issues(k)
    BY <1>2 DEF IssuesWrite
  <2>2. ~mig.issuing /\ Wants[k] /\ \A x : Issues(x) => x = k
    BY <2>1, IssuedOnce
  <2>3. MigIssue
    BY <1>2, <2>2 DEF Mig, MigIdle, MigHandshake
  <2>4. ASSUME NEW p \in Ports, k = WriteOf(p)
        PROVE  /\ Left(p) = Tail(wq[p]) /\ wq[p] # <<>>
               /\ Issued' = Overlay(Issued, Head(wq[p]))
               /\ \A r \in Ports \ {p} : Left(r) = <<>> /\ wq[r] = <<>>
               /\ ~wa.valid
    <3>1. Issues(WriteOf(p)) /\ wq[p] # <<>>
      BY <2>1, <2>4, WriteIsQueued
    <3>2. ~wa.valid /\ \A r \in Ports \ {p} : wq[r] = <<>>
      BY <3>1, OneQueue
    <3>3. \A r \in Ports \ {p} : ~Issues(WriteOf(r))
      BY <3>2, WriteIsQueued
    <3>4. Present(TRUE, Head(wq[p]))
      <4>1. \A r \in Ports : ~Issues(ReadOf(r))
        BY <2>2 DEF ReadOf, Ports
      <4>2. ~Issues("flush") /\ ~Issues("dma_rd")
        BY <2>2, <2>4 DEF WriteOf, Ports
      <4> QED BY <2>3, <3>3, <4>1, <4>2 DEF MigIssue
    <3> QED BY <2>3, <3>1, <3>2, <3>3, <3>4, StoreIssued DEF Left
  <2>5. CASE k = "nmc_wr"
    <3>1. k = WriteOf("nmc") /\ "nmc" \in Ports /\ "mac" \in Ports \ {"nmc"}
      BY <2>5 DEF WriteOf, Ports
    <3>2. /\ Left("nmc") = Tail(wq["nmc"]) /\ wq["nmc"] # <<>>
          /\ Issued' = Overlay(Issued, Head(wq["nmc"]))
          /\ Left("mac") = <<>> /\ wq["mac"] = <<>> /\ ~wa.valid
      BY <2>4, <3>1
    <3>3. Drained = Under(Issued', Tail(wq["nmc"]))
      BY <3>2 DEF Drained, Under
    <3>4. Drained = Under(Issued, wq["nmc"])
      BY <3>1, <3>2, <3>3, PopFirst, ShortQueues
    <3>5. Queued = Under(Issued, wq["nmc"])
      BY <3>2 DEF Queued, Under
    <3> QED BY <3>2, <3>4, <3>5 DEF View
  <2>6. CASE k = "mac_wr"
    <3>1. k = WriteOf("mac") /\ "mac" \in Ports /\ "nmc" \in Ports \ {"mac"}
      BY <2>6 DEF WriteOf, Ports
    <3>2. /\ Left("mac") = Tail(wq["mac"]) /\ wq["mac"] # <<>>
          /\ Issued' = Overlay(Issued, Head(wq["mac"]))
          /\ Left("nmc") = <<>> /\ wq["nmc"] = <<>> /\ ~wa.valid
      BY <2>4, <3>1
    <3>3. Drained = Under(Issued', Left("mac")) /\ Queued = Under(Issued, wq["mac"])
      BY <3>2 DEF Drained, Under, Queued
    <3>4. Drained = Queued
      BY <3>1, <3>2, <3>3, PopFirst, ShortQueues
    <3> QED BY <3>2, <3>4 DEF View
  <2>7. CASE k = "flush"
    <3>1. wa.flush
      BY <2>2, <2>7 DEF Wants
    <3>2. wa.valid
      <4>1. wa = [valid |-> FALSE, flush |-> FALSE] => ~wa.flush
        OBVIOUS
      <4>2. wa \in Staged => wa.valid
        BY DEF Staged
      <4> QED BY <3>1, <4>1, <4>2 DEF TInv, StreamTyped
    <3>3. \A p \in Ports : wq[p] = <<>>
      BY <3>2, OneQueue
    <3>4. \A p \in Ports : ~Issues(WriteOf(p)) /\ ~Issues(ReadOf(p))
      BY <2>2, <2>7 DEF WriteOf, ReadOf, Ports
    <3>5. Present(TRUE, Staging) /\ Flushed
      BY <2>1, <2>2, <2>3, <2>7, <3>4 DEF MigIssue, Staging, Flushed
    <3>6. Issued' = Overlay(Issued, Staging)
      BY <2>3, <3>5, StoreIssued
    <3>7. Left("nmc") = <<>> /\ Left("mac") = <<>> /\ wq["nmc"] = <<>> /\ wq["mac"] = <<>>
      BY <3>3, <3>4 DEF Left, Ports
    <3>8. Drained = Issued' /\ Queued = Issued
      BY <3>7 DEF Drained, Under, Queued
    <3> QED BY <3>2, <3>5, <3>6, <3>8 DEF View
  <2> QED BY <2>1, <2>5, <2>6, <2>7
<1> QED BY <1>1, <1>2

LEMMA IssuedTyped == MemoryTyped => Issued \in [Words -> Data]
<1> SUFFICES ASSUME MemoryTyped PROVE Issued \in [Words -> Data]
  OBVIOUS
<1>1. CASE mig.issuing /\ mig.write
  <2>1. mig # NoCommand
    BY <1>1 DEF NoCommand
  <2>2. mig \notin ReadCommands
    BY <1>1 DEF ReadCommands
  <2>3. mig.entry \in Entries
    BY <2>1, <2>2 DEF MemoryTyped, WriteCommands
  <2> QED BY <1>1, <2>3, OverlayTyped DEF Issued, MemoryTyped
<1>2. CASE ~(mig.issuing /\ mig.write)
  BY <1>2 DEF Issued, MemoryTyped
<1> QED BY <1>1, <1>2

LEMMA LeftTyped ==
  ASSUME QInv, NEW p \in Ports
  PROVE  Left(p) \in Seq(Entries) /\ Len(Left(p)) <= Len(wq[p]) /\ (wq[p] = <<>> => Left(p) = <<>>)
<1>1. wq[p] \in Seq(Entries)
  BY ShortQueues
<1>2. CASE Issues(WriteOf(p))
  <2>1. wq[p] # <<>>
    BY <1>2, WriteIsQueued
  <2> QED BY <1>1, <1>2, <2>1 DEF Left
<1>3. CASE ~Issues(WriteOf(p))
  BY <1>1, <1>3 DEF Left
<1> QED BY <1>2, <1>3

LEMMA DrainedTyped ==
  ASSUME QInv, MemoryTyped' PROVE Drained \in [Words -> Data]
<1>1. Issued' \in [Words -> Data]
  <2>1. (MemoryTyped => Issued \in [Words -> Data])'
    BY IssuedTyped, PTL
  <2> QED BY <2>1
<1>2. \A p \in Ports : Left(p) \in Seq(Entries) /\ Len(Left(p)) <= 2
  <2> SUFFICES ASSUME NEW p \in Ports PROVE Left(p) \in Seq(Entries) /\ Len(Left(p)) <= 2
    OBVIOUS
  <2>1. Len(Left(p)) \in Nat /\ Len(wq[p]) \in Nat
    BY LeftTyped, ShortQueues
  <2> QED BY <2>1, LeftTyped, ShortQueues
<1>3. Under(Issued', Left("nmc")) \in [Words -> Data]
  BY <1>1, <1>2, UnderTyped DEF Ports
<1> QED BY <1>2, <1>3, UnderTyped DEF Ports, Drained

\* A clock in which no byte is taken keeps the staged word or issues it.
LEMMA NoByteTaken ==
  ASSUME TInv, Assembler, ~wa_accept
  PROVE  /\ wa'.valid <=> wa.valid /\ ~Flushed
         /\ wa.valid /\ ~Flushed => Staging' = Staging
<1>1. CASE Flushed
  BY <1>1 DEF Assembler, Flushed
<1>2. CASE ~Flushed /\ ~wa.valid
  BY <1>2 DEF Assembler, Flushed
<1>3. CASE ~Flushed /\ wa.valid
  <2>1. wa \in Staged
    BY <1>3 DEF TInv, StreamTyped
  <2>2. wa' = [wa EXCEPT !.flush = wa.flush \/ FlushTrigger,
                         !.idle = IF wa.idle # WA_IDLE_LIMIT THEN wa.idle + 1 ELSE wa.idle]
    BY <1>3 DEF Assembler, Flushed
  <2>3. wa'.valid = wa.valid /\ wa'.word = wa.word /\ wa'.lanes = wa.lanes /\ wa'.data = wa.data
    BY <2>1, <2>2 DEF Staged
  <2> QED BY <1>3, <2>3 DEF Staging
<1> QED BY <1>1, <1>2, <1>3

LEMMA QuietView ==
  ASSUME RInv, QInv, TInv, StreamRests, NEW rd, Clock(rd, NoPulse), ~wa_accept
  PROVE  View' = View
<1>1. \A p \in Ports : wq'[p] = Left(p)
  <2> SUFFICES ASSUME NEW p \in Ports PROVE wq'[p] = Left(p)
    OBVIOUS
  <2>1. wq'[p] = Left(p) \o <<>>
    BY DEF Clock, Queues, NoPulse, Left
  <2> QED BY <2>1, LeftTyped
<1>2. Queued' = Drained
  BY <1>1 DEF Ports, Queued, Drained
<1>3. Mig /\ Assembler
  BY DEF Clock
<1> QED BY <1>2, <1>3, NoByteTaken, MemoryMoves DEF View

\* An engine's store becomes the last one.
LEMMA PushView ==
  ASSUME RInv, QInv, TInv, StreamRests, NEW q \in Ports, Active(q), NEW e \in Entries,
         Clock(NoPulse, Pulse(q, e)), Len(wq[q]) <= 1
  PROVE  View' = Overlay(View, e)
<1>1. ~wa.valid /\ ~wa_accept /\ Mig /\ Assembler
  BY DEF Active, Engine, StreamRests, wa_accept, dma_wr_en, Clock
<1>2. ~wa'.valid /\ View = Drained
  BY <1>1, NoByteTaken, MemoryMoves
<1>3. \A p \in Ports \ {q} : wq'[p] = <<>> /\ Left(p) = <<>>
  <2> SUFFICES ASSUME NEW p \in Ports \ {q} PROVE wq'[p] = <<>> /\ Left(p) = <<>>
    OBVIOUS
  <2>1. wq[p] = <<>>
    BY DEF Active, QInv, OthersRest
  <2>2. Left(p) = <<>>
    BY <2>1, LeftTyped
  <2>3. wq'[p] = Left(p) \o <<>>
    BY DEF Clock, Queues, Pulse, NoPulse, Left
  <2> QED BY <2>2, <2>3
<1>4. wq'[q] = Left(q) \o <<e>>
  BY DEF Clock, Queues, Pulse, NoPulse, Left
<1>5. Left(q) \in Seq(Entries) /\ Len(Left(q)) <= 1
  <2>1. Len(Left(q)) \in Nat /\ Len(wq[q]) \in Nat
    BY LeftTyped, ShortQueues
  <2> QED BY <2>1, LeftTyped
<1>6. CASE q = "nmc"
  <2>1. wq'["mac"] = <<>> /\ Left("mac") = <<>>
    BY <1>3, <1>6 DEF Ports
  <2>2. Queued' = Under(Issued', wq'[q]) /\ Drained = Under(Issued', Left(q))
    BY <1>6, <2>1 DEF Queued, Drained, Under
  <2>3. Queued' = Overlay(Drained, e)
    BY <1>4, <1>5, <2>2, PushLast
  <2> QED BY <1>2, <2>3 DEF View
<1>7. CASE q = "mac"
  <2>1. wq'["nmc"] = <<>> /\ Left("nmc") = <<>>
    BY <1>3, <1>7 DEF Ports
  <2>2. Queued' = Under(Issued', wq'[q]) /\ Drained = Under(Issued', Left(q))
    BY <1>7, <2>1 DEF Queued, Drained, Under
  <2>3. Queued' = Overlay(Drained, e)
    BY <1>4, <1>5, <2>2, PushLast
  <2> QED BY <1>2, <2>3 DEF View
<1> QED BY <1>6, <1>7 DEF Ports

\* A byte that the assembler takes is the last store of its lane.
LEMMA MergeView ==
  ASSUME RInv, QInv, TInv, StreamRests, Clock(NoPulse, NoPulse), wa_accept
  PROVE  View' = [View EXCEPT ![client.word] =
                              [View[client.word] EXCEPT ![client.lane] = client.byte]]
<1> DEFINE w == client.word  l == client.lane  b == client.byte
           old == IF wa.valid THEN wa.data ELSE Zeroes
           held == IF wa.valid THEN wa.lanes ELSE {}
<1>1. client.at = "wr" /\ ~wa.flush /\ (wa.valid => w = wa.word)
  BY DEF wa_accept, dma_wr_en, dma_wr_ready, wa_same
<1>2. w \in Words /\ l \in Lanes /\ b \in Values
  BY <1>1, ArbiterAssumption DEF TInv, ClientTyped, DmaWrites
<1>3. ~Flushed
  BY <1>1, IssuedOnce DEF Flushed, Wants
<1>4. \A p \in Ports : wq'[p] = <<>> /\ Left(p) = <<>>
  <2> SUFFICES ASSUME NEW p \in Ports PROVE wq'[p] = <<>> /\ Left(p) = <<>>
    OBVIOUS
  <2>1. wq[p] = <<>>
    BY <1>1 DEF Active, Engine, QInv, OthersRest
  <2>2. Left(p) = <<>>
    BY <2>1, LeftTyped
  <2>3. wq'[p] = Left(p) \o <<>>
    BY DEF Clock, Queues, NoPulse, Left
  <2> QED BY <2>2, <2>3
<1>5. Queued' = Drained
  BY <1>4 DEF Ports, Queued, Drained
<1>6. Drained \in [Words -> Data]
  BY MemoryKeepsType, DrainedTyped DEF Clock
<1>7. old \in Data /\ held \in SUBSET Lanes
  <2>1. wa.valid => wa \in Staged
    BY DEF TInv, StreamTyped
  <2>2. Zeroes \in Data
    BY ArbiterAssumption DEF Zeroes, Data
  <2> QED BY <2>1, <2>2 DEF Staged
<1>8. View = [Drained EXCEPT ![w] = [k \in Lanes |-> IF k \in held THEN old[k] ELSE Drained[w][k]]]
  <2>1. View = IF wa.valid THEN Overlay(Drained, Staging) ELSE Drained
    BY <1>3, MemoryMoves DEF Clock
  <2>2. CASE wa.valid
    <3>1. Staging = [word |-> w, lanes |-> held, data |-> old]
      BY <1>1, <2>2 DEF Staging
    <3> HIDE DEF held, old, w
    <3> QED BY <2>1, <2>2, <3>1 DEF Overlay
  <2>3. CASE ~wa.valid
    <3>1. [k \in Lanes |-> IF k \in held THEN old[k] ELSE Drained[w][k]] = Drained[w]
      BY <1>2, <1>6, <2>3 DEF Data
    <3> QED BY <1>2, <1>6, <2>1, <2>3, <3>1
  <2> QED BY <2>2, <2>3
<1>9. wa'.valid /\ Staging' = [word |-> w, lanes |-> held \cup {l}, data |-> [old EXCEPT ![l] = b]]
  <2>1. wa' = Merge
    BY DEF Clock, Assembler
  <2> QED BY <2>1 DEF Merge, Staging
<1>10. View' = [Drained EXCEPT ![w] = [k \in Lanes |-> IF k \in held \cup {l}
                                          THEN [old EXCEPT ![l] = b][k] ELSE Drained[w][k]]]
  <2> HIDE DEF w, l, b, held, old
  <2> QED BY <1>5, <1>9 DEF View, Overlay
<1> HIDE DEF w, l, b, held, old
<1>11. [k \in Lanes |-> IF k \in held \cup {l} THEN [old EXCEPT ![l] = b][k] ELSE Drained[w][k]]
         = [View[w] EXCEPT ![l] = b]
  BY <1>2, <1>6, <1>7, <1>8 DEF Data
<1>12. View' = [View EXCEPT ![w] = [View[w] EXCEPT ![l] = b]]
  BY <1>2, <1>6, <1>8, <1>10, <1>11
<1> QED BY <1>12 DEF w, l, b

(***************************************************************************)
(* What has been stored is what the memory will hold.                      *)
(***************************************************************************)
SInv ==
  /\ stored \in [Words -> Data]
  /\ stored = View
  /\ StreamRests

LEMMA StoresStart == Init => SInv
<1> SUFFICES ASSUME Init PROVE SInv
  OBVIOUS
<1>1. Zeroes \in Data
  BY ArbiterAssumption DEF Zeroes, Data
<1>2. ~mig.issuing /\ ~wa.valid /\ wq["nmc"] = <<>> /\ wq["mac"] = <<>>
  BY DEF Init, NoCommand, Ports
<1>3. View = ddr
  BY <1>2 DEF View, Queued, Under, Issued
<1> QED BY <1>1, <1>2, <1>3 DEF SInv, Init, StreamRests

LEMMA QuietKeepsSInv ==
  ASSUME RInv, QInv, TInv, SInv, NEW rd, Clock(rd, NoPulse), ~wa_accept, stored' = stored,
         Engine' => ~wa.valid
  PROVE  SInv'
<1>1. View' = View
  BY QuietView DEF SInv
<1>2. StreamRests'
  <2>1. Engine' => ~wa'.valid
    BY NoByteTaken DEF Clock
  <2> QED BY <2>1 DEF StreamRests
<1> QED BY <1>1, <1>2 DEF SInv

LEMMA ByteKeepsSInv ==
  ASSUME RInv, QInv, TInv, SInv, DmaWriting, wa_accept PROVE SInv'
<1>1. client.word \in Words /\ client.lane \in Lanes /\ client.byte \in Values
  BY ArbiterAssumption DEF DmaWriting, TInv, ClientTyped, DmaWrites
<1>2. stored' = [stored EXCEPT ![client.word] = [stored[client.word] EXCEPT ![client.lane] = client.byte]]
  BY DEF DmaWriting
<1>3. stored' = View'
  BY <1>2, MergeView DEF DmaWriting, SInv
<1>4. [stored[client.word] EXCEPT ![client.lane] = client.byte] \in Data
  BY <1>1 DEF SInv, Data
<1>5. ~Engine'
  BY DEF DmaWriting, DmaWrites, Off, Engine
<1> QED BY <1>1, <1>2, <1>3, <1>4, <1>5 DEF SInv, StreamRests

LEMMA WholeWordOverlaid ==
  ASSUME NEW m \in [Words -> Data], NEW w \in Words, NEW d \in Data
  PROVE  Overlay(m, [word |-> w, lanes |-> Lanes, data |-> d]) = [m EXCEPT ![w] = d]
<1>1. [l \in Lanes |-> IF l \in Lanes THEN d[l] ELSE m[w][l]] = d
  BY DEF Data
<1> QED BY <1>1 DEF Overlay

LEMMA WordKeepsSInv ==
  ASSUME RInv, QInv, TInv, SInv, NEW w \in Words, NEW d \in WordsFor(w), EngineWrite(w, d)
  PROVE  SInv'
<1> DEFINE e == [word |-> w, lanes |-> Lanes, data |-> d]
<1>0. PICK q \in Ports : client.port = q
  BY DEF EngineWrite, QInv, ClientOK, Engine
<1>1. /\ Active(q) /\ Clock(NoPulse, Pulse(q, e)) /\ Len(wq[q]) <= 1
  <2>1. Active(q) /\ Clock(NoPulse, Pulse(q, e))
    BY <1>0 DEF EngineWrite, Active, Engine
  <2>2. client.at = "run" /\ ~client.wrote => Len(wq[q]) = 0
    BY <2>1 DEF QInv, RoomLeft
  <2>3. client.at = "second" => Len(wq[q]) <= 1
    BY <2>1 DEF QInv, RoomLeft
  <2> QED BY <2>1, <2>2, <2>3 DEF EngineWrite
<1>2. e \in Entries /\ d \in Data
  BY DEF Entries, WordsFor
<1>3. Overlay(View, e) = [stored EXCEPT ![w] = d]
  BY <1>2, WholeWordOverlaid DEF SInv
<1> HIDE DEF e
<1>4. View' = Overlay(View, e)
  BY <1>1, <1>2, PushView DEF SInv
<1>5. stored' = View' /\ stored' \in [Words -> Data]
  BY <1>2, <1>3, <1>4 DEF EngineWrite, SInv
<1>6. ~wa'.valid
  <2>1. ~wa.valid /\ ~wa_accept /\ Assembler
    BY <1>1 DEF Active, Engine, SInv, StreamRests, wa_accept, dma_wr_en, Clock
  <2> QED BY <2>1, NoByteTaken
<1> QED BY <1>5, <1>6 DEF SInv, StreamRests

LEMMA NextKeepsSInv ==
  ASSUME RInv, QInv, TInv, SInv, Next PROVE SInv'
<1> USE DEF wa_accept, dma_wr_en, Engine
<1>0. Engine => ~wa.valid
  BY DEF SInv, StreamRests
<1>1. CASE DmaPresent
  BY <1>1, QuietKeepsSInv DEF DmaPresent, Quietly, Off, DmaWrites, DmaReads
<1>2. CASE DmaWriting
  <2>1. CASE ~wa_accept
    BY <1>2, <2>1, QuietKeepsSInv DEF DmaWriting
  <2> QED BY <1>2, <2>1, ByteKeepsSInv
<1>3. CASE DmaReading
  BY <1>3, QuietKeepsSInv DEF DmaReading, Quietly, Off
<1>4. ASSUME NEW p \in Ports, EngineStart(p) PROVE SInv'
  BY <1>4, QuietKeepsSInv DEF EngineStart, AtRest, Quietly, Off
<1>5. ASSUME NEW w \in Words, EngineRead(w) PROVE SInv'
  BY <1>0, <1>5, QuietKeepsSInv DEF EngineRead
<1>6. ASSUME NEW w \in Words, NEW d \in WordsFor(w), EngineWrite(w, d) PROVE SInv'
  BY <1>6, WordKeepsSInv
<1>7. CASE EngineWait
  BY <1>0, <1>7, QuietKeepsSInv DEF EngineWait, Quietly
<1>8. CASE Compute
  BY <1>0, <1>8, QuietKeepsSInv DEF Compute, Quietly, Off
<1> QED BY <1>1, <1>2, <1>3, <1>4, <1>5, <1>6, <1>7, <1>8 DEF Next

(***************************************************************************)
(* The view is what StoresKept reads off the stores under way: of those    *)
(* that cover a lane, the last.                                            *)
(***************************************************************************)
Cover(s, w, l) == {i \in DOMAIN s : s[i].word = w /\ l \in s[i].lanes}

Shows(f, m, s) ==
  \A w \in Words, l \in Lanes :
    \/ Cover(s, w, l) = {} /\ f[w][l] = m[w][l]
    \/ \E i \in Cover(s, w, l) :
         (\A j \in Cover(s, w, l) : j <= i) /\ f[w][l] = s[i].data[l]

LEMMA ShowsNothing ==
  ASSUME NEW m PROVE Shows(m, m, <<>>)
  BY DEF Shows, Cover

LEMMA ShowsLater ==
  ASSUME NEW f \in [Words -> Data], NEW m, NEW s \in Seq(Entries), NEW e \in Entries,
         Shows(f, m, s)
  PROVE  Shows(Overlay(f, e), m, s \o <<e>>)
<1>1. PICK t \in Seq(Entries) : /\ t = s \o <<e>> /\ Len(t) = Len(s) + 1
                                /\ \A i \in 1 .. Len(s) : t[i] = s[i]
                                /\ t[Len(s) + 1] = e
  BY PushedElements, ZenonT(40)
<1>2. DOMAIN s = 1 .. Len(s) /\ DOMAIN t = 1 .. Len(s) + 1 /\ Len(s) \in Nat
  BY <1>1
<1> SUFFICES ASSUME NEW w \in Words, NEW l \in Lanes
             PROVE  \/ Cover(t, w, l) = {} /\ Overlay(f, e)[w][l] = m[w][l]
                    \/ \E i \in Cover(t, w, l) : /\ \A j \in Cover(t, w, l) : j <= i
                                                 /\ Overlay(f, e)[w][l] = t[i].data[l]
  BY <1>1 DEF Shows
<1>3. CASE e.word = w /\ l \in e.lanes
  <2>1. Overlay(f, e)[w][l] = t[Len(s) + 1].data[l]
    BY <1>1, <1>3 DEF Overlay
  <2>2. Len(s) + 1 \in Cover(t, w, l)
    BY <1>1, <1>2, <1>3 DEF Cover
  <2>3. \A j \in Cover(t, w, l) : j <= Len(s) + 1
    BY <1>2 DEF Cover
  <2> QED BY <2>1, <2>2, <2>3
<1>4. CASE ~(e.word = w /\ l \in e.lanes)
  <2>1. Overlay(f, e)[w][l] = f[w][l]
    BY <1>4 DEF Overlay, Entries
  <2>2. Cover(t, w, l) = Cover(s, w, l)
    <3>1. ASSUME NEW i \in 1 .. Len(s) + 1 PROVE i \in 1 .. Len(s) \/ i = Len(s) + 1
      BY <1>2
    <3>2. 1 .. Len(s) \subseteq 1 .. Len(s) + 1
      BY <1>2
    <3> QED BY <1>1, <1>2, <1>4, <3>1, <3>2 DEF Cover
  <2>3. \A i \in Cover(s, w, l) : t[i] = s[i]
    BY <1>1, <1>2 DEF Cover
  <2> QED BY <2>1, <2>2, <2>3 DEF Shows
<1> QED BY <1>3, <1>4

LEMMA TwoAppended ==
  ASSUME NEW s \in Seq(Entries), NEW a \in Entries, NEW b \in Entries
  PROVE  (s \o <<a>>) \o <<b>> = s \o <<a, b>>
<1>1. PICK t \in Seq(Entries) : /\ t = s \o <<a>> /\ Len(t) = Len(s) + 1
                                /\ \A i \in 1 .. Len(s) : t[i] = s[i]
                                /\ t[Len(s) + 1] = a
  BY PushedElements, ZenonT(40)
<1>2. PICK u \in Seq(Entries) : /\ u = t \o <<b>> /\ Len(u) = Len(t) + 1
                                /\ \A i \in 1 .. Len(t) : u[i] = t[i]
                                /\ u[Len(t) + 1] = b
  BY PushedElements, ZenonT(40)
<1> DEFINE v == s \o <<a, b>>
<1>3. /\ v \in Seq(Entries) /\ Len(v) = Len(s) + 2
      /\ \A i \in 1 .. Len(s) : v[i] = s[i]
      /\ v[Len(s) + 1] = a /\ v[Len(s) + 2] = b
  OBVIOUS
<1> HIDE DEF v
<1>4. Len(s) \in Nat
  OBVIOUS
<1>5. Len(u) = Len(s) + 2 /\ u[Len(s) + 2] = b
  BY <1>1, <1>2, <1>4
<1>6. \A i \in 1 .. Len(s) : u[i] = s[i]
  BY <1>1, <1>2, <1>4
<1>7. u[Len(s) + 1] = a
  BY <1>1, <1>2, <1>4
<1>8. ASSUME NEW i \in 1 .. Len(s) + 2 PROVE u[i] = v[i]
  <2>1. i \in 1 .. Len(s) \/ i = Len(s) + 1 \/ i = Len(s) + 2
    BY <1>4
  <2> QED BY <1>3, <1>5, <1>6, <1>7, <2>1
<1>9. u = v
  BY <1>2, <1>3, <1>5, <1>8
<1> QED BY <1>1, <1>2, <1>9 DEF v

LEMMA ShowsQueue ==
  ASSUME NEW f \in [Words -> Data], NEW m, NEW s \in Seq(Entries),
         NEW q \in Seq(Entries), Len(q) <= 2, Shows(f, m, s)
  PROVE  Shows(Under(f, q), m, s \o q) /\ s \o q \in Seq(Entries)
<1>1. CASE q = <<>>
  <2>1. s \o q = s
    BY <1>1
  <2> QED BY <1>1, <2>1 DEF Under
<1>2. CASE q # <<>> /\ Len(q) = 1
  <2>1. q = <<q[1]>> /\ q[1] \in Entries
    BY <1>2
  <2>2. Shows(Overlay(f, q[1]), m, s \o <<q[1]>>)
    BY <2>1, ShowsLater
  <2> QED BY <1>2, <2>1, <2>2 DEF Under
<1>3. CASE q # <<>> /\ Len(q) = 2
  <2>1. q = <<q[1], q[2]>> /\ q[1] \in Entries /\ q[2] \in Entries
    <3>1. q \in [1 .. 2 -> Entries]
      <4>1. q \in [1 .. Len(q) -> Entries]
        OBVIOUS
      <4> QED BY <1>3, <4>1
    <3>2. q[1] \in Entries /\ q[2] \in Entries
      BY <3>1
    <3>3. <<q[1], q[2]>> \in [1 .. 2 -> Entries]
      BY <3>2
    <3>4. \A i \in 1 .. 2 : q[i] = <<q[1], q[2]>>[i]
      BY <3>2
    <3> QED BY <3>1, <3>2, <3>3, <3>4
  <2>2. Shows(Overlay(f, q[1]), m, s \o <<q[1]>>)
    BY <2>1, ShowsLater
  <2>3. Overlay(f, q[1]) \in [Words -> Data] /\ s \o <<q[1]>> \in Seq(Entries)
    BY <2>1, OverlayTyped
  <2>4. Shows(Overlay(Overlay(f, q[1]), q[2]), m, (s \o <<q[1]>>) \o <<q[2]>>)
    BY <2>1, <2>2, <2>3, ShowsLater
  <2>5. (s \o <<q[1]>>) \o <<q[2]>> = s \o <<q[1], q[2]>>
    BY <2>1, TwoAppended
  <2>6. s \o q \in Seq(Entries)
    OBVIOUS
  <2>7. Under(f, q) = Overlay(Overlay(f, q[1]), q[2])
    BY <1>3 DEF Under
  <2> HIDE DEF Under
  <2> QED BY <2>1, <2>4, <2>5, <2>6, <2>7
<1> QED BY <1>1, <1>2, <1>3, OneOrTwo

LEMMA ViewIsPending ==
  ASSUME TInv, QInv PROVE Shows(View, ddr, Pending) /\ Pending \in Seq(Entries)
<1> DEFINE first == IF mig.issuing /\ mig.write THEN <<mig.entry>> ELSE <<>>
           second == first \o wq["nmc"]
           third == second \o wq["mac"]
           last == IF wa.valid THEN <<Staging>> ELSE <<>>
<1>1. MemoryTyped /\ ddr \in [Words -> Data]
  BY DEF TInv, MemoryTyped
<1>2. Shows(Issued, ddr, first) /\ first \in Seq(Entries) /\ Issued \in [Words -> Data]
  <2>1. CASE mig.issuing /\ mig.write
    <3>0. mig # NoCommand
      BY <2>1 DEF NoCommand
    <3>1. mig # NoCommand /\ mig \notin ReadCommands
      BY <2>1, <3>0 DEF ReadCommands
    <3>2. mig.entry \in Entries
      BY <1>1, <3>1 DEF MemoryTyped, WriteCommands
    <3>3. first = <<>> \o <<mig.entry>> /\ first \in Seq(Entries)
      BY <2>1, <3>2
    <3>4. Shows(Overlay(ddr, mig.entry), ddr, <<>> \o <<mig.entry>>)
      BY <1>1, <3>2, EmptyQueue, ShowsNothing, ShowsLater
    <3> QED BY <1>1, <2>1, <3>3, <3>4, IssuedTyped DEF Issued
  <2>2. CASE ~(mig.issuing /\ mig.write)
    BY <1>1, <2>2, EmptyQueue, ShowsNothing DEF Issued
  <2> QED BY <2>1, <2>2
<1> HIDE DEF first
<1>3. /\ Shows(Under(Issued, wq["nmc"]), ddr, second) /\ second \in Seq(Entries)
      /\ Under(Issued, wq["nmc"]) \in [Words -> Data]
  BY <1>2, ShowsQueue, ShortQueues, UnderTyped DEF Ports
<1> HIDE DEF second
<1>4. /\ Shows(Queued, ddr, third) /\ third \in Seq(Entries) /\ Queued \in [Words -> Data]
  BY <1>3, ShowsQueue, ShortQueues, UnderTyped DEF Ports, Queued
<1>5. Pending = third \o last
  BY DEF Pending, third, second, first, Staging
<1> HIDE DEF third
<1>6. CASE wa.valid
  <2>1. wa \in Staged
    <3>1. wa = [valid |-> FALSE, flush |-> FALSE] => ~wa.valid
      OBVIOUS
    <3> QED BY <1>6, <3>1 DEF TInv, StreamTyped
  <2>2. Staging \in Entries
    BY <2>1 DEF Staging, Staged, Entries
  <2>3. third \o <<Staging>> \in Seq(Entries)
    BY <1>4, <2>2
  <2> QED BY <1>4, <1>5, <1>6, <2>2, <2>3, ShowsLater DEF View
<1>7. CASE ~wa.valid
  <2>1. third \o last = third
    BY <1>4, <1>7
  <2> QED BY <1>4, <1>5, <1>7, <2>1 DEF View
<1> QED BY <1>6, <1>7

AInv == RInv /\ QInv /\ TInv /\ SInv

LEMMA ArbiterStarts == Init => AInv
  BY ReadStarts, QueuesStart, TypesStart, StoresStart DEF AInv

LEMMA ArbiterKeeps == AInv /\ [Next]_vars => AInv'
<1>1. ASSUME AInv, Next PROVE AInv'
  <2>1. RInv'
    BY <1>1, StepIsClock, ClockKeepsRInv DEF AInv, Clock
  <2> QED BY <1>1, <2>1, NextKeepsQInv, NextKeepsType, NextKeepsSInv DEF AInv
<1>2. ASSUME AInv, UNCHANGED vars PROVE AInv'
  <2> USE <1>2 DEF AInv, vars, arbiter
  <2>1. RInv'
    BY DEF RInv, MigOK, OneRead, ReadCommand
  <2>2. QInv'
    BY DEF QInv, ClientOK, Engine, OthersRest, Active, ReadAlone, RoomLeft
  <2>3. TInv'
    <3>1. MemoryTyped'
      BY DEF TInv, MemoryTyped
    <3>2. PortsTyped'
      BY DEF TInv, PortsTyped
    <3>3. StreamTyped'
      BY DEF TInv, StreamTyped
    <3>4. ClientTyped'
      BY DEF TInv, ClientTyped
    <3> QED BY <3>1, <3>2, <3>3, <3>4 DEF TInv
  <2>4. SInv'
    BY DEF SInv, View, Queued, Under, Issued, Staging, StreamRests, Engine
  <2> QED BY <2>1, <2>2, <2>3, <2>4
<1> QED BY <1>1, <1>2

LEMMA LastIsChosen ==
  ASSUME NEW C \in SUBSET Nat, NEW i \in C, \A j \in C : j <= i
  PROVE  i = CHOOSE k \in C : \A j \in C : j <= k
<1>1. ASSUME NEW k \in C, \A j \in C : j <= k PROVE k = i
  <2>1. k <= i /\ i <= k /\ i \in Nat /\ k \in Nat
    BY <1>1
  <2> QED BY <2>1
<1>2. \E k \in C : \A j \in C : j <= k
  OBVIOUS
<1> QED BY <1>1, <1>2

\* Whatever the clients store, and however the memory delays and the flushes
\* and the queues interleave, no store is lost, reordered or joined by bytes
\* nobody stored.
THEOREM StoresKeptTheorem == Spec => []StoresKept
<1>1. AInv => StoresKept
  <2> SUFFICES ASSUME AInv, NEW w \in Words, NEW l \in Lanes
               PROVE  stored[w][l] =
                        IF Cover(Pending, w, l) = {} THEN ddr[w][l]
                        ELSE Pending[CHOOSE i \in Cover(Pending, w, l) :
                                       \A j \in Cover(Pending, w, l) : j <= i].data[l]
    BY DEF StoresKept, Cover
  <2> DEFINE C == Cover(Pending, w, l)
  <2>1. \/ C = {} /\ stored[w][l] = ddr[w][l]
        \/ \E i \in C : (\A j \in C : j <= i) /\ stored[w][l] = Pending[i].data[l]
    BY ViewIsPending DEF AInv, SInv, Shows
  <2>2. C \subseteq Nat
    <3>1. Pending \in Seq(Entries)
      BY ViewIsPending DEF AInv
    <3> QED BY <3>1 DEF Cover
  <2> HIDE DEF C
  <2>3. ASSUME NEW i \in C, \A j \in C : j <= i
        PROVE  i = CHOOSE k \in C : \A j \in C : j <= k
    BY <2>2, <2>3, LastIsChosen
  <2>4. stored[w][l] = IF C = {} THEN ddr[w][l]
                       ELSE Pending[CHOOSE i \in C : \A j \in C : j <= i].data[l]
    BY <2>1, <2>3
  <2> QED BY <2>4 DEF C
<1> QED BY <1>1, ArbiterStarts, ArbiterKeeps, PTL DEF Spec

(***************************************************************************)
(* Reads.  A read is under way only while its client waits and nothing is  *)
(* on its way to the memory, so that the word it finds there is the one    *)
(* stored last; the cached word is the memory's as soon as the command     *)
(* under way is taken.                                                     *)
(***************************************************************************)
Waiting == client.at \in {"rdwait", "wait"}

\* The word the read under way is for.
ReadWord == IF rd_owner = "dma" THEN dr.word ELSE client.word

NoWrites == ~(mig.issuing /\ mig.write) /\ ~wa.valid /\ \A p \in Ports : wq[p] = <<>>

CacheTrue == rc.valid => rc.data = Issued[rc.word]

MissOfClient ==
  /\ dr.busy <=> client.at = "rdwait"
  /\ dr.busy => dr.word = client.word /\ ~wa.valid
  /\ dr.req => dr.busy /\ ~(rd_busy /\ rd_owner = "dma")

ReaderWaits ==
  rd_busy => /\ NoWrites
             /\ \/ rd_owner = "dma" /\ dr.busy
                \/ /\ client.at = "wait" /\ rd_owner = client.port
                   /\ rd_req[client.port] = <<>>

ReadsItsWord ==
  /\ ReadCommand => mig.entry.word = ReadWord
  /\ ret.at # "none" => ret.data = ddr[ReadWord]

AskedWord ==
  /\ Waiting => client.word \in Words
  /\ client.at = "wait" /\ rd_req[client.port] # <<>> => rd_req[client.port] = <<client.word>>

NoStaleReply == client.at = "rd" \/ Waiting => out = <<>>

LInv == CacheTrue /\ MissOfClient /\ ReaderWaits /\ ReadsItsWord /\ AskedWord /\ NoStaleReply

LEMMA ReadsStart == Init => LInv
<1> SUFFICES ASSUME Init PROVE LInv
  OBVIOUS
<1>1. /\ ~rc.valid /\ ~dr.busy /\ ~dr.req /\ ~rd_busy /\ ~ReadCommand
      /\ ret.at = "none" /\ client.at = "off"
  BY DEF Init, ReadCommand, NoCommand, NoReturn, Off
<1> QED BY <1>1 DEF LInv, CacheTrue, MissOfClient, ReaderWaits, ReadsItsWord, AskedWord,
                    NoStaleReply, Waiting

LEMMA NothingToWrite ==
  ASSUME TInv, NoWrites PROVE ~IssuesWrite
<1>1. ~wa.flush
  <2>1. wa \in Staged => wa.valid
    BY DEF Staged
  <2> QED BY <2>1 DEF NoWrites, TInv, StreamTyped
<1>2. ~Wants["nmc_wr"] /\ ~Wants["mac_wr"] /\ ~Wants["flush"]
  BY <1>1 DEF NoWrites, Wants, Ports
<1> QED BY <1>2, IssuedOnce DEF IssuesWrite

LEMMA CacheKept ==
  ASSUME AInv, LInv, NEW rd, NEW wr, Clock(rd, wr) PROVE CacheTrue'
<1>1. Cache /\ Mig
  BY DEF Clock
<1>2. CASE IssuesWrite
  BY <1>1, <1>2 DEF Cache, CacheTrue
<1>3. CASE ~IssuesWrite
  <2>1. Issued' = Issued
    BY <1>1, <1>3, NoStoreIssued DEF Mig, AInv
  <2>2. CASE Returned("dma")
    <3>1. rc' = [valid |-> TRUE, word |-> dr.word, data |-> ret.data]
      BY <1>1, <1>3, <2>2 DEF Cache
    <3>2. ret.data = ddr[dr.word]
      BY <2>2 DEF Returned, LInv, ReadsItsWord, ReadWord
    <3>3. Issued = ddr
      BY <2>2 DEF Returned, LInv, ReaderWaits, NoWrites, Issued
    <3> QED BY <2>1, <3>1, <3>2, <3>3 DEF CacheTrue
  <2>3. CASE ~Returned("dma")
    BY <1>1, <1>3, <2>1, <2>3 DEF Cache, LInv, CacheTrue
  <2> QED BY <2>2, <2>3
<1> QED BY <1>2, <1>3

\* While nobody waits no read is wanted.
LEMMA NoReader ==
  ASSUME AInv, LInv, ~Waiting
  PROVE  /\ ~rd_busy /\ ~dr.req /\ ~dr.busy /\ ~IssuesRead
         /\ \A p \in Ports : rd_req[p] = <<>>
<1>1. ~rd_busy /\ ~dr.req /\ ~dr.busy
  BY DEF LInv, ReaderWaits, MissOfClient, Waiting
<1>2. \A p \in Ports : rd_req[p] = <<>>
  <2> SUFFICES ASSUME NEW p \in Ports PROVE rd_req[p] = <<>>
    OBVIOUS
  <2>1. CASE Active(p)
    BY <2>1 DEF AInv, QInv, ReadAlone, Active, Engine, Waiting
  <2>2. CASE ~Active(p)
    BY <2>2 DEF AInv, QInv, OthersRest
  <2> QED BY <2>1, <2>2
<1>3. ~Wants["nmc_rd"] /\ ~Wants["mac_rd"] /\ ~Wants["dma_rd"]
  BY <1>1, <1>2 DEF Wants, Ports
<1> QED BY <1>1, <1>2, <1>3, IssuedOnce DEF IssuesRead

\* Without a read before the clock there is none after it.
LEMMA NoReadAfter ==
  ASSUME RInv', ~rd_busy' PROVE ReaderWaits' /\ ReadsItsWord'
  BY DEF RInv, OneRead, ReaderWaits, ReadsItsWord, ReadCommand

LEMMA IdleReads ==
  ASSUME AInv, AInv', LInv, NEW rd, NEW wr, Clock(rd, wr), ~Waiting
  PROVE  /\ ~rd_busy' /\ ReaderWaits' /\ ReadsItsWord'
         /\ IF dr_accept /\ ~rc_hit
            THEN dr'.busy /\ dr'.word = client.word ELSE ~dr'.busy /\ ~dr'.req
         /\ out' # <<>> <=> dr_accept /\ rc_hit
<1>1. ~rd_busy /\ ~dr.req /\ ~dr.busy /\ ~IssuesRead
  BY NoReader
<1>2. ~rd_busy'
  BY <1>1 DEF Clock, ReadTag
<1>3. ~Returned("dma") /\ DmaRead
  BY <1>1 DEF Returned, Clock
<1>4. dr_accept /\ ~rc_hit => dr'.busy /\ dr'.word = client.word
  BY <1>3 DEF DmaRead
<1>5. ~(dr_accept /\ ~rc_hit) => ~dr'.busy /\ ~dr'.req
  <2>1. CASE dr = [busy |-> FALSE, req |-> FALSE]
    BY <1>3, <2>1 DEF DmaRead
  <2>2. dr \notin Misses
    BY <1>1 DEF Misses
  <2> QED BY <2>1, <2>2 DEF AInv, TInv, StreamTyped
<1>6. out' # <<>> <=> dr_accept /\ rc_hit
  BY <1>3 DEF DmaRead
<1> QED BY <1>2, <1>4, <1>5, <1>6, NoReadAfter DEF AInv

LEMMA IdleKeepsLInv ==
  ASSUME AInv, AInv', LInv, NEW rd, NEW wr, Clock(rd, wr), ~Waiting,
         client'.at = "rdwait" <=> dr_accept /\ ~rc_hit,
         client'.at = "rdwait" => client'.word = client.word,
         client'.at \in {"rd", "rdwait", "wait"} => out' = <<>>,
         client'.at = "wait" => /\ client'.word \in Words
                                /\ rd_req'[client'.port] = <<client'.word>>
  PROVE  LInv'
<1>1. /\ ~rd_busy' /\ ReaderWaits' /\ ReadsItsWord'
      /\ IF dr_accept /\ ~rc_hit
         THEN dr'.busy /\ dr'.word = client.word ELSE ~dr'.busy /\ ~dr'.req
  BY IdleReads
<1>2. dr_accept => ~wa'.valid /\ client.word \in Words
  <2> SUFFICES ASSUME dr_accept PROVE ~wa'.valid /\ client.word \in Words
    OBVIOUS
  <2>1. client.at = "rd" /\ ~wa.valid /\ ~wa_accept /\ Assembler
    BY DEF dr_accept, dma_rd_en, dma_rd_ready, wa_accept, dma_wr_en, Clock
  <2> QED BY <2>1, NoByteTaken DEF AInv, TInv, ClientTyped, DmaReads
<1>3. CacheTrue'
  BY CacheKept
<1>4. MissOfClient'
  BY <1>1, <1>2 DEF MissOfClient
<1>5. AskedWord'
  BY <1>2 DEF AskedWord, Waiting
<1>6. NoStaleReply'
  BY DEF NoStaleReply, Waiting
<1> QED BY <1>1, <1>3, <1>4, <1>5, <1>6 DEF LInv

(***************************************************************************)
(* A clock in which somebody waits.                                        *)
(***************************************************************************)
Answered == rd_busy /\ ret.at = "valid"

WaitsOn ==
  /\ Waiting /\ Clock(NoPulse, NoPulse)
  /\ client.at = "rdwait" => client' = IF out' # <<>> THEN Off ELSE client
  /\ client.at = "wait" =>
       client' = IF Returned(client.port)
                 THEN [at |-> "run", port |-> client.port, wrote |-> FALSE] ELSE client

LEMMA WaitingClock ==
  ASSUME AInv, LInv, WaitsOn
  PROVE  /\ ~dr_accept /\ ~wa.valid /\ ~wa'.valid
         /\ dr' = IF Returned("dma") THEN [busy |-> FALSE, req |-> FALSE]
                  ELSE [dr EXCEPT !.req = dr.req /\ ~Issues("dma_rd")]
         /\ out' # <<>> <=> Returned("dma")
         /\ ~Answered => client' = client /\ out' = <<>> /\ ~Returned("dma")
         /\ Answered => ~(client'.at = "rd") /\ ~Waiting' /\ ~dr'.busy /\ ~dr'.req
<1>1. ~dr_accept /\ ~wa_accept
  BY DEF WaitsOn, Waiting, dr_accept, dma_rd_en, wa_accept, dma_wr_en
<1>2. ~wa.valid
  BY DEF WaitsOn, Waiting, LInv, MissOfClient, AInv, SInv, StreamRests, Engine
<1>3. ~wa'.valid
  BY <1>1, <1>2, NoByteTaken DEF AInv, WaitsOn, Clock
<1>4. DmaRead
  BY DEF WaitsOn, Clock
<1>5. dr' = IF Returned("dma") THEN [busy |-> FALSE, req |-> FALSE]
            ELSE [dr EXCEPT !.req = dr.req /\ ~Issues("dma_rd")]
  BY <1>1, <1>4 DEF DmaRead
<1>6. out' # <<>> <=> Returned("dma")
  BY <1>1, <1>4 DEF DmaRead
<1>7. ~Answered => client' = client /\ out' = <<>> /\ ~Returned("dma")
  BY <1>6 DEF Answered, Returned, WaitsOn, Waiting
<1>8. ASSUME Answered PROVE ~(client'.at = "rd") /\ ~Waiting' /\ ~dr'.busy /\ ~dr'.req
  <2>1. CASE rd_owner = "dma" /\ dr.busy
    <3>1. Returned("dma") /\ client.at = "rdwait"
      BY <1>8, <2>1 DEF Answered, Returned, LInv, MissOfClient
    <3>2. client' = Off /\ dr' = [busy |-> FALSE, req |-> FALSE]
      BY <1>5, <1>6, <3>1 DEF WaitsOn
    <3> QED BY <3>2 DEF Off, Waiting
  <2>2. CASE client.at = "wait" /\ rd_owner = client.port
    <3>1. Returned(client.port) /\ ~dr.busy /\ ~dr.req /\ client.port \in Ports
      BY <1>8, <2>2 DEF Answered, Returned, LInv, MissOfClient, AInv, TInv, ClientTyped
    <3>2. ~Returned("dma")
      BY <2>2, <3>1 DEF Returned, Ports
    <3>3. dr' = [dr EXCEPT !.req = dr.req /\ ~Issues("dma_rd")] /\ dr \notin Misses
      BY <1>5, <3>1, <3>2 DEF Misses
    <3>4. ~dr'.busy /\ ~dr'.req
      <4>1. dr = [busy |-> FALSE, req |-> FALSE]
        BY <3>3 DEF AInv, TInv, StreamTyped
      <4> QED BY <3>3, <4>1
    <3>5. client'.at = "run"
      BY <2>2, <3>1 DEF WaitsOn
    <3> QED BY <3>4, <3>5 DEF Waiting
  <2> QED BY <1>8, <2>1, <2>2 DEF Answered, LInv, ReaderWaits
<1> QED BY <1>1, <1>2, <1>3, <1>5, <1>6, <1>7, <1>8

\* The miss, while it is not answered.
LEMMA MissWaits ==
  ASSUME AInv, LInv, WaitsOn, ~Answered
  PROVE  /\ dr'.busy <=> dr.busy
         /\ dr.busy => dr'.word = dr.word
         /\ dr'.req => dr.req /\ ~Issues("dma_rd")
         /\ ~dr.busy => ~dr'.req
<1>1. dr' = [dr EXCEPT !.req = dr.req /\ ~Issues("dma_rd")]
  BY WaitingClock
<1>2. CASE dr = [busy |-> FALSE, req |-> FALSE]
  BY <1>1, <1>2
<1>3. CASE dr \in Misses
  BY <1>1, <1>3 DEF Misses
<1> QED BY <1>2, <1>3 DEF AInv, TInv, StreamTyped

\* Neither queue gets anything while somebody waits.
LEMMA QueuesWait ==
  ASSUME AInv, WaitsOn, NEW p \in Ports
  PROVE  /\ wq[p] = <<>> => wq'[p] = <<>>
         /\ rd_req'[p] = rd_req[p] \/ rd_req'[p] = <<>>
         /\ Issues(ReadOf(p)) => rd_req'[p] = <<>>
<1>1. Calm(p)
  BY QuietIsCalm DEF AInv, WaitsOn
<1>2. Issues(ReadOf(p)) => rd_req'[p] = <<>>
  BY DEF WaitsOn, Clock, ReadRequests, NoPulse
<1> QED BY <1>1, <1>2 DEF Calm

LEMMA NoWritesStays ==
  ASSUME AInv, LInv, WaitsOn, NoWrites PROVE NoWrites'
<1>1. ~IssuesWrite
  BY NothingToWrite DEF AInv
<1>2. ~wa'.valid /\ \A p \in Ports : wq'[p] = <<>>
  BY WaitingClock, QueuesWait DEF NoWrites
<1>3. ~(mig'.issuing /\ mig'.write)
  <2>1. CASE MigIdle
    BY <2>1 DEF MigIdle, NoWrites
  <2>2. CASE MigIssue
    <3>1. PICK e : Present(FALSE, e)
      BY <1>1, <2>2 DEF MigIssue, IssuesWrite, Ports, WriteOf
    <3> QED BY <3>1 DEF Present
  <2>3. CASE MigHandshake
    <3>1. mig.issuing = TRUE /\ ~mig.write
      BY <2>3 DEF MigHandshake, NoWrites, AInv, RInv, MigOK
    <3>2. PICK en, wren \in BOOLEAN :
            mig' = [mig EXCEPT !.en = en, !.wren = wren] \/ mig' = NoCommand
      BY <2>3 DEF MigHandshake
    <3>3. mig' = NoCommand => ~mig'.issuing
      BY DEF NoCommand
    <3>4. mig' = [mig EXCEPT !.en = en, !.wren = wren] => mig'.write = mig.write
      BY <3>1 DEF AInv, RInv, MigOK
    <3> QED BY <3>1, <3>2, <3>3, <3>4
  <2> QED BY <2>1, <2>2, <2>3 DEF WaitsOn, Clock, Mig
<1> QED BY <1>2, <1>3 DEF NoWrites

\* A read that is issued is that of the client that waits, behind every write.
LEMMA ReadIssues ==
  ASSUME AInv, AInv', LInv, WaitsOn, ~Answered, IssuesRead
  PROVE  /\ ReaderWaits' /\ ReadsItsWord' /\ ~(dr'.req /\ rd_owner' = "dma")
<1>1. ~rd_busy /\ ~mig.issuing /\ ~IssuesWrite
  BY ReadWhenFree
<1>2. ret'.at = "none" /\ client' = client /\ MigIssue
  <2>1. MigReturn /\ (MigIdle \/ MigIssue \/ MigHandshake)
    BY DEF WaitsOn, Clock, Mig
  <2>2. ret.at = "none"
    BY <1>1 DEF AInv, RInv, OneRead
  <2>3. ret'.at \in {"none", "queued", "valid"} /\ ~(ret'.at # "none")
    BY <1>1, <2>1, <2>2, ReturnSteps DEF AInv
  <2> QED BY <1>1, <2>1, <2>3, WaitingClock DEF MigIdle, MigHandshake
<1>3. ASSUME NEW p \in Ports, Issues(ReadOf(p))
      PROVE  /\ NoWrites /\ rd_owner' = p /\ rd_req'[p] = <<>> /\ ~dr'.req
             /\ client.at = "wait" /\ client.port = p /\ mig'.entry.word = client.word
  <2>1. rd_req[p] # <<>> /\ wq[p] = <<>>
    BY <1>3, ReadIsLast
  <2>2. Active(p)
    BY <2>1 DEF AInv, QInv, OthersRest
  <2>3. client.at = "wait" /\ client.port = p
    BY <2>1, <2>2 DEF Active, Engine, AInv, QInv, ReadAlone
  <2>4. NoWrites
    BY <1>1, <2>1, <2>2, <2>3 DEF AInv, QInv, OthersRest, Active, SInv, StreamRests, NoWrites
  <2>5. rd_owner' = p
    <3>1. ReadTag
      BY DEF WaitsOn, Clock
    <3>2. CASE p = "nmc"
      BY <1>3, <3>1, <3>2, IssuedOnce DEF ReadTag, ReadOf
    <3>3. CASE p = "mac"
      <4>1. Issues("mac_rd") /\ ~Issues("nmc_rd") /\ ~Issues("dma_rd")
        BY <1>3, <3>3, IssuedOnce DEF ReadOf
      <4> QED BY <3>1, <3>3, <4>1 DEF ReadTag
    <3> QED BY <3>2, <3>3 DEF Ports
  <2>6. rd_req'[p] = <<>>
    BY <1>3, QueuesWait
  <2>7. ~dr'.req
    BY <2>3, MissWaits DEF LInv, MissOfClient
  <2>8. mig'.entry.word = client.word
    <3>1. rd_req[p] = <<client.word>>
      BY <2>1, <2>3 DEF LInv, AskedWord
    <3>2. \A k : Issues(k) => k = ReadOf(p)
      BY <1>3, IssuedOnce
    <3>3. \A r \in Ports : Issues(ReadOf(r)) => r = p
      BY <3>2 DEF ReadOf, Ports
    <3>4. ~Issues("dma_rd")
      BY <3>2 DEF ReadOf, Ports
    <3>5. Present(FALSE, ReadEntry(rd_req[p][1]))
      BY <1>1, <1>2, <3>3, <3>4 DEF MigIssue, IssuesWrite, WriteOf, Ports
    <3> QED BY <3>1, <3>5 DEF Present, ReadEntry
  <2> QED BY <2>3, <2>4, <2>5, <2>6, <2>7, <2>8
<1>4. ASSUME Issues("dma_rd")
      PROVE  /\ NoWrites /\ rd_owner' = "dma" /\ ~dr'.req
             /\ dr'.busy /\ mig'.entry.word = dr'.word
  <2>1. dr.req /\ dr.busy /\ client.at = "rdwait" /\ ~wa.valid
    <3>1. Wants["dma_rd"]
      BY <1>4, IssuedOnce
    <3>2. dr.req
      BY <3>1 DEF Wants
    <3> QED BY <3>2 DEF LInv, MissOfClient
  <2>2. NoWrites
    BY <1>1, <2>1 DEF NoWrites, AInv, QInv, OthersRest, Active, Engine
  <2>3. rd_owner' = "dma"
    <3>1. ~Issues("nmc_rd") /\ ~Issues("mac_rd") /\ ReadTag
      BY <1>4, IssuedOnce DEF WaitsOn, Clock
    <3> QED BY <1>4, <3>1 DEF ReadTag
  <2>4. ~dr'.req /\ dr'.busy /\ dr'.word = dr.word
    BY <1>4, <2>1, MissWaits
  <2>5. Present(FALSE, ReadEntry(dr.word))
    <3>1. \A k : Issues(k) => k = "dma_rd"
      BY <1>4, IssuedOnce
    <3>2. \A r \in Ports : ~Issues(ReadOf(r))
      BY <3>1 DEF ReadOf, Ports
    <3> QED BY <1>1, <1>2, <3>2 DEF MigIssue, IssuesWrite, WriteOf, Ports
  <2> QED BY <2>2, <2>3, <2>4, <2>5 DEF Present, ReadEntry
<1>5. CASE \E p \in Ports : Issues(ReadOf(p))
  <2>1. PICK p \in Ports : Issues(ReadOf(p))
    BY <1>5
  <2>2. NoWrites' /\ rd_owner' = p /\ p # "dma"
    BY <1>3, <2>1, NoWritesStays DEF Ports
  <2> QED BY <1>2, <1>3, <2>1, <2>2 DEF ReaderWaits, ReadsItsWord, ReadWord
<1>6. CASE Issues("dma_rd")
  <2>1. NoWrites'
    BY <1>4, <1>6, NoWritesStays
  <2> QED BY <1>2, <1>4, <1>6, <2>1 DEF ReaderWaits, ReadsItsWord, ReadWord
<1> QED BY <1>5, <1>6 DEF IssuesRead, Ports, ReadOf

\* A read under way finds the memory as it was when it was issued.
LEMMA ReadGoesOn ==
  ASSUME AInv, LInv, WaitsOn, ~Answered, rd_busy
  PROVE  ReaderWaits' /\ ReadsItsWord' /\ ~(dr'.req /\ rd_owner' = "dma")
<1>1. NoWrites /\ NoWrites' /\ ~IssuesWrite /\ ~IssuesRead
  BY NothingToWrite, NoWritesStays, ReadWhenFree DEF LInv, ReaderWaits, AInv
<1>2. rd_owner' = rd_owner /\ client' = client
  BY <1>1, WaitingClock DEF WaitsOn, Clock, ReadTag, IssuesRead
<1>3. ReaderWaits' /\ ~(dr'.req /\ rd_owner' = "dma") /\ ReadWord' = ReadWord
  <2>1. CASE rd_owner = "dma" /\ dr.busy
    BY <1>1, <1>2, <2>1, MissWaits DEF ReaderWaits, ReadWord, LInv, MissOfClient
  <2>2. CASE client.at = "wait" /\ rd_owner = client.port /\ rd_req[client.port] = <<>>
    <3>1. client.port \in Ports /\ client.port # "dma"
      BY <2>2 DEF AInv, TInv, ClientTyped, Ports
    <3>2. rd_req'[client.port] = <<>>
      BY <2>2, <3>1, QueuesWait
    <3> QED BY <1>1, <1>2, <2>2, <3>1, <3>2 DEF ReaderWaits, ReadWord
  <2> QED BY <2>1, <2>2 DEF LInv, ReaderWaits
<1>4. /\ ddr' = ddr
      /\ ReadCommand' => ReadCommand /\ mig'.entry = mig.entry
  <2>1. CASE MigIdle
    BY <2>1 DEF MigIdle, ReadCommand
  <2>2. ~MigIssue
    BY <1>1 DEF MigIssue, IssuesWrite, IssuesRead, Ports, WriteOf, ReadOf
  <2>3. CASE MigHandshake
    <3>1. mig.issuing = TRUE /\ ~mig.write
      BY <1>1, <2>3 DEF MigHandshake, NoWrites, AInv, RInv, MigOK
    <3>2. PICK en, wren \in BOOLEAN :
            mig' = [mig EXCEPT !.en = en, !.wren = wren] \/ mig' = NoCommand
      BY <2>3 DEF MigHandshake
    <3>3. mig' = NoCommand => ~ReadCommand'
      BY DEF NoCommand, ReadCommand
    <3>4. mig' = [mig EXCEPT !.en = en, !.wren = wren] => mig'.entry = mig.entry
      BY <3>1 DEF AInv, RInv, MigOK
    <3>5. ddr' = ddr
      BY <2>3, <3>1 DEF MigHandshake
    <3> QED BY <3>1, <3>2, <3>3, <3>4, <3>5 DEF ReadCommand
  <2> QED BY <2>1, <2>2, <2>3 DEF WaitsOn, Clock, Mig
<1>5. ret'.at # "none" => ret'.data = ddr[ReadWord]
  <2>1. MigReturn /\ ret.at # "valid"
    BY DEF WaitsOn, Clock, Mig, Answered
  <2>2. CASE ret.at = "none"
    <3>1. mig.issuing /\ ~mig.write => mig.entry.word = ReadWord
      BY DEF LInv, ReadsItsWord, ReadCommand
    <3> QED BY <2>1, <2>2, <3>1 DEF MigReturn, NoReturn
  <2>3. CASE ret.at = "queued"
    <3>1. ret.data = ddr[ReadWord] /\ ret = [at |-> ret.at, data |-> ret.data]
      BY <2>3 DEF LInv, ReadsItsWord, AInv, RInv, NoReturn
    <3>2. ret' = ret \/ ret' = [ret EXCEPT !.at = "valid"]
      BY <2>1, <2>3 DEF MigReturn
    <3>3. ret'.data = ret.data
      BY <3>1, <3>2
    <3> QED BY <3>1, <3>3
  <2> QED BY <2>1, <2>2, <2>3 DEF AInv, RInv
<1> QED BY <1>3, <1>4, <1>5 DEF ReadsItsWord, LInv

LEMMA WaitingKeepsLInv ==
  ASSUME AInv, AInv', LInv, WaitsOn PROVE LInv'
<1>1. CacheTrue'
  BY CacheKept DEF WaitsOn
<1>2. CASE Answered
  <2>1. ~rd_busy'
    BY <1>2, ReadWhenFree DEF Answered, WaitsOn, Clock, ReadTag
  <2>2. client'.at # "rd" /\ ~Waiting' /\ ~dr'.busy /\ ~dr'.req
    BY <1>2, WaitingClock
  <2>3. ReaderWaits' /\ ReadsItsWord'
    BY <2>1, NoReadAfter DEF AInv
  <2> QED BY <1>1, <2>2, <2>3 DEF LInv, MissOfClient, AskedWord, NoStaleReply, Waiting
<1>3. CASE ~Answered
  <2>1. client' = client /\ out' = <<>> /\ ~wa'.valid
    BY <1>3, WaitingClock
  <2>2. ReaderWaits' /\ ReadsItsWord' /\ ~(dr'.req /\ rd_busy' /\ rd_owner' = "dma")
    <3>1. CASE IssuesRead
      BY <1>3, <3>1, ReadIssues
    <3>2. CASE rd_busy
      BY <1>3, <3>2, ReadGoesOn
    <3>3. CASE ~IssuesRead /\ ~rd_busy
      <4>1. ~rd_busy'
        BY <3>3 DEF WaitsOn, Clock, ReadTag
      <4> QED BY <4>1, NoReadAfter DEF AInv
    <3> QED BY <3>1, <3>2, <3>3
  <2>3. MissOfClient'
    BY <1>3, <2>1, <2>2, MissWaits DEF LInv, MissOfClient
  <2>4. AskedWord'
    <3>1. client.at = "wait" => client.port \in Ports
      BY DEF AInv, TInv, ClientTyped
    <3>2. client.at = "wait" => rd_req'[client.port] = rd_req[client.port] \/ rd_req'[client.port] = <<>>
      BY <3>1, QueuesWait
    <3> QED BY <2>1, <3>2 DEF LInv, AskedWord, Waiting
  <2>5. NoStaleReply'
    BY <2>1 DEF NoStaleReply
  <2> QED BY <1>1, <2>2, <2>3, <2>4, <2>5 DEF LInv
<1> QED BY <1>2, <1>3

LEMMA WaitersWaitOn ==
  ASSUME (DmaReading /\ client.at = "rdwait") \/ EngineWait PROVE WaitsOn
<1>1. CASE DmaReading /\ client.at = "rdwait"
  <2>1. ~dr_accept
    BY <1>1 DEF dr_accept, dma_rd_en
  <2> QED BY <1>1, <2>1 DEF DmaReading, Quietly, WaitsOn, Waiting
<1>2. CASE EngineWait
  BY <1>2 DEF EngineWait, Quietly, WaitsOn, Waiting
<1> QED BY <1>1, <1>2

LEMMA NextKeepsLInv ==
  ASSUME AInv, AInv', LInv, Next PROVE LInv'
<1> USE DEF Waiting
<1>0. ASSUME NEW rd, NEW wr, Clock(rd, wr), client.at # "rd", ~Waiting
      PROVE  ~dr_accept /\ out' = <<>>
  <2>1. ~dr_accept
    BY <1>0 DEF dr_accept, dma_rd_en
  <2> QED BY <1>0, <2>1, IdleReads
<1>1. CASE DmaPresent
  <2>1. Clock(NoPulse, NoPulse) /\ ~Waiting /\ client.at = "off" /\ client'.at \in {"wr", "rd"}
    BY <1>1 DEF DmaPresent, Quietly, Off, DmaWrites, DmaReads
  <2>2. ~dr_accept /\ out' = <<>>
    BY <1>0, <2>1
  <2> QED BY <2>1, <2>2, IdleKeepsLInv
<1>2. CASE DmaWriting
  <2>1. Clock(NoPulse, NoPulse) /\ ~Waiting /\ client.at = "wr" /\ client'.at \in {"wr", "off"}
    BY <1>2 DEF DmaWriting, Off, DmaWrites
  <2>2. ~dr_accept /\ out' = <<>>
    BY <1>0, <2>1
  <2> QED BY <2>1, <2>2, IdleKeepsLInv
<1>3. CASE DmaReading
  <2>1. CASE client.at = "rd"
    <3>1. Clock(NoPulse, NoPulse) /\ ~Waiting
      BY <1>3, <2>1 DEF DmaReading, Quietly
    <3>2. out' # <<>> <=> dr_accept /\ rc_hit
      BY <3>1, IdleReads
    <3>3. client' = IF out' # <<>> THEN Off
                    ELSE IF dr_accept THEN [at |-> "rdwait", word |-> client.word] ELSE client
      BY <1>3 DEF DmaReading
    <3>4. client'.at = "rdwait" <=> dr_accept /\ ~rc_hit
      BY <2>1, <3>2, <3>3 DEF Off
    <3>5. client'.at = "rdwait" => client'.word = client.word
      BY <2>1, <3>3 DEF Off
    <3>6. client'.at \in {"rd", "rdwait", "wait"} => out' = <<>>
      BY <3>3 DEF Off
    <3>7. client'.at # "wait"
      BY <2>1, <3>3 DEF Off
    <3> QED BY <3>1, <3>4, <3>5, <3>6, <3>7, IdleKeepsLInv
  <2>2. CASE client.at = "rdwait"
    BY <1>3, <2>2, WaitersWaitOn, WaitingKeepsLInv
  <2> QED BY <1>3, <2>1, <2>2 DEF DmaReading
<1>4. ASSUME NEW p \in Ports, EngineStart(p) PROVE LInv'
  <2>1. Clock(NoPulse, NoPulse) /\ ~Waiting /\ client.at = "off" /\ client'.at = "run"
    BY <1>4 DEF EngineStart, Quietly, Off
  <2>2. ~dr_accept
    BY <1>0, <2>1
  <2> QED BY <2>1, <2>2, IdleKeepsLInv
<1>5. ASSUME NEW w \in Words, EngineRead(w) PROVE LInv'
  <2>1. /\ Clock(Pulse(client.port, w), NoPulse) /\ ~Waiting /\ client.at = "run"
        /\ client'.at = "wait" /\ client'.port = client.port /\ client'.word = w
    BY <1>5 DEF EngineRead
  <2>2. client.port \in Ports
    BY <2>1 DEF AInv, TInv, ClientTyped
  <2>3. rd_req'[client.port] = <<w>>
    BY <2>1, <2>2 DEF Clock, ReadRequests, Pulse, NoPulse
  <2>4. ~dr_accept /\ out' = <<>>
    BY <1>0, <2>1
  <2> QED BY <2>1, <2>3, <2>4, IdleKeepsLInv
<1>6. ASSUME NEW w \in Words, NEW d \in WordsFor(w), EngineWrite(w, d) PROVE LInv'
  <2>1. /\ Clock(NoPulse, Pulse(client.port, [word |-> w, lanes |-> Lanes, data |-> d]))
        /\ ~Waiting /\ client.at \in {"run", "second"} /\ client'.at \in {"run", "second"}
    BY <1>6 DEF EngineWrite
  <2>2. ~dr_accept
    BY <1>0, <2>1
  <2> QED BY <2>1, <2>2, IdleKeepsLInv
<1>7. CASE EngineWait
  BY <1>7, WaitersWaitOn, WaitingKeepsLInv
<1>8. CASE Compute
  <2>1. /\ Clock(NoPulse, NoPulse) /\ ~Waiting /\ client.at \in {"off", "run"}
        /\ client'.at \in {"off", "run"}
    BY <1>8 DEF Compute, Quietly, Off
  <2>2. ~dr_accept
    BY <1>0, <2>1
  <2> QED BY <2>1, <2>2, IdleKeepsLInv
<1> QED BY <1>1, <1>2, <1>3, <1>4, <1>5, <1>6, <1>7, <1>8 DEF Next

(***************************************************************************)
(* Serial memory.  What a client has asked and what it is told:            *)
(***************************************************************************)
Asked ==
  IF client.at \in {"rd", "rdwait"} \/ (client.at = "wait" /\ ~EngineReply)
  THEN <<client.word>> ELSE <<>>

Reply == IF out # <<>> THEN out ELSE IF EngineReply THEN <<ret.data>> ELSE <<>>

\* While a read is under way the memory holds all that has been stored.
LEMMA InMemory ==
  ASSUME AInv, LInv, rd_busy PROVE stored = ddr
<1>1. NoWrites
  BY DEF LInv, ReaderWaits
<1>2. View = Queued /\ Queued = Issued /\ Issued = ddr
  BY <1>1 DEF NoWrites, View, Queued, Under, Issued, Ports
<1> QED BY <1>2 DEF AInv, SInv

\* What the cache answers with is what has been stored.
LEMMA HitIsStored ==
  ASSUME AInv, LInv, dr_accept, rc_hit PROVE rc.data = stored[client.word]
<1>1. client.at = "rd" /\ ~wa.valid /\ rc.valid /\ rc.word = client.word
  BY DEF dr_accept, dma_rd_en, dma_rd_ready, rc_hit
<1>2. \A p \in Ports : wq[p] = <<>>
  BY <1>1 DEF AInv, QInv, OthersRest, Active, Engine
<1>3. View = Queued /\ Queued = Issued
  BY <1>1, <1>2 DEF View, Queued, Under, Ports
<1> QED BY <1>1, <1>3 DEF AInv, SInv, LInv, CacheTrue

\* A clock of a client that neither waits nor is to be answered.
LEMMA NothingAsked ==
  ASSUME AInv, AInv', LInv, NEW rd, NEW wr, Clock(rd, wr),
         client.at \in {"off", "wr", "run", "second"}
  PROVE  Asked = <<>> /\ out' = <<>> /\ ~EngineReply' /\ Reply' = <<>>
<1>1. ~Waiting /\ ~dr_accept /\ Asked = <<>>
  BY DEF Waiting, dr_accept, dma_rd_en, Asked
<1>2. ~rd_busy' /\ out' = <<>>
  BY <1>1, IdleReads
<1>3. ~EngineReply'
  BY <1>2 DEF EngineReply, Returned
<1> QED BY <1>1, <1>2, <1>3 DEF Reply

SerialStep == Serial!SMNext \/ <<stored, Asked, Reply>>' = <<stored, Asked, Reply>>

\* Once the clock has passed, nothing but an old reply is gone.
LEMMA SeenOrNothing ==
  ASSUME stored' = stored, Asked' = Asked, Reply' = <<>> PROVE SerialStep
<1>1. CASE Reply = <<>>
  BY <1>1 DEF SerialStep
<1>2. CASE Reply # <<>>
  BY <1>2 DEF Serial!ReplySeen, Serial!SMNext, SerialStep, Reply, Asked
<1> QED BY <1>1, <1>2

LEMMA AnswersTruly ==
  ASSUME Asked = <<client.word>>, Asked' = <<>>, stored' = stored,
         NEW ls \in SUBSET Lanes, ls # {},
         Reply' = <<[l \in ls |-> stored[client.word][l]]>>
  PROVE  SerialStep
<1>1. Asked # <<>> /\ Asked[1] = client.word
  OBVIOUS
<1>2. \E lanes \in (SUBSET Lanes) \ {{}} : Reply' = <<[l \in lanes |-> stored[Asked[1]][l]]>>
  <2>1. ls \in (SUBSET Lanes) \ {{}}
    OBVIOUS
  <2>2. Reply' = <<[l \in ls |-> stored[Asked[1]][l]]>>
    BY <1>1
  <2> QED BY <2>1, <2>2
<1>3. Serial!Answer
  BY <1>1, <1>2, Zenon DEF Serial!Answer, Asked, Reply
<1> QED BY <1>3 DEF Serial!SMNext, SerialStep

LEMMA StartsSerial == Init => Serial!SMInit
<1> SUFFICES ASSUME Init PROVE Serial!SMInit
  OBVIOUS
<1>1. client.at = "off" /\ out = <<>> /\ stored = [w \in Words |-> [l \in Lanes |-> 0]]
  BY DEF Init, Off, Zeroes
<1> QED BY <1>1 DEF Serial!SMInit, EngineReply

\* The byte stream's read: a hit, a miss, or the clock that waits for one.
LEMMA DmaReadsSerially ==
  ASSUME AInv, AInv', LInv, LInv', DmaReading PROVE SerialStep
<1>1. Asked = <<client.word>> /\ ~EngineReply /\ Reply = <<>> /\ stored' = stored
  BY DEF DmaReading, Quietly, Asked, EngineReply, Reply, LInv, NoStaleReply, Waiting
<1>2. CASE out' = <<>>
  <2>1. client'.at \in {"rd", "rdwait"} /\ client'.word = client.word
    BY <1>2 DEF DmaReading
  <2>2. Asked' = <<client.word>> /\ Reply' = <<>>
    BY <1>2, <2>1 DEF Asked, Reply, EngineReply
  <2> QED BY <1>1, <2>2 DEF SerialStep
<1>3. ASSUME out' # <<>>
      PROVE  \E k \in Lanes : out' = <<[l \in {k} |-> stored[client.word][l]]>>
  <2>1. CASE client.at = "rd"
    <3>1. dr_accept /\ rc_hit
      BY <1>3, <2>1, IdleReads DEF DmaReading, Quietly, Waiting
    <3>2. out' = <<[l \in {client.lane} |-> rc.data[l]]>>
      BY <3>1 DEF DmaReading, Quietly, Clock, DmaRead
    <3>3. client.lane \in Lanes
      BY <2>1 DEF AInv, TInv, ClientTyped, DmaReads
    <3> QED BY <3>1, <3>2, <3>3, HitIsStored
  <2>2. CASE client.at = "rdwait"
    <3>1. WaitsOn
      BY <2>2, WaitersWaitOn
    <3>2. Returned("dma") /\ ~dr_accept
      BY <1>3, <3>1, WaitingClock
    <3>3. out' = <<[l \in {dr.lane} |-> ret.data[l]]>>
      BY <3>2 DEF DmaReading, Quietly, Clock, DmaRead
    <3>4. dr.lane \in Lanes /\ dr.busy
      BY <3>2, MissIsThere DEF AInv, Misses
    <3>5. ret.data = stored[client.word]
      BY <3>2, <3>4, InMemory DEF Returned, LInv, ReadsItsWord, ReadWord, MissOfClient
    <3> QED BY <3>3, <3>4, <3>5
  <2> QED BY <2>1, <2>2 DEF DmaReading
<1>4. CASE out' # <<>>
  <2>1. PICK k \in Lanes : out' = <<[l \in {k} |-> stored[client.word][l]]>>
    BY <1>3, <1>4
  <2>2. client'.at = "off"
    BY <1>4 DEF DmaReading, Off
  <2>3. Asked' = <<>> /\ Reply' = out'
    BY <1>4, <2>2 DEF Asked, Reply
  <2>4. {k} \in SUBSET Lanes /\ {k} # {}
    OBVIOUS
  <2> QED BY <1>1, <2>1, <2>3, <2>4, AnswersTruly
<1> QED BY <1>2, <1>4

LEMMA EngineWaitsSerially ==
  ASSUME AInv, AInv', LInv, LInv', EngineWait PROVE SerialStep
<1>1. WaitsOn /\ client.at = "wait" /\ stored' = stored /\ out = <<>>
  BY WaitersWaitOn DEF EngineWait, Quietly, LInv, NoStaleReply, Waiting
<1>2. ~Returned("dma") /\ out' = <<>>
  <2>1. ~dr.busy /\ client.port \in Ports
    BY <1>1 DEF LInv, MissOfClient, AInv, TInv, ClientTyped
  <2>2. ~Returned("dma")
    BY <2>1 DEF Returned, LInv, ReaderWaits, Ports
  <2> QED BY <1>1, <2>2, WaitingClock
<1>3. CASE EngineReply
  <2>1. client'.at = "run"
    BY <1>3 DEF EngineWait, EngineReply
  <2>2. Asked = <<>> /\ Asked' = <<>> /\ Reply' = <<>>
    BY <1>1, <1>2, <1>3, <2>1 DEF Asked, Reply, EngineReply
  <2> QED BY <1>1, <2>2, SeenOrNothing
<1>4. CASE ~EngineReply
  <2>1. client' = client /\ Asked = <<client.word>> /\ Reply = <<>>
    BY <1>1, <1>4 DEF EngineWait, EngineReply, Asked, Reply
  <2>2. CASE ~EngineReply'
    <3>1. Asked' = Asked /\ Reply' = <<>>
      BY <1>1, <1>2, <2>1, <2>2 DEF Asked, Reply
    <3> QED BY <1>1, <3>1, SeenOrNothing
  <2>3. CASE EngineReply'
    <3>1. Asked' = <<>> /\ Reply' = <<ret'.data>>
      BY <1>1, <1>2, <2>1, <2>3 DEF Asked, Reply
    <3>2. rd_busy' /\ ret'.at = "valid" /\ rd_owner' = client.port /\ client.port # "dma"
      <4>1. client.port \in Ports
        BY <1>1 DEF AInv, TInv, ClientTyped
      <4> QED BY <2>1, <2>3, <4>1 DEF EngineReply, Returned, Ports
    <3>3. stored' = ddr'
      <4>1. (AInv /\ LInv /\ rd_busy => stored = ddr)'
        BY InMemory, PTL
      <4> QED BY <3>2, <4>1
    <3>4. ret'.data = stored[client.word]
      BY <1>1, <2>1, <3>2, <3>3 DEF LInv, ReadsItsWord, ReadWord
    <3>5. stored[client.word] \in Data
      BY <1>1 DEF AInv, SInv, LInv, AskedWord, Waiting
    <3>6. Reply' = <<[l \in Lanes |-> stored[client.word][l]]>>
      BY <3>1, <3>4, <3>5 DEF Data
    <3>7. Lanes \in SUBSET Lanes /\ Lanes # {}
      BY ArbiterAssumption
    <3> QED BY <1>1, <2>1, <3>1, <3>6, <3>7, AnswersTruly
  <2> QED BY <2>2, <2>3
<1> QED BY <1>3, <1>4

LEMMA AsksSerially ==
  ASSUME Asked = <<>>, stored' = stored, Reply' = <<>>, NEW w \in Words, Asked' = <<w>>
  PROVE  SerialStep
<1>1. Serial!Ask(w)
  BY DEF Serial!Ask, Asked, Reply
<1> QED BY <1>1 DEF Serial!SMNext, SerialStep

LEMMA StoresSerially ==
  ASSUME Asked = <<>>, Asked' = <<>>, Reply' = <<>>, NEW w \in Words, NEW d \in Data,
         stored' = [stored EXCEPT ![w] = d]
  PROVE  SerialStep
<1>1. Serial!Store(w, d) /\ d \in [Lanes -> Values]
  BY DEF Serial!Store, Asked, Reply, Data
<1> QED BY <1>1 DEF Serial!SMNext, SerialStep

LEMMA NextIsSerial ==
  ASSUME AInv, AInv', LInv, LInv', Next PROVE SerialStep
<1>1. CASE DmaPresent
  <2>1. /\ Clock(NoPulse, NoPulse) /\ stored' = stored /\ client.at = "off"
        /\ client' \in DmaWrites \/ client' \in DmaReads
    BY <1>1 DEF DmaPresent, Quietly, Off
  <2>2. Asked = <<>> /\ Reply' = <<>>
    BY <2>1, NothingAsked
  <2>3. CASE client' \in DmaWrites
    <3>1. client'.at = "wr"
      BY <2>3 DEF DmaWrites
    <3>2. Asked' = <<>>
      BY <3>1 DEF Asked
    <3> QED BY <2>1, <2>2, <3>2, SeenOrNothing
  <2>4. CASE client' \in DmaReads
    <3>1. client'.at = "rd" /\ client'.word \in Words
      BY <2>4 DEF DmaReads
    <3>2. Asked' = <<client'.word>>
      BY <3>1 DEF Asked
    <3> QED BY <2>1, <2>2, <3>1, <3>2, AsksSerially
  <2> QED BY <2>1, <2>3, <2>4
<1>2. CASE DmaWriting
  <2>1. Clock(NoPulse, NoPulse) /\ client.at = "wr" /\ client'.at \in {"wr", "off"}
    BY <1>2 DEF DmaWriting, Off, DmaWrites
  <2>2. Asked = <<>> /\ Reply' = <<>> /\ Asked' = <<>>
    BY <2>1, NothingAsked DEF Asked
  <2>3. CASE wa_accept
    <3>1. client.word \in Words /\ client.lane \in Lanes /\ client.byte \in Values
      BY <2>1, ArbiterAssumption DEF AInv, TInv, ClientTyped, DmaWrites
    <3> DEFINE d == [stored[client.word] EXCEPT ![client.lane] = client.byte]
    <3>2. d \in Data
      BY <3>1 DEF AInv, SInv, Data
    <3>3. stored' = [stored EXCEPT ![client.word] = d]
      BY <1>2, <2>3 DEF DmaWriting
    <3> HIDE DEF d
    <3> QED BY <2>2, <3>1, <3>2, <3>3, StoresSerially
  <2>4. CASE ~wa_accept
    BY <1>2, <2>2, <2>4, SeenOrNothing DEF DmaWriting
  <2> QED BY <2>3, <2>4
<1>3. CASE DmaReading
  BY <1>3, DmaReadsSerially
<1>4. ASSUME NEW p \in Ports, EngineStart(p) PROVE SerialStep
  <2>1. Clock(NoPulse, NoPulse) /\ stored' = stored /\ client.at = "off" /\ client'.at = "run"
    BY <1>4 DEF EngineStart, Quietly, Off
  <2>2. Asked = <<>> /\ Reply' = <<>> /\ Asked' = <<>>
    BY <2>1, NothingAsked DEF Asked
  <2> QED BY <2>1, <2>2, SeenOrNothing
<1>5. ASSUME NEW w \in Words, EngineRead(w) PROVE SerialStep
  <2>1. /\ Clock(Pulse(client.port, w), NoPulse) /\ stored' = stored
        /\ client.at = "run" /\ client'.at = "wait" /\ client'.word = w
    BY <1>5 DEF EngineRead
  <2>2. Asked = <<>> /\ Reply' = <<>> /\ ~EngineReply'
    BY <2>1, NothingAsked
  <2>3. Asked' = <<w>>
    BY <2>1, <2>2 DEF Asked
  <2> QED BY <2>1, <2>2, <2>3, AsksSerially
<1>6. ASSUME NEW w \in Words, NEW d \in WordsFor(w), EngineWrite(w, d) PROVE SerialStep
  <2>1. /\ Clock(NoPulse, Pulse(client.port, [word |-> w, lanes |-> Lanes, data |-> d]))
        /\ client.at \in {"run", "second"} /\ client'.at \in {"run", "second"}
        /\ stored' = [stored EXCEPT ![w] = d] /\ d \in Data
    BY <1>6 DEF EngineWrite, WordsFor
  <2>2. Asked = <<>> /\ Reply' = <<>> /\ Asked' = <<>>
    BY <2>1, NothingAsked DEF Asked
  <2> QED BY <2>1, <2>2, StoresSerially
<1>7. CASE EngineWait
  BY <1>7, EngineWaitsSerially
<1>8. CASE Compute
  <2>1. /\ Clock(NoPulse, NoPulse) /\ stored' = stored
        /\ client.at \in {"off", "run"} /\ client'.at \in {"off", "run"}
    BY <1>8 DEF Compute, Quietly, Off
  <2>2. Asked = <<>> /\ Reply' = <<>> /\ Asked' = <<>>
    BY <2>1, NothingAsked DEF Asked
  <2> QED BY <2>1, <2>2, SeenOrNothing
<1> QED BY <1>1, <1>2, <1>3, <1>4, <1>5, <1>6, <1>7, <1>8 DEF Next

\* Whoever reads, through the port of an engine or the byte stream, through the
\* cache or from the memory, is answered once, with what was stored last,
\* wherever that still was.
THEOREM SerialTheorem == Spec => ImplementsSerial
<1>1. AInv /\ LInv /\ [Next]_vars => AInv' /\ LInv'
  <2>1. ASSUME AInv, LInv, Next PROVE AInv' /\ LInv'
    BY <2>1, ArbiterKeeps, NextKeepsLInv
  <2>2. ASSUME AInv, LInv, UNCHANGED vars PROVE AInv' /\ LInv'
    <3>1. AInv'
      BY <2>2, ArbiterKeeps
    <3>2. LInv'
      BY <2>2 DEF vars, arbiter, LInv, CacheTrue, MissOfClient, ReaderWaits, ReadsItsWord,
                  AskedWord, NoStaleReply, NoWrites, Waiting, ReadWord, ReadCommand, Issued
    <3> QED BY <3>1, <3>2
  <2> QED BY <2>1, <2>2
<1>2. AInv /\ AInv' /\ LInv /\ LInv' /\ [Next]_vars => [Serial!SMNext]_(Serial!smvars)
  <2>1. ASSUME AInv, AInv', LInv, LInv', Next PROVE [Serial!SMNext]_(Serial!smvars)
    <3>1. SerialStep
      BY <2>1, NextIsSerial
    <3> QED BY <3>1 DEF SerialStep, Serial!smvars, Asked, Reply
  <2>2. ASSUME UNCHANGED vars PROVE UNCHANGED Serial!smvars
    BY <2>2 DEF vars, arbiter, Serial!smvars, EngineReply, Returned
  <2> QED BY <2>1, <2>2
<1> QED BY <1>1, <1>2, StartsSerial, ArbiterStarts, ReadsStart, PTL
        DEF Spec, ImplementsSerial, Serial!SMSpec
=============================================================================
