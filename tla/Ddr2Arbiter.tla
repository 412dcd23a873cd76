----------------------------- MODULE Ddr2Arbiter -----------------------------
(***************************************************************************)
(* ddr2_arbiter.v: two engine ports and the byte stream of the EdgeCoh     *)
(* controller share one memory.  A step is a clock edge of the memory's    *)
(* clock.  A byte address is a word and a lane of it.                      *)
(*                                                                         *)
(* Around it: the memory controller, which takes a command and its data at *)
(* different clocks and answers a read when it likes; the engines, one of  *)
(* which runs at a time; the byte stream, which is quiet while one does.   *)
(***************************************************************************)
EXTENDS Integers, Sequences

CONSTANTS
  Words, Lanes,      \* addresses (2^23 words of 16 lanes in the code)
  Values,            \* of a byte
  Stores,            \* bound: <<word, lane, value>> that a client may store
  WA_IDLE_LIMIT      \* clocks a byte may stay staged (31 in the code)

ASSUME ArbiterAssumption ==
  /\ Words # {} /\ Lanes # {} /\ 0 \in Values
  /\ Stores \subseteq Words \X Lanes \X Values
  /\ WA_IDLE_LIMIT \in Nat \ {0}

VARIABLES
  ddr,          \* what the memory holds
  mig,          \* the command presented to it
  ret,          \* the read it works on
  rd_busy, rd_owner,
  wq,           \* per engine port: nmc_wq, mac_wq
  rd_req,       \* per engine port: nmc_rd_req, mac_rd_req: <<word>>, or <<>>
  wa,           \* DMA write assembler
  rc,           \* DMA read cache
  dr,           \* DMA read miss
  out,          \* dma_rd_valid and dma_rd_byte: <<the lane>>, or <<>>
  client,       \* what the one active client is doing
  stored        \* history: what the clients have stored

arbiter == <<mig, rd_busy, rd_owner, wq, rd_req, wa, rc, dr, out>>
vars    == <<ddr, ret, arbiter, client, stored>>

Ports  == {"nmc", "mac"}
Data   == [Lanes -> Values]
Zeroes == [l \in Lanes |-> 0]

NoCommand == [issuing |-> FALSE]
NoReturn  == [at |-> "none"]
Off       == [at |-> "off"]

Init ==
  /\ ddr = [w \in Words |-> Zeroes]
  /\ mig = NoCommand /\ ret = NoReturn
  /\ rd_busy = FALSE /\ rd_owner = "nmc"
  /\ wq = [p \in Ports |-> <<>>] /\ rd_req = [p \in Ports |-> <<>>]
  /\ wa = [valid |-> FALSE, flush |-> FALSE]
  /\ rc = [valid |-> FALSE] /\ dr = [busy |-> FALSE, req |-> FALSE]
  /\ out = <<>> /\ client = Off
  /\ stored = ddr

-----------------------------------------------------------------------------
(***************************************************************************)
(* The wires.  Registers that are not valid are left out of their records: *)
(* nothing reads them.                                                     *)
(***************************************************************************)
dma_wr_en == client.at = "wr"
dma_rd_en == client.at = "rd"

\* The staged word is the one the byte belongs to.
wa_same == wa.valid /\ client.word = wa.word

dma_wr_ready == ~wa.flush /\ (~wa.valid \/ wa_same)
wa_accept    == dma_wr_en /\ dma_wr_ready

rc_hit       == rc.valid /\ client.word = rc.word
dma_rd_ready == ~dr.busy /\ ~wa.valid /\ ~wa.flush
dr_accept    == dma_rd_en /\ dma_rd_ready

\* The owner of the word that the memory returns in this clock.
Returned(owner) == ret.at = "valid" /\ rd_busy /\ rd_owner = owner

(***************************************************************************)
(* Static priority.                                                        *)
(***************************************************************************)
PriorityReadsFirst == <<"nmc_rd", "nmc_wr", "mac_rd", "mac_wr", "flush", "dma_rd">>

Priority == <<"nmc_wr", "nmc_rd", "mac_wr", "mac_rd", "flush", "dma_rd">>

Wants ==
  [nmc_wr |-> wq["nmc"] # <<>>, nmc_rd |-> rd_req["nmc"] # <<>> /\ ~rd_busy,
   mac_wr |-> wq["mac"] # <<>>, mac_rd |-> rd_req["mac"] # <<>> /\ ~rd_busy,
   flush  |-> wa.flush,         dma_rd |-> dr.req /\ ~rd_busy]

\* What is issued in this clock.
Issues(k) ==
  /\ ~mig.issuing
  /\ \E i \in DOMAIN Priority :
       /\ k = Priority[i] /\ Wants[k]
       /\ \A j \in 1 .. i - 1 : ~Wants[Priority[j]]

WriteOf(p) == IF p = "nmc" THEN "nmc_wr" ELSE "mac_wr"
ReadOf(p)  == IF p = "nmc" THEN "nmc_rd" ELSE "mac_rd"

IssuesWrite == Issues("nmc_wr") \/ Issues("mac_wr") \/ Issues("flush")
IssuesRead  == Issues("nmc_rd") \/ Issues("mac_rd") \/ Issues("dma_rd")

-----------------------------------------------------------------------------
(***************************************************************************)
(* The memory's side: issue, handshake, return.                            *)
(***************************************************************************)
Present(write, e) ==
  mig' = [issuing |-> TRUE, en |-> TRUE, wren |-> write, write |-> write, entry |-> e]

ReadEntry(w) == [word |-> w]

Overlay(m, e) ==
  [m EXCEPT ![e.word] = [l \in Lanes |-> IF l \in e.lanes THEN e.data[l] ELSE @[l]]]

MigIdle ==
  /\ ~mig.issuing /\ ~IssuesWrite /\ ~IssuesRead
  /\ UNCHANGED <<mig, ddr>>

MigIssue ==
  /\ \/ \E p \in Ports : Issues(WriteOf(p)) /\ Present(TRUE, Head(wq[p]))
     \/ \E p \in Ports : Issues(ReadOf(p)) /\ Present(FALSE, ReadEntry(rd_req[p][1]))
     \/ /\ Issues("flush")
        /\ Present(TRUE, [word |-> wa.word, lanes |-> wa.lanes, data |-> wa.data])
     \/ Issues("dma_rd") /\ Present(FALSE, ReadEntry(dr.word))
  /\ UNCHANGED ddr

\* app_en and app_wdf_wren are held until each is taken; the write has its
\* effect when both have been.
MigHandshake ==
  /\ mig.issuing
  /\ \E rdy, wdf_rdy \in BOOLEAN :
       LET en   == mig.en /\ ~rdy
           wren == mig.wren /\ ~wdf_rdy
       IN IF en \/ wren
          THEN mig' = [mig EXCEPT !.en = en, !.wren = wren] /\ UNCHANGED ddr
          ELSE /\ mig' = NoCommand
               /\ ddr' = IF mig.write THEN Overlay(ddr, mig.entry) ELSE ddr

\* A read taken is answered at some later clock, for one clock.
MigReturn ==
  CASE ret.at = "none"    -> ret' = IF mig.issuing /\ ~mig.write /\ ~mig'.issuing
                                    THEN [at |-> "queued", data |-> ddr[mig.entry.word]]
                                    ELSE NoReturn
    [] ret.at = "queued"  -> ret' \in {ret, [ret EXCEPT !.at = "valid"]}
    [] ret.at = "valid"   -> ret' = NoReturn

Mig == (MigIdle \/ MigIssue \/ MigHandshake) /\ MigReturn

ReadTagStuck ==
  /\ rd_busy' = (IssuesRead \/ rd_busy)
  /\ rd_owner' = CASE Issues("nmc_rd") -> "nmc" [] Issues("mac_rd") -> "mac"
                   [] Issues("dma_rd") -> "dma" [] OTHER -> rd_owner

ReadTag ==
  /\ rd_busy' = (IssuesRead \/ (rd_busy /\ ret.at # "valid"))
  /\ rd_owner' = CASE Issues("nmc_rd") -> "nmc" [] Issues("mac_rd") -> "mac"
                   [] Issues("dma_rd") -> "dma" [] OTHER -> rd_owner

-----------------------------------------------------------------------------
(***************************************************************************)
(* The ports.  rd and wr are the pulses of this clock: what port p reads,  *)
(* what it writes.                                                         *)
(***************************************************************************)
NoPulse == [p \in Ports |-> <<>>]
Pulse(q, x) == [NoPulse EXCEPT ![q] = <<x>>]

\* Pop and push may coincide.
Queues(wr) ==
  wq' = [p \in Ports |-> (IF Issues(WriteOf(p)) THEN Tail(wq[p]) ELSE wq[p]) \o wr[p]]

ReadRequests(rd) ==
  rd_req' = [p \in Ports |-> IF rd[p] # <<>> THEN rd[p]
                             ELSE IF Issues(ReadOf(p)) THEN <<>> ELSE rd_req[p]]

FlushTrigger ==
  wa.valid /\ ~wa.flush /\ ((dma_wr_en /\ ~wa_same) \/ wa.idle = WA_IDLE_LIMIT \/ dma_rd_en)

MergeUnmasked ==
  LET old == IF wa.valid THEN wa.data ELSE Zeroes
  IN [valid |-> TRUE, word |-> client.word, idle |-> 0, flush |-> FlushTrigger,
      data  |-> [old EXCEPT ![client.lane] = client.byte], lanes |-> Lanes]

Merge ==
  LET old == IF wa.valid THEN wa.data ELSE Zeroes
  IN [valid |-> TRUE, word |-> client.word, idle |-> 0, flush |-> FlushTrigger,
      data  |-> [old EXCEPT ![client.lane] = client.byte],
      lanes |-> (IF wa.valid THEN wa.lanes ELSE {}) \cup {client.lane}]

AssemblerKeepsRequest ==
  wa' = IF wa_accept THEN Merge
        ELSE IF Issues("flush") THEN [wa EXCEPT !.valid = FALSE]
        ELSE IF ~wa.valid THEN wa
        ELSE [wa EXCEPT !.flush = @ \/ FlushTrigger,
                        !.idle  = IF @ # WA_IDLE_LIMIT THEN @ + 1 ELSE @]

AssemblerCountsOn ==
  wa' = IF wa_accept THEN Merge
        ELSE IF Issues("flush") THEN [valid |-> FALSE, flush |-> FALSE]
        ELSE IF ~wa.valid THEN wa
        ELSE [wa EXCEPT !.flush = @ \/ FlushTrigger, !.idle = @ + 1]

Assembler ==
  wa' = IF wa_accept THEN Merge
        ELSE IF Issues("flush") THEN [valid |-> FALSE, flush |-> FALSE]
        ELSE IF ~wa.valid THEN wa
        ELSE [wa EXCEPT !.flush = @ \/ FlushTrigger,
                        !.idle  = IF @ # WA_IDLE_LIMIT THEN @ + 1 ELSE @]

\* A write to the memory invalidates the cache, also in the clock in which it
\* is filled.
CacheKeptByFlush ==
  rc' = IF Issues("nmc_wr") \/ Issues("mac_wr") THEN [valid |-> FALSE]
        ELSE IF Returned("dma") THEN [valid |-> TRUE, word |-> dr.word, data |-> ret.data]
        ELSE rc

Cache ==
  rc' = IF IssuesWrite THEN [valid |-> FALSE]
        ELSE IF Returned("dma") THEN [valid |-> TRUE, word |-> dr.word, data |-> ret.data]
        ELSE rc

DmaRead ==
  /\ dr' = IF dr_accept /\ ~rc_hit
           THEN [busy |-> TRUE, req |-> TRUE, word |-> client.word, lane |-> client.lane]
           ELSE IF Returned("dma") THEN [busy |-> FALSE, req |-> FALSE]
           ELSE [dr EXCEPT !.req = @ /\ ~Issues("dma_rd")]
  /\ out' = IF dr_accept /\ rc_hit THEN <<[l \in {client.lane} |-> rc.data[l]]>>
            ELSE IF Returned("dma") THEN <<[l \in {dr.lane} |-> ret.data[l]]>>
            ELSE <<>>

Clock(rd, wr) ==
  /\ Mig /\ ReadTag
  /\ Queues(wr) /\ ReadRequests(rd)
  /\ Assembler /\ Cache /\ DmaRead

Quietly == Clock(NoPulse, NoPulse) /\ UNCHANGED stored

-----------------------------------------------------------------------------
(***************************************************************************)
(* The clients.  The controller starts an engine, or the next transfer,    *)
(* only after a message has gone over the UART: thousands of clocks, in    *)
(* which the arbiter comes to rest.                                        *)
(***************************************************************************)
AtRest ==
  /\ ~mig.issuing /\ ~rd_busy /\ ret.at = "none" /\ ~wa.valid
  /\ \A p \in Ports : wq[p] = <<>> /\ rd_req[p] = <<>>

DmaWrites == {[at |-> "wr", word |-> b[1], lane |-> b[2], byte |-> b[3]] : b \in Stores}
DmaReads  == [at : {"rd"}, word : Words, lane : Lanes]

\* The words an engine may write at w.
WordsFor(w) == {d \in Data : \A l \in Lanes : <<w, l, d[l]>> \in Stores}

\* A byte to write or to read comes out of its FIFO.
DmaPresent ==
  /\ client = Off
  /\ client' \in DmaWrites \cup DmaReads
  /\ Quietly

\* It is held until the arbiter is ready; the FIFO may hold another.
DmaWriting ==
  /\ client.at = "wr"
  /\ IF wa_accept
     THEN /\ client' \in DmaWrites \cup {Off}
          /\ stored' = [stored EXCEPT ![client.word][client.lane] = client.byte]
     ELSE UNCHANGED <<client, stored>>
  /\ Clock(NoPulse, NoPulse)

DmaReading ==
  /\ client.at \in {"rd", "rdwait"}
  /\ Quietly
  /\ client' = IF out' # <<>> THEN Off
               ELSE IF dr_accept THEN [at |-> "rdwait", word |-> client.word]
               ELSE client

EngineStart(p) ==
  /\ client = Off /\ AtRest
  /\ client' = [at |-> "run", port |-> p, wrote |-> TRUE]
  /\ Quietly

\* Every engine reads before it writes again (mac_controller.v,
\* eltwise_controller.v, embedding_lookup.v).
EngineRead(w) ==
  /\ client.at = "run"
  /\ client' = [at |-> "wait", port |-> client.port, word |-> w]
  /\ Clock(Pulse(client.port, w), NoPulse)
  /\ UNCHANGED stored

EngineWait ==
  /\ client.at = "wait"
  /\ client' = IF Returned(client.port)
               THEN [at |-> "run", port |-> client.port, wrote |-> FALSE] ELSE client
  /\ Quietly

\* The MAC controller writes two words in consecutive clocks (S_WR0, S_WR1),
\* the other engines one.
EngineWrite(w, d) ==
  /\ \/ client.at = "run" /\ ~client.wrote
     \/ client.at = "second"
  /\ client' = IF client.at = "run" /\ client.port = "mac"
               THEN [at |-> "second", port |-> "mac"]
               ELSE [at |-> "run", port |-> client.port, wrote |-> TRUE]
  /\ Clock(NoPulse, Pulse(client.port, [word |-> w, lanes |-> Lanes, data |-> d]))
  /\ stored' = [stored EXCEPT ![w] = d]

\* A clock in which no client asks for anything. An engine that is done gives
\* way to the next client once the controller has told the host.
Compute ==
  /\ client.at \in {"off", "run"}
  /\ client' = client \/ (AtRest /\ client' = Off)
  /\ Quietly

Next ==
  \/ DmaPresent \/ DmaWriting \/ DmaReading
  \/ \E p \in Ports : EngineStart(p)
  \/ \E w \in Words : EngineRead(w)
  \/ \E w \in Words : \E d \in WordsFor(w) : EngineWrite(w, d)
  \/ EngineWait \/ Compute

Spec == Init /\ [][Next]_vars

\* The memory takes what is presented and returns what was read.
Answers ==
  /\ Next
  /\ mig.issuing => ~mig'.issuing
  /\ ret.at = "queued" => ret'.at = "valid"

FairSpec == Spec /\ WF_vars(Answers)

-----------------------------------------------------------------------------
Entries == [word : Words, lanes : SUBSET Lanes, data : Data]

TypeOK ==
  /\ ddr \in [Words -> Data]
  /\ \/ mig = NoCommand
     \/ mig \in [issuing : {TRUE}, en : BOOLEAN, wren : BOOLEAN, write : {TRUE}, entry : Entries]
     \/ mig \in [issuing : {TRUE}, en : BOOLEAN, wren : BOOLEAN, write : {FALSE},
                 entry : [word : Words]]
  /\ ret = NoReturn \/ ret \in [at : {"queued", "valid"}, data : Data]
  /\ rd_busy \in BOOLEAN /\ rd_owner \in Ports \cup {"dma"}
  /\ \A p \in Ports : rd_req[p] \in {<<>>} \cup {<<w>> : w \in Words}
  /\ \A p \in Ports : \A i \in DOMAIN wq[p] : wq[p][i] \in Entries
  /\ wa.valid => wa.idle \in 0 .. WA_IDLE_LIMIT /\ wa.lanes \in SUBSET Lanes
  /\ out = <<>> \/ \E l \in Lanes : out[1] \in [{l} -> Values]

\* No write pulse finds its two-entry queue full (ddr2_arbiter.v:93-96), for
\* the pairs that mac_controller.v sends come after a read that waited behind
\* the pair before.
QueuesFit == \A p \in Ports : Len(wq[p]) <= 2

\* Exactly one read is under way while rd_busy is set, none otherwise: the tag
\* is never changed under a word that is still to come.
OneRead ==
  rd_busy <=> (mig.issuing /\ ~mig.write) \/ ret.at # "none"

\* Stores that the memory has not taken yet, in the order it will take them.
Pending ==
  (IF mig.issuing /\ mig.write THEN <<mig.entry>> ELSE <<>>)
    \o wq["nmc"] \o wq["mac"]
    \o (IF wa.valid THEN <<[word |-> wa.word, lanes |-> wa.lanes, data |-> wa.data]>> ELSE <<>>)

\* Nothing a client stored is lost, reordered or joined by anything else: the
\* memory with what is on its way there is what has been stored.
StoresKept ==
  LET pending == Pending
      Covers(w, l) == {i \in DOMAIN pending : pending[i].word = w /\ l \in pending[i].lanes}
  IN \A w \in Words, l \in Lanes :
       stored[w][l] =
         IF Covers(w, l) = {} THEN ddr[w][l]
         ELSE pending[CHOOSE i \in Covers(w, l) : \A j \in Covers(w, l) : j <= i].data[l]

\* Every read is answered and every byte to be written is taken, although
\* bytes wait behind a flush, a flush behind the engines' queues and all of
\* them behind a memory that may make them wait.
RequestsComplete ==
  /\ client.at \in {"rd", "rdwait", "wait"} ~> client.at \in {"off", "run"}
  /\ dma_wr_en ~> wa_accept

-----------------------------------------------------------------------------
(***************************************************************************)
(* Reads return what was stored last, whoever stored it and wherever it    *)
(* still is: memory, command, queue or assembler.                          *)
(***************************************************************************)
EngineReply == client.at = "wait" /\ Returned(client.port)

Serial ==
  INSTANCE SerialMemory WITH
    mem   <- stored,
    asked <- IF client.at \in {"rd", "rdwait"} \/ (client.at = "wait" /\ ~EngineReply)
             THEN <<client.word>> ELSE <<>>,
    reply <- IF out # <<>> THEN out
             ELSE IF EngineReply THEN <<ret.data>> ELSE <<>>

ImplementsSerial == Serial!SMSpec
=============================================================================
