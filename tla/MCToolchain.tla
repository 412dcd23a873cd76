---------------------------- MODULE MCToolchain ----------------------------
EXTENDS Toolchain

\* Rates per time of a byte on the link (UART: 12 Mbaud, GPU 170 GFLOP/s ...).
Uart == [gpu |-> 170000000, fpga |-> 9635, ddr |-> 112847, rtt |-> 92, launch |-> 0,
         ddr2 |-> 134217728, host |-> 0, prefetch |-> 1, resident |-> FALSE]
\* A link and devices balanced so that every placement is used.
Balanced == [Uart EXCEPT !.gpu = 2000, !.fpga = 100, !.ddr = 13, !.rtt = 1000, !.launch = 500]

Everything == {"gpu", "pool", "fpga"}
Mlp(n, hidden) == [kind |-> "mlp", input |-> 16, hidden |-> hidden, output |-> 16,
                        layers |-> n, batch |-> 1]
Dlrm(kind, cols) == [kind |-> kind, tables |-> 2, rows |-> 2, cols |-> cols, dense |-> 16,
                     batch |-> 1]
Foreign(activation) == [kind |-> "exported", input |-> 16, hidden |-> 64, output |-> 16,
                        layers |-> 2, batch |-> 1, activation |-> activation]

Host == [mode |-> "host", warm |-> FALSE, prefetch |-> 1]
Nmc  == [Host EXCEPT !.mode = "nmc"]
Pool(warm, prefetch) == [mode |-> "pool", warm |-> warm, prefetch |-> prefetch]

\* Place only, with every memory budget; then lower and run.
Job == [hw |-> Balanced, build |-> Mlp(2, 64), batch |-> 1, permissive |-> FALSE,
        allowed |-> Everything, bucket |-> 0, max_states |-> 9, lower |-> FALSE,
        streaming |-> FALSE, retrain |-> FALSE, linkfails |-> FALSE, runs |-> {},
        tool |-> "place", slashed |-> FALSE]

Placed == {[Job EXCEPT !.hw = [h EXCEPT !.ddr2 = d, !.host = b, !.resident = r, !.prefetch = p],
                       !.bucket = k] :
             h \in {Balanced, Uart}, d \in {4200, 9000}, b \in {0, 5000}, r \in BOOLEAN,
             p \in {1, 4}, k \in {0, 1000}}

PlacedDlrm == {[Job EXCEPT !.build = Dlrm("dlrm", 16), !.allowed = a,
                           !.hw = [Balanced EXCEPT !.ddr2 = 300000, !.host = 100000, !.resident = r]] :
                 a \in {{"gpu", "fpga"}, {"gpu", "pool"}, {"gpu"}}, r \in BOOLEAN}

Refused == {[Job EXCEPT !.build = Foreign("Custom")],
            [Job EXCEPT !.build = Foreign("Custom"), !.permissive = TRUE],
            [Job EXCEPT !.allowed = {"fpga"}],
            [Job EXCEPT !.build = Foreign("Gelu"), !.lower = TRUE],
            [Job EXCEPT !.build = Dlrm("dlrm", 8), !.lower = TRUE, !.allowed = {"gpu", "fpga"}],
            [Job EXCEPT !.build = Foreign("Flatten"), !.lower = TRUE],
            [Job EXCEPT !.build = Mlp(8, 256), !.lower = TRUE, !.allowed = {"gpu"}]}

Run0 == [Job EXCEPT !.lower = TRUE, !.runs = {Host, Nmc, Pool(FALSE, 4), Pool(TRUE, 1)}]

Executed == {[Run0 EXCEPT !.retrain = TRUE, !.linkfails = TRUE],
             [Run0 EXCEPT !.build = Mlp(3, 64), !.streaming = TRUE, !.linkfails = TRUE,
                          !.allowed = {"gpu", "fpga"}],
             [Run0 EXCEPT !.build = Mlp(1, 16), !.retrain = TRUE],
             [Run0 EXCEPT !.build = Dlrm("dlrm", 16), !.allowed = {"gpu", "fpga"}],
             [Run0 EXCEPT !.build = Dlrm("dlrm_streaming", 16), !.streaming = TRUE,
                          !.allowed = {"gpu", "pool"}]}

\* The baselines and the profiler, on the models they can be given.
Compared == {[Job EXCEPT !.tool = t, !.build = m] :
               t \in {"offload", "swap", "profile"},
               m \in {Mlp(2, 64), Dlrm("dlrm", 16), Foreign("Custom"), Foreign("Gelu")}}
              \cup {[Job EXCEPT !.tool = "swap", !.build = Foreign("Gelu"), !.slashed = TRUE]}

AllJobs == Compared \cup Placed \cup PlacedDlrm \cup Refused \cup Executed
TightJobs == {[Job EXCEPT !.hw.host = b, !.hw.ddr2 = d] : b \in {0, 5000}, d \in {4200, 9000}}
=============================================================================
