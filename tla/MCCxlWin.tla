------------------------------ MODULE MCCxlWin ------------------------------
(***************************************************************************)
(* Instances of CxlWin for TLC.                                            *)
(***************************************************************************)
EXTENDS CxlWin, TLC

AllCalls == {"release", "acquire", "flush", "prefetch", "invalidate"}
Succeeds == {TRUE}
MayFail  == {TRUE, FALSE}

ThreadSymmetry == Permutations(Threads)

(***************************************************************************)
(* A program without data races: every thread loads and stores a page of   *)
(* its own.                                                                *)
(***************************************************************************)
HomePage == [t \in Threads |-> IF t = CHOOSE u \in Threads : TRUE THEN 0 ELSE 1]

Private == \A t \in Threads : pc'[t] = "access" => req'[t].a = HomePage[t]

PrivateSpec == Init /\ [][Next /\ Private]_vars

(***************************************************************************)
(* One thread loads and stores, another only flushes.                      *)
(***************************************************************************)
Flusher == CHOOSE t \in Threads : TRUE

Helped == \A t \in Threads : pc[t] = "user" /\ pc'[t] # "user" =>
            (req'[t].op = "flush" <=> t = Flusher)

FlusherSpec == Init /\ [][Next /\ Helped]_vars
=============================================================================
