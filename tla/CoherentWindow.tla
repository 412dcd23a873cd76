--------------------------- MODULE CoherentWindow ---------------------------
(***************************************************************************)
(* What a cxlwin window promises a program: one coherent copy of every     *)
(* page, whose owner is either the host or the device's NMC engine.        *)
(* cxlwin.h states it as page states; here there are none.                 *)
(*   mem[p]     what a load of page p must return                          *)
(*   backing[p] what the device's memory holds                             *)
(*   lent       pages in device bias: the engine may write them            *)
(*   call[t]    what thread t has asked for and not yet been granted       *)
(*   failed[t]  that call is going to return -1                            *)
(*   rd[t]      what the last load of t returned                           *)
(***************************************************************************)
EXTENDS Integers

CONSTANTS Threads, Pages, Values, Requests, NoRequest

VARIABLES mem, backing, lent, call, failed, rd

cvars == <<mem, backing, lent, call, failed, rd>>

Range(t) == call[t].a .. call[t].b

Covers(t, p, ops) == call[t].op \in ops /\ p \in Range(t)

CInit ==
  /\ backing \in [Pages -> Values]
  /\ mem = backing
  /\ lent = {}
  /\ call = [t \in Threads |-> NoRequest]
  /\ failed = [t \in Threads |-> FALSE]
  /\ rd \in [Threads -> Values]

\* An acquire takes its pages back the moment it is called.
Invoke(t) ==
  /\ call[t] = NoRequest
  /\ \E r \in Requests :
       /\ call' = [call EXCEPT ![t] = r]
       /\ lent' = IF r.op = "acquire" THEN lent \ (r.a .. r.b) ELSE lent
  /\ UNCHANGED <<mem, backing, failed, rd>>

Load(t) ==
  /\ call[t].op = "load"
  /\ rd' = [rd EXCEPT ![t] = mem[call[t].a]]
  /\ call' = [call EXCEPT ![t] = NoRequest]
  /\ UNCHANGED <<mem, backing, lent, failed>>

Store(t) ==
  /\ call[t].op = "store"
  /\ mem' = [mem EXCEPT ![call[t].a] = call[t].val]
  /\ call' = [call EXCEPT ![t] = NoRequest]
  /\ UNCHANGED <<backing, lent, failed, rd>>

\* The device is brought up to date only for a flush or a release.
WriteBack(t, p) ==
  /\ Covers(t, p, {"flush", "release"})
  /\ backing' = [backing EXCEPT ![p] = mem[p]]
  /\ UNCHANGED <<mem, lent, call, failed, rd>>

Fail(t) ==
  /\ call[t].op \in {"flush", "release", "prefetch"}
  /\ failed' = [failed EXCEPT ![t] = TRUE]
  /\ UNCHANGED <<mem, backing, lent, call, rd>>

\* A program's stores are dropped when it asks for it, or by a release that
\* will report failure.  By nothing else.
Discard(t, p) ==
  /\ \/ Covers(t, p, {"invalidate"})
     \/ Covers(t, p, {"release"}) /\ failed[t]
  /\ mem' = [mem EXCEPT ![p] = backing[p]]
  /\ UNCHANGED <<backing, lent, call, failed, rd>>

\* A flush or a release that returns 0 has left the device up to date.
Return(t) ==
  /\ call[t].op \in {"release", "acquire", "flush", "prefetch", "invalidate"}
  /\ call[t].op \in {"flush", "release"} /\ ~failed[t] =>
       \A p \in Range(t) : mem[p] = backing[p]
  /\ lent' = IF call[t].op = "release" THEN lent \cup Range(t) ELSE lent
  /\ call' = [call EXCEPT ![t] = NoRequest]
  /\ failed' = [failed EXCEPT ![t] = FALSE]
  /\ UNCHANGED <<mem, backing, rd>>

EngineStore(p, v) ==
  /\ p \in lent
  /\ mem' = [mem EXCEPT ![p] = v]
  /\ backing' = [backing EXCEPT ![p] = v]
  /\ UNCHANGED <<lent, call, failed, rd>>

CNext ==
  \/ \E t \in Threads : Invoke(t) \/ Load(t) \/ Store(t) \/ Fail(t) \/ Return(t)
  \/ \E t \in Threads, p \in Pages : WriteBack(t, p) \/ Discard(t, p)
  \/ \E p \in Pages, v \in Values : EngineStore(p, v)

CSpec == CInit /\ [][CNext]_cvars
=============================================================================
