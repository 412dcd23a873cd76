---------------------------- MODULE CxlWinProofs ----------------------------
(***************************************************************************)
(* What TLAPS proves about CxlWin, for any set of threads, any number of   *)
(* pages and any prefetch depth.                                           *)
(***************************************************************************)
EXTENDS CxlWin, TLAPS, FiniteSetTheorems

\* The invariant every theorem below starts from.
Base == TypeOK /\ CursorOnPage /\ ServiceServesFaults

USE DEF Workers, Pages, memory, handoff, section, vars, Goto, Fill, Mprotect,
        Request, NoRequest, Span

LEMMA RequestFacts ==
  /\ NoRequest \in RequestType
  /\ Requests \subseteq RequestType
  /\ \A p \in Pages : Request("fault", p, p, Zero) \in RequestType
  /\ \A r \in RequestType : r.a \in Pages /\ r.b \in Pages /\ r.val \in Values
  /\ NoRequest.op = "none"
  /\ \A r \in Requests : r.op # "fault"
BY ConstantsOK DEF RequestType, Requests

LEMMA PageInLoop ==
  ASSUME TypeOK, NEW w \in Workers, NEW ops, AtPage(w, ops)
  PROVE  cur \in Pages
BY ConstantsOK, RequestFacts DEF TypeOK, AtPage

LEMMA InitBase == ASSUME Init PROVE Base
BY ConstantsOK, RequestFacts DEF Init, Base, TypeOK, CursorOnPage, ServiceServesFaults,
                     InSection, States, Prots, PCs

\* The access path of a thread.
LEMMA ThreadBase ==
  ASSUME Base, NEW t \in Threads,
         Issue(t) \/ Access(t) \/ Fault(t)
  PROVE  Base'
<1> USE ConstantsOK, RequestFacts DEF Base, TypeOK, CursorOnPage, ServiceServesFaults,
                         InSection, States, Prots, PCs
<1> HIDE DEF NoRequest, Request, Fill
<1>1. CASE Issue(t)
  <2>1. PICK r \in Requests :
          /\ req' = [req EXCEPT ![t] = r]
          /\ Goto(t, IF r.op \in {"load", "store"} THEN "access" ELSE "lock")
          /\ lent' = IF r.op = "acquire" THEN lent \ (r.a .. r.b) ELSE lent
    BY <1>1 DEF Issue
  <2>2. req' \in [Workers -> RequestType]
    BY <2>1
  <2>3. pc' \in [Workers -> PCs] /\ lent' \in SUBSET Pages
    BY <2>1
  <2>4. TypeOK'
    BY <1>1, <2>2, <2>3 DEF Issue
  <2>5. (CursorOnPage /\ ServiceServesFaults)'
    BY <1>1 DEF Issue, IsFetch
  <2> QED
    BY <2>4, <2>5
<1>2. CASE Access(t)
  <2>1. TypeOK'
    BY <1>2, ZenonT(40) DEF Access
  <2>2. (CursorOnPage /\ ServiceServesFaults)'
    BY <1>2 DEF Access, IsFetch
  <2> QED
    BY <2>1, <2>2
<1>3. CASE Trap(t)
  BY <1>3 DEF Trap, IsFetch
<1>4. CASE Enqueue(t)
  BY <1>4 DEF Enqueue, IsFetch
<1>5. CASE Wake(t)
  BY <1>5 DEF Wake, IsFetch
<1> QED
  BY <1>1, <1>2, <1>3, <1>4, <1>5 DEF Fault

LEMMA StartFetchBase ==
  ASSUME Base, NEW w \in Workers, NEW S \in SUBSET Pages,
         lock = w, pc[w] = "step", IsFetch(w), StartFetch(w, S),
         cur' \in 0 .. NPages
  PROVE  Base'
<1> USE ConstantsOK DEF Base, TypeOK, CursorOnPage, ServiceServesFaults,
                         InSection, States, Prots, PCs
<1> HIDE DEF NoRequest, Request, Fill, Mprotect
<1> DEFINE run == FetchRun(S)
<1>1. run \in SUBSET Pages
  BY DEF FetchRun
<1>2. PICK ok \in MprotectResults :
        /\ Mprotect(run, "RW", ok)
        /\ io' = IF ok THEN run ELSE {}
        /\ rc' = IF ok THEN rc ELSE -1
        /\ Goto(w, IF ok THEN "io" ELSE AfterFetch(w))
  BY DEF StartFetch
<1>3. state' \in [Pages -> States]
  BY DEF StartFetch, Fill
<1>4. prot' \in [Pages -> Prots]
  BY <1>2 DEF Mprotect, Fill
<1>5. io' \in SUBSET Pages /\ rc' \in {0, -1}
  BY <1>1, <1>2
<1>6. pc' \in [Workers -> PCs] /\ pc'[w] \in {"io", "unlock", "step"}
  BY <1>2 DEF AfterFetch
<1>7. TypeOK'
  BY <1>3, <1>4, <1>5, <1>6 DEF StartFetch
<1>8. req[w].op = "fault" => pc'[w] # "step"
  BY <1>2 DEF AfterFetch
<1> QED
  BY <1>6, <1>7, <1>8 DEF StartFetch, IsFetch

\* The steps every holder of the mutex takes, the backend's included.
LEMMA SectionBase ==
  ASSUME Base, NEW w \in Workers, Locked(w) \/ Backend(w)
  PROVE  Base'
<1> USE ConstantsOK, RequestFacts DEF Base, TypeOK, CursorOnPage, ServiceServesFaults,
                         InSection, States, Prots, PCs
<1> HIDE DEF NoRequest, Request, Fill, Mprotect
<1>1. CASE Acquire(w)
  BY <1>1 DEF Acquire, IsFetch
<1>2. CASE Unlock(w)
  <2>1. req' \in [Workers -> RequestType] /\ pc' \in [Workers -> PCs]
    BY <1>2 DEF Unlock
  <2>2. lent' \in SUBSET Pages
    <3>1. Span(w) \in SUBSET Pages
      OBVIOUS
    <3> QED
      BY <1>2, <3>1 DEF Unlock
  <2>3. TypeOK'
    BY <1>2, <2>1, <2>2 DEF Unlock
  <2> QED
    BY <1>2, <2>3 DEF Unlock, IsFetch
<1>3. CASE FetchDone(w)
  <2>1. state' \in [Pages -> States]
    BY <1>3 DEF FetchDone, Fill
  <2>2. prot' \in [Pages -> Prots]
    BY <1>3 DEF FetchDone, Mprotect, Fill
  <2>3. pc' \in [Workers -> PCs] /\ rc' \in {0, -1}
    BY <1>3 DEF FetchDone, AfterFetch
  <2>4. TypeOK'
    BY <1>3, <2>1, <2>2, <2>3 DEF FetchDone
  <2> QED
    BY <1>3, <2>4 DEF FetchDone, AfterFetch, IsFetch
<1>4. CASE FlushDone(w)
  <2>1. state' \in [Pages -> States]
    BY <1>4 DEF FlushDone, Fill
  <2>2. prot' \in [Pages -> Prots]
    BY <1>4 DEF FlushDone, Mprotect, Fill
  <2>3. rc' \in {0, -1}
    BY <1>4 DEF FlushDone
  <2>4. pc' \in [Workers -> PCs]
    BY <1>4, ZenonT(40) DEF FlushDone, AfterFlush
  <2>5. cur \in Pages
    BY <1>4 DEF FlushDone, IsFetch
  <2>6. cur' \in 0 .. NPages
    BY <1>4, <2>5 DEF FlushDone, AfterFlush
  <2>7. TypeOK'
    BY <1>4, <2>1, <2>2, <2>3, <2>4, <2>6 DEF FlushDone
  <2> QED
    BY <1>4, <2>7 DEF FlushDone, AfterFlush, IsFetch
<1>5. CASE Backend(w)
  <2>1. PICK S \in SUBSET io : Transfer(w, S)
    BY <1>5 DEF Backend, BackendOk, BackendFail
  <2>2. host' \in [Pages -> Values] /\ dev' \in [Pages -> Values]
    <3>1. CASE IsFetch(w)
      BY <2>1, <3>1 DEF Transfer
    <3>2. CASE ~IsFetch(w)
      BY <2>1, <3>2 DEF Transfer
    <3> QED
      BY <3>1, <3>2
  <2>3. /\ lock = w /\ pc[w] = "io" /\ pc' = [pc EXCEPT ![w] = "ack"]
        /\ UNCHANGED <<state, prot, lent, strict, req, rd, pipe, done, lock, cur, io, rc>>
    BY <1>5 DEF Backend, BackendOk, BackendFail
  <2>4. iok' \in BOOLEAN
    BY <1>5 DEF Backend, BackendOk, BackendFail
  <2>5. TypeOK'
    BY <2>2, <2>3, <2>4
  <2> QED
    BY <2>3, <2>5 DEF IsFetch
<1> QED
  BY <1>1, <1>2, <1>3, <1>4, <1>5 DEF Locked

LEMMA ServeBase ==
  ASSUME Base, Serve
  PROVE  Base'
<1> USE ConstantsOK, RequestFacts DEF Base, TypeOK, CursorOnPage, ServiceServesFaults,
                         InSection, States, Prots, PCs
<1> HIDE DEF NoRequest, Request, Fill, Mprotect
<1>1. CASE ServiceRead
  <2>1. Head(pipe) \in Pages /\ Tail(pipe) \in Seq(Pages)
    BY <1>1 DEF ServiceRead
  <2>2. TypeOK'
    BY <1>1, <2>1 DEF ServiceRead
  <2> QED
    BY <1>1, <2>1, <2>2 DEF ServiceRead, IsFetch, Request
<1>2. CASE FaultAbort
  BY <1>2 DEF FaultAbort, InFault, AtPage, IsFetch
<1>3. CASE FaultFetch
  BY <1>3, StartFetchBase DEF FaultFetch, InFault, AtPage, IsFetch
<1>4. CASE FaultUpgrade
  <2>1. prot' \in [Pages -> Prots]
    BY <1>4 DEF FaultUpgrade, Mprotect, Fill
  <2>2. TypeOK'
    BY <1>4, <2>1 DEF FaultUpgrade
  <2> QED
    BY <1>4, <2>2 DEF FaultUpgrade, InFault, AtPage, IsFetch
<1>5. CASE FaultIgnore
  BY <1>5 DEF FaultIgnore, InFault, AtPage, IsFetch
<1>6. CASE ServicePost
  BY <1>6 DEF ServicePost, IsFetch
<1> QED
  BY <1>1, <1>2, <1>3, <1>4, <1>5, <1>6 DEF Serve

LEMMA ApiBase ==
  ASSUME Base, NEW t \in Threads, ApiCall(t)
  PROVE  Base'
<1> USE ConstantsOK, RequestFacts DEF Base, TypeOK, CursorOnPage, ServiceServesFaults,
                         InSection, States, Prots, PCs
<1> HIDE DEF NoRequest, Request, Fill, Mprotect
<1>1. CASE StartFlush(t)
  BY <1>1, SMTT(20) DEF StartFlush, AtPage, IsFetch
<1>2. CASE Give(t)
  <2>1. cur \in Pages
    BY <1>2 DEF Give, AtPage
  <2>2. prot' \in [Pages -> Prots]
    BY <1>2 DEF Give, Mprotect, Fill
  <2>3. TypeOK'
    BY <1>2, <2>1, <2>2 DEF Give
  <2> QED
    BY <1>2, <2>3 DEF Give, IsFetch
<1>3. CASE FlushSkip(t)
  BY <1>3 DEF FlushSkip, AtPage, IsFetch
<1>4. CASE AcquirePages(t)
  <2>1. state' \in [Pages -> States]
    BY <1>4 DEF AcquirePages, Fill
  <2>2. cur' \in 0 .. NPages
    BY <1>4 DEF AcquirePages
  <2>3. TypeOK'
    BY <1>4, <2>1, <2>2 DEF AcquirePages
  <2> QED
    BY <1>4, <2>3 DEF AcquirePages, AtPage, IsFetch
<1>5. CASE PrefetchRun(t)
  <2>1. FirstInvalidRun(cur, req[t].b) \in SUBSET Pages
    BY <1>5 DEF PrefetchRun, AtPage, FirstInvalidRun
  <2>2. cur' \in 0 .. NPages
    BY <1>5, <2>1 DEF PrefetchRun
  <2> QED
    BY <1>5, <2>1, <2>2, StartFetchBase DEF PrefetchRun, AtPage, IsFetch
<1>6. CASE PrefetchEnd(t)
  BY <1>6 DEF PrefetchEnd, AtPage, IsFetch
<1>7. CASE InvalidatePage(t)
  <2>1. prot' \in [Pages -> Prots]
    BY <1>7 DEF InvalidatePage, Mprotect, Fill
  <2>2. TypeOK'
    BY <1>7, <2>1 DEF InvalidatePage, AtPage
  <2> QED
    BY <1>7, <2>2 DEF InvalidatePage, AtPage, IsFetch
<1> QED
  BY <1>1, <1>2, <1>3, <1>4, <1>5, <1>6, <1>7 DEF ApiCall

LEMMA NextBase ==
  ASSUME Base, [Next]_vars
  PROVE  Base'
<1>1. CASE UNCHANGED vars
  BY <1>1 DEF Base, TypeOK, CursorOnPage, ServiceServesFaults, InSection, IsFetch
<1>2. ASSUME NEW p \in Pages, NEW v \in Values, EngineWrite(p, v)
      PROVE  Base'
  BY <1>2 DEF EngineWrite, Base, TypeOK, CursorOnPage, ServiceServesFaults, InSection, IsFetch
<1> QED
  BY <1>1, <1>2, ThreadBase, SectionBase, ServeBase, ApiBase DEF Next

\* In every behaviour every variable keeps its type: no page index leaves the
\* window, and g_done never goes below zero.
THEOREM TypeCorrect == Spec => []TypeOK
<1>1. Init => Base
  BY InitBase
<1>2. Base /\ [Next]_vars => Base'
  BY NextBase
<1>3. Base => TypeOK
  BY DEF Base
<1> QED
  BY <1>1, <1>2, <1>3, PTL DEF Spec

-----------------------------------------------------------------------------
(***************************************************************************)
(* The mutex.  MutexHeld is inductive once abort is known to stop every    *)
(* thread.                                                                 *)
(***************************************************************************)
Exclusive == MutexHeld /\ AbortIsTotal

LEMMA NextExclusive ==
  ASSUME Base, Exclusive, [Next]_vars
  PROVE  Exclusive'
<1> USE ConstantsOK DEF Base, TypeOK, Exclusive, MutexHeld, AbortIsTotal, Alive,
                        InSection, PCs
<1> HIDE DEF NoRequest, Request, Fill, Mprotect
<1>1. CASE UNCHANGED vars
  BY <1>1
<1>2. ASSUME NEW t \in Threads, Issue(t)
      PROVE  Exclusive'
  BY <1>2 DEF Issue
<1>3. ASSUME NEW t \in Threads, Access(t) \/ Fault(t)
      PROVE  Exclusive'
  BY <1>3 DEF Access, Fault, Trap, Enqueue, Wake
<1>4. ASSUME NEW w \in Workers, Acquire(w)
      PROVE  Exclusive'
  BY <1>4 DEF Acquire
<1>5. ASSUME NEW w \in Workers, Unlock(w)
      PROVE  Exclusive'
  BY <1>5 DEF Unlock
<1>6. ASSUME NEW w \in Workers, FetchDone(w) \/ FlushDone(w)
      PROVE  Exclusive'
  BY <1>6 DEF FetchDone, AfterFetch, FlushDone, AfterFlush
<1>7. ASSUME NEW w \in Workers, Backend(w)
      PROVE  Exclusive'
  BY <1>7 DEF Backend, BackendOk, BackendFail
<1>8. ASSUME NEW w \in Workers, NEW S, lock = w, pc[w] = "step", StartFetch(w, S)
      PROVE  Exclusive'
  BY <1>8 DEF StartFetch, AfterFetch
<1>9. CASE Serve
  <2>1. CASE ServiceRead
    BY <2>1 DEF ServiceRead
  <2>2. CASE FaultAbort
    BY <2>2 DEF FaultAbort, InFault, AtPage
  <2>3. CASE FaultFetch
    BY <2>3, <1>8 DEF FaultFetch, InFault, AtPage
  <2>4. CASE FaultUpgrade \/ FaultIgnore
    BY <2>4 DEF FaultUpgrade, FaultIgnore, InFault, AtPage
  <2>5. CASE ServicePost
    BY <2>5 DEF ServicePost
  <2> QED
    BY <1>9, <2>1, <2>2, <2>3, <2>4, <2>5 DEF Serve
<1>10. ASSUME NEW t \in Threads, ApiCall(t)
       PROVE  Exclusive'
  <2>1. CASE StartFlush(t)
    BY <2>1 DEF StartFlush, AtPage
  <2>2. CASE Give(t)
    BY <2>2 DEF Give, AtPage
  <2>3. CASE PrefetchRun(t)
    BY <2>3, <1>8 DEF PrefetchRun, AtPage
  <2>4. CASE FlushSkip(t) \/ AcquirePages(t) \/ PrefetchEnd(t) \/ InvalidatePage(t)
    BY <2>4 DEF FlushSkip, AcquirePages, PrefetchEnd, InvalidatePage, AtPage
  <2> QED
    BY <1>10, <2>1, <2>2, <2>3, <2>4 DEF ApiCall
<1>11. ASSUME NEW p \in Pages, NEW v \in Values, EngineWrite(p, v)
       PROVE  Exclusive'
  BY <1>11 DEF EngineWrite
<1> QED
  BY <1>1, <1>2, <1>3, <1>4, <1>5, <1>6, <1>7, <1>9, <1>10, <1>11 DEF Next, Locked

\* The mutex is held exactly between the lock and the unlock, and backend calls
\* happen only inside: whatever the application threads and the service thread
\* do, two of them never drive the transport at once.
THEOREM MutexTheorem == Spec => []MutexHeld
<1>1. Init => Base /\ Exclusive
  BY InitBase, ConstantsOK DEF Init, Exclusive, MutexHeld, AbortIsTotal, Alive, InSection
<1>2. Base /\ Exclusive /\ [Next]_vars => (Base /\ Exclusive)'
  BY NextBase, NextExclusive
<1>3. Exclusive => MutexHeld
  BY DEF Exclusive
<1> QED
  BY <1>1, <1>2, <1>3, PTL DEF Spec

-----------------------------------------------------------------------------
(***************************************************************************)
(* The wakeups.  Only four steps move the two sides of PostsMatchWaiters:  *)
(* a handler writing the pipe, the service thread reading it, its post,    *)
(* and a handler taking a post.                                            *)
(***************************************************************************)

\* The others leave every term of the equation alone.
Quiet ==
  /\ UNCHANGED <<pipe, done>>
  /\ Blocked' = Blocked
  /\ InService' = InService
  /\ Alive' => Alive

\* A step of w from one control point to another, neither of which counts.
LEMMA QuietGoto ==
  ASSUME Base, NEW w \in Workers, NEW label,
         Goto(w, label), UNCHANGED <<pipe, done>>,
         pc[w] \notin {"blocked", "idle", "aborted"},
         label \notin {"blocked", "idle", "aborted"}
  PROVE  Quiet
BY ConstantsOK DEF Base, TypeOK, Quiet, Blocked, InService, Alive

LEMMA QuietSteps ==
  ASSUME Base, Exclusive, [Next]_vars
  PROVE  \/ Quiet
         \/ \E t \in Threads : Enqueue(t) \/ Wake(t)
         \/ ServiceRead \/ ServicePost \/ FaultAbort
<1> USE DEF Base, TypeOK
<1> HIDE DEF NoRequest, Request, Fill, Mprotect, Goto
<1>1. CASE UNCHANGED vars
  BY <1>1 DEF Quiet, Blocked, InService, Alive
<1>2. ASSUME NEW t \in Threads, Issue(t) \/ Access(t) \/ Trap(t)
      PROVE  Quiet
  BY <1>2, QuietGoto DEF Issue, Access, Trap
<1>3. ASSUME NEW w \in Workers, Locked(w)
      PROVE  Quiet
  BY <1>3, QuietGoto DEF Locked, Acquire, Unlock, FetchDone, AfterFetch, FlushDone, AfterFlush
<1>4. ASSUME NEW w \in Workers, Backend(w)
      PROVE  Quiet
  BY <1>4, QuietGoto DEF Backend, BackendOk, BackendFail
<1>5. ASSUME NEW w \in Workers, NEW S, pc[w] = "step", StartFetch(w, S)
      PROVE  Quiet
  BY <1>5, QuietGoto DEF StartFetch, AfterFetch
<1>6. CASE FaultFetch
  BY <1>5, <1>6 DEF FaultFetch, InFault, AtPage
<1>7. CASE FaultUpgrade \/ FaultIgnore
  BY <1>7, QuietGoto DEF FaultUpgrade, FaultIgnore, InFault, AtPage
<1>8. ASSUME NEW t \in Threads, ApiCall(t)
      PROVE  Quiet
  <2>1. CASE PrefetchRun(t)
    BY <2>1, <1>5 DEF PrefetchRun, AtPage
  <2>2. CASE StartFlush(t) \/ Give(t)
    BY <2>2, QuietGoto DEF StartFlush, Give, AtPage
  <2>3. CASE FlushSkip(t) \/ AcquirePages(t) \/ PrefetchEnd(t) \/ InvalidatePage(t)
    BY <2>3 DEF FlushSkip, AcquirePages, PrefetchEnd, InvalidatePage,
                Quiet, Blocked, InService, Alive
  <2> QED
    BY <1>8, <2>1, <2>2, <2>3 DEF ApiCall
<1>9. ASSUME NEW p \in Pages, NEW v \in Values, EngineWrite(p, v)
      PROVE  Quiet
  BY <1>9 DEF EngineWrite, Quiet, Blocked, InService, Alive
<1> QED
  BY <1>1, <1>2, <1>3, <1>4, <1>6, <1>7, <1>8, <1>9 DEF Next, Fault, Serve

LEMMA NextWakeups ==
  ASSUME Base, Exclusive, PostsMatchWaiters, [Next]_vars
  PROVE  PostsMatchWaiters'
<1> USE ConstantsOK DEF Base, TypeOK, PostsMatchWaiters, Alive, InService
<1> HIDE DEF NoRequest, Request, Fill, Mprotect
<1>1. IsFiniteSet(Blocked) /\ Cardinality(Blocked) \in Nat
  BY FS_Subset, FS_CardinalityType DEF Blocked
<1>2. CASE Quiet
  BY <1>2 DEF Quiet
<1>3. ASSUME NEW t \in Threads, Enqueue(t)
      PROVE  PostsMatchWaiters'
  <2>1. t \notin Blocked /\ Blocked' = Blocked \cup {t}
    BY <1>3 DEF Enqueue, Blocked
  <2>2. Cardinality(Blocked') = Cardinality(Blocked) + 1
    BY <1>1, <2>1, FS_AddElement
  <2>3. Len(pipe') = Len(pipe) + 1
    BY <1>3, RequestFacts DEF Enqueue
  <2>4. UNCHANGED <<done, pc[Service]>>
    BY <1>3 DEF Enqueue
  <2> QED
    BY <2>2, <2>3, <2>4
<1>4. ASSUME NEW t \in Threads, Wake(t)
      PROVE  PostsMatchWaiters'
  <2>1. t \in Blocked /\ Blocked' = Blocked \ {t}
    BY <1>4 DEF Wake, Blocked
  <2>2. Cardinality(Blocked') = Cardinality(Blocked) - 1
    BY <1>1, <2>1, FS_RemoveElement
  <2>3. done' = done - 1 /\ UNCHANGED <<pipe, pc[Service]>>
    BY <1>4 DEF Wake
  <2> QED
    BY <2>2, <2>3
<1>5. CASE ServiceRead
  <2>1. Blocked' = Blocked
    BY <1>5 DEF ServiceRead, Blocked
  <2>2. Len(pipe') = Len(pipe) - 1
    BY <1>5 DEF ServiceRead
  <2>3. pc[Service] = "idle" /\ pc'[Service] = "lock" /\ done' = done
    BY <1>5 DEF ServiceRead
  <2> QED
    BY <2>1, <2>2, <2>3
<1>6. CASE ServicePost
  <2>1. Blocked' = Blocked
    BY <1>6 DEF ServicePost, Blocked
  <2>2. pc[Service] = "post" /\ pc'[Service] = "idle" /\ done' = done + 1 /\ pipe' = pipe
    BY <1>6 DEF ServicePost
  <2> QED
    BY <2>1, <2>2
<1>7. CASE FaultAbort
  BY <1>7 DEF FaultAbort
<1> QED
  BY <1>2, <1>3, <1>4, <1>5, <1>6, <1>7, QuietSteps

\* No wakeup is lost and none is left over: a thread blocked in the signal
\* handler for every fault that is queued, in service, or answered by a post
\* nobody has taken.
THEOREM WakeupTheorem == Spec => []PostsMatchWaiters
<1>1. Init => Base /\ Exclusive /\ PostsMatchWaiters
  <2> SUFFICES ASSUME Init PROVE Base /\ Exclusive /\ PostsMatchWaiters
    OBVIOUS
  <2>1. Base /\ Exclusive
    BY InitBase, ConstantsOK DEF Init, Exclusive, MutexHeld, AbortIsTotal, Alive, InSection
  <2>2. Blocked = {}
    BY ConstantsOK DEF Init, Blocked
  <2>3. Len(pipe) = 0 /\ done = 0 /\ InService = 0
    BY DEF Init, InService
  <2> QED
    BY <2>1, <2>2, <2>3, FS_EmptySet DEF PostsMatchWaiters
<1>2. Base /\ Exclusive /\ PostsMatchWaiters /\ [Next]_vars
        => (Base /\ Exclusive /\ PostsMatchWaiters)'
  BY NextBase, NextExclusive, NextWakeups
<1> QED
  BY <1>1, <1>2, PTL DEF Spec

-----------------------------------------------------------------------------
(***************************************************************************)
(* Page states and protections, in a process whose mprotect calls succeed. *)
(***************************************************************************)
\* The protection a page has in each state as the code sets it.  In transfer,
\* FETCHING and FLUSHING, it is more than the table of cxlwin.h grants.
ProtectionOf(s) ==
  CASE s \in {"INVALID", "DEVICE"}                -> "NONE"
    [] s = "SHARED"                               -> "READ"
    [] s \in {"MODIFIED", "FETCHING", "FLUSHING"} -> "RW"

ProtectionTracksState == \A p \in Pages : prot[p] = ProtectionOf(state[p])

Tracking == TransientsAreOutstanding /\ ProtectionTracksState

\* A step that leaves the pages, the transfer and the holder's kind of request
\* alone.
LEMMA TrackingKept ==
  ASSUME Tracking, UNCHANGED <<state, prot, io>>,
         io # {} => IsFetch(lock)' = IsFetch(lock)
  PROVE  Tracking'
BY DEF Tracking, TransientsAreOutstanding, OutstandingAreTransient, ProtectionTracksState,
       ProtectionOf

\* No transfer is outstanding at the head of a loop.
LEMMA NoTransfer ==
  ASSUME Base, Exclusive, NEW w \in Workers, lock = w, pc[w] \in {"step", "unlock", "give"}
  PROVE  io = {}
BY DEF Exclusive, MutexHeld

\* The end of a transfer: its pages settle in one stable state.
LEMMA Settled ==
  ASSUME Tracking, io' = {}, NEW s \in States \ {"FETCHING", "FLUSHING"},
         \A p \in Pages : /\ state'[p] = IF p \in io THEN s ELSE state[p]
                          /\ prot'[p] = IF p \in io THEN ProtectionOf(s) ELSE prot[p]
  PROVE  Tracking'
<1>1. TransientsAreOutstanding'
  BY DEF Tracking, TransientsAreOutstanding, OutstandingAreTransient, States
<1>2. ProtectionTracksState'
  BY DEF Tracking, ProtectionTracksState, ProtectionOf, States
<1> QED
  BY <1>1, <1>2 DEF Tracking

LEMMA NextTracking ==
  ASSUME MprotectResults = {TRUE}, Base, Exclusive, Tracking, [Next]_vars
  PROVE  Tracking'
<1> USE ConstantsOK DEF Base, TypeOK
<1> HIDE DEF NoRequest, Request, Span
<1>1. CASE UNCHANGED vars
  BY <1>1, TrackingKept DEF IsFetch
<1>2. ASSUME NEW t \in Threads, Issue(t) \/ Access(t) \/ Fault(t)
      PROVE  Tracking'
  <2>1. pc[t] \notin InSection /\ Alive
    BY <1>2 DEF Issue, Access, Fault, Trap, Enqueue, Wake, InSection, Exclusive, AbortIsTotal
  <2>2. lock # t
    BY <2>1 DEF Exclusive, MutexHeld
  <2>3. UNCHANGED <<state, prot, io, lock>> /\ \A u \in Workers \ {t} : req'[u] = req[u]
    BY <1>2 DEF Issue, Access, Fault, Trap, Enqueue, Wake
  <2> QED
    BY <2>2, <2>3, TrackingKept DEF IsFetch, Exclusive, MutexHeld
<1>3. ASSUME NEW w \in Workers, Acquire(w) \/ Unlock(w)
      PROVE  Tracking'
  <2>1. io = {}
    BY <1>3, NoTransfer DEF Acquire, Unlock, Exclusive, MutexHeld
  <2> QED
    BY <1>3, <2>1, TrackingKept DEF Acquire, Unlock
<1>4. ASSUME NEW w \in Workers, FetchDone(w)
      PROVE  Tracking'
  <2>1. io' = {} /\ \E s \in {"SHARED", "INVALID"} :
          /\ state' = Fill(state, io, s)
          /\ prot' = Fill(prot, io, ProtectionOf(s))
    BY <1>4 DEF FetchDone, ProtectionOf
  <2>2. PICK s \in {"SHARED", "INVALID"} :
          \A p \in Pages : /\ state'[p] = IF p \in io THEN s ELSE state[p]
                           /\ prot'[p] = IF p \in io THEN ProtectionOf(s) ELSE prot[p]
    BY <2>1
  <2> QED
    BY <2>1, <2>2, Settled DEF States
<1>5. ASSUME NEW w \in Workers, FlushDone(w)
      PROVE  Tracking'
  <2>1. \A p \in io : state[p] = "FLUSHING" /\ prot[p] = "RW"
    BY <1>5 DEF FlushDone, Tracking, TransientsAreOutstanding, OutstandingAreTransient,
                ProtectionTracksState, ProtectionOf
  <2>2. io' = {} /\ \E s \in {"SHARED", "MODIFIED"} :
          /\ state' = Fill(state, io, s)
          /\ \A p \in Pages : prot'[p] = IF p \in io THEN ProtectionOf(s) ELSE prot[p]
    BY <1>5, <2>1 DEF FlushDone, ProtectionOf
  <2>3. PICK s \in {"SHARED", "MODIFIED"} :
          \A p \in Pages : /\ state'[p] = IF p \in io THEN s ELSE state[p]
                           /\ prot'[p] = IF p \in io THEN ProtectionOf(s) ELSE prot[p]
    BY <2>2
  <2> QED
    BY <2>2, <2>3, Settled DEF States
<1>6. ASSUME NEW w \in Workers, Backend(w)
      PROVE  Tracking'
  BY <1>6, TrackingKept DEF Backend, BackendOk, BackendFail, IsFetch
<1>7. ASSUME NEW w \in Workers, NEW S \in SUBSET Pages,
             lock = w, pc[w] = "step", IsFetch(w), StartFetch(w, S)
      PROVE  Tracking'
  <2>1. io = {}
    BY <1>7, NoTransfer
  <2>2. PICK run \in SUBSET Pages :
          /\ io' = run
          /\ state' = Fill(state, run, "FETCHING")
          /\ prot' = Fill(prot, run, "RW")
    BY <1>7 DEF StartFetch, FetchRun
  <2>3. IsFetch(lock)'
    BY <1>7 DEF StartFetch, IsFetch
  <2> QED
    BY <2>1, <2>2, <2>3 DEF Tracking, TransientsAreOutstanding, OutstandingAreTransient,
                            ProtectionTracksState, ProtectionOf
\* The steps that move one page, with no transfer outstanding.
<1>8. ASSUME io = {}, io' = {}, NEW p \in Pages, NEW s \in States \ {"FETCHING", "FLUSHING"},
             state' = [state EXCEPT ![p] = s], prot' = Fill(prot, {p}, ProtectionOf(s))
      PROVE  Tracking'
  BY <1>8 DEF Tracking, TransientsAreOutstanding, OutstandingAreTransient,
              ProtectionTracksState, ProtectionOf, States
<1>9. CASE Serve
  <2>1. CASE ServiceRead
    <3>1. lock # Service
      BY <2>1 DEF ServiceRead, Exclusive, MutexHeld, AbortIsTotal, Alive, InSection
    <3> QED
      BY <2>1, <3>1, TrackingKept DEF ServiceRead, IsFetch, Exclusive, MutexHeld
  <2>2. CASE FaultAbort \/ FaultIgnore \/ ServicePost
    BY <2>2, TrackingKept DEF FaultAbort, FaultIgnore, ServicePost, IsFetch
  <2>3. CASE FaultFetch
    BY <2>3, <1>7 DEF FaultFetch, InFault, AtPage, IsFetch
  <2>4. CASE FaultUpgrade
    <3>1. io = {} /\ io' = {} /\ cur \in Pages
      BY <2>4, NoTransfer, PageInLoop DEF FaultUpgrade, InFault, AtPage
    <3> QED
      BY <2>4, <3>1, <1>8, ZenonT(40) DEF FaultUpgrade, ProtectionOf, States
  <2> QED
    BY <1>9, <2>1, <2>2, <2>3, <2>4 DEF Serve
<1>10. ASSUME NEW t \in Threads, ApiCall(t)
       PROVE  Tracking'
  <2>1. lock = t /\ pc[t] \in {"step", "give"}
    BY <1>10 DEF ApiCall, StartFlush, Give, FlushSkip, AcquirePages, PrefetchRun,
                 PrefetchEnd, InvalidatePage, AtPage
  <2>2. io = {}
    BY <2>1, NoTransfer
  <2>3. CASE StartFlush(t)
    <3>1. cur \in Pages /\ req' = req /\ ~IsFetch(t)
      BY <2>3, PageInLoop DEF StartFlush, AtPage, IsFetch
    <3>2. io' = {cur} /\ state' = [state EXCEPT ![cur] = "FLUSHING"] /\ prot' = prot
      BY <2>3 DEF StartFlush
    <3>3. state[cur] = "MODIFIED" /\ ~IsFetch(lock)'
      BY <2>1, <2>3, <3>1 DEF StartFlush, IsFetch
    <3>4. TransientsAreOutstanding'
      BY <2>2, <3>1, <3>2, <3>3 DEF Tracking, TransientsAreOutstanding, OutstandingAreTransient
    <3>5. ProtectionTracksState'
      BY <3>2, <3>3 DEF Tracking, ProtectionTracksState, ProtectionOf
    <3> QED
      BY <3>4, <3>5 DEF Tracking
  <2>4. CASE Give(t)
    <3>1. cur \in Pages
      BY <2>4, PageInLoop DEF Give, CursorOnPage
    <3>2. /\ io' = {} /\ state' = [state EXCEPT ![cur] = "DEVICE"]
          /\ prot' = Fill(prot, {cur}, ProtectionOf("DEVICE"))
      BY <2>2, <2>4 DEF Give, ProtectionOf
    <3> QED
      BY <2>2, <3>1, <3>2, <1>8 DEF States
  <2>5. CASE AcquirePages(t)
    BY <2>2, <2>5 DEF AcquirePages, Tracking, TransientsAreOutstanding,
         OutstandingAreTransient, ProtectionTracksState, ProtectionOf
  <2>6. CASE PrefetchRun(t)
    <3>1. FirstInvalidRun(cur, req[t].b) \in SUBSET Pages
      BY <2>6, RequestFacts DEF PrefetchRun, AtPage, FirstInvalidRun
    <3> QED
      BY <2>6, <3>1, <1>7 DEF PrefetchRun, AtPage, IsFetch
  <2>7. CASE FlushSkip(t) \/ PrefetchEnd(t)
    BY <2>2, <2>7, TrackingKept DEF FlushSkip, PrefetchEnd
  <2>8. CASE InvalidatePage(t)
    <3>1. cur \in Pages /\ io' = {}
      BY <2>2, <2>8, RequestFacts DEF InvalidatePage, AtPage
    <3>2. CASE state[cur] = "DEVICE"
      BY <2>2, <2>8, <3>2, TrackingKept DEF InvalidatePage
    <3>3. CASE state[cur] # "DEVICE"
      BY <2>2, <2>8, <3>1, <3>3, <1>8, SMTT(20) DEF InvalidatePage, ProtectionOf, States
    <3> QED
      BY <3>2, <3>3
  <2> QED
    BY <1>10, <2>3, <2>4, <2>5, <2>6, <2>7, <2>8 DEF ApiCall
<1>11. ASSUME NEW p \in Pages, NEW v \in Values, EngineWrite(p, v)
       PROVE  Tracking'
  BY <1>11, TrackingKept DEF EngineWrite, IsFetch
<1> QED
  BY <1>1, <1>2, <1>3, <1>4, <1>5, <1>6, <1>9, <1>10, <1>11 DEF Next, Locked

LEMMA InitTracking == ASSUME Init PROVE Base /\ Exclusive /\ Tracking
BY InitBase, ConstantsOK DEF Init, Exclusive, MutexHeld, AbortIsTotal, Alive, InSection,
   Tracking, TransientsAreOutstanding, OutstandingAreTransient, ProtectionTracksState,
   ProtectionOf

\* If mprotect does not fail, the comment in service_fault is right: FETCHING
\* and FLUSHING exist only while the mutex holder waits for its transfer.
THEOREM TransientTheorem ==
  ASSUME MprotectResults = {TRUE}
  PROVE  Spec => []TransientsAreOutstanding
<1>1. Init => Base /\ Exclusive /\ Tracking
  BY InitTracking
<1>2. Base /\ Exclusive /\ Tracking /\ [Next]_vars => (Base /\ Exclusive /\ Tracking)'
  BY NextBase, NextExclusive, NextTracking
<1>3. Tracking => TransientsAreOutstanding
  BY DEF Tracking
<1> QED
  BY <1>1, <1>2, <1>3, PTL DEF Spec

-----------------------------------------------------------------------------
(***************************************************************************)
(* Device bias, in a window that fetches one page per miss, whether or not *)
(* mprotect fails.  With a deeper prefetch it does not hold.               *)
(***************************************************************************)

\* The pages of a transfer are all in a transient state, so that the end of a
\* transfer moves no DEVICE page.
LEMMA NextOutstanding ==
  ASSUME Base, Exclusive, OutstandingAreTransient, [Next]_vars
  PROVE  OutstandingAreTransient'
<1> USE ConstantsOK DEF Base, TypeOK
<1> HIDE DEF NoRequest, Request, Span, Mprotect
<1>1. ASSUME UNCHANGED <<state, io>>, io # {} => IsFetch(lock)' = IsFetch(lock)
      PROVE  OutstandingAreTransient'
  BY <1>1 DEF OutstandingAreTransient
<1>2. ASSUME io' = {}
      PROVE  OutstandingAreTransient'
  BY <1>2 DEF OutstandingAreTransient
<1>3. CASE UNCHANGED vars
  BY <1>1, <1>3 DEF IsFetch
<1>4. ASSUME NEW t \in Threads, Issue(t) \/ Access(t) \/ Fault(t)
      PROVE  OutstandingAreTransient'
  <2>1. pc[t] \notin InSection /\ Alive
    BY <1>4 DEF Issue, Access, Fault, Trap, Enqueue, Wake, InSection, Exclusive, AbortIsTotal
  <2>2. lock # t
    BY <2>1 DEF Exclusive, MutexHeld
  <2>3. UNCHANGED <<state, io, lock>> /\ \A u \in Workers \ {t} : req'[u] = req[u]
    BY <1>4 DEF Issue, Access, Fault, Trap, Enqueue, Wake
  <2> QED
    BY <1>1, <2>2, <2>3 DEF IsFetch, Exclusive, MutexHeld
<1>5. ASSUME NEW w \in Workers, Locked(w)
      PROVE  OutstandingAreTransient'
  <2>1. CASE FetchDone(w) \/ FlushDone(w)
    BY <2>1, <1>2 DEF FetchDone, FlushDone
  <2>2. CASE Acquire(w) \/ Unlock(w)
    <3>1. io = {}
      BY <2>2, NoTransfer DEF Acquire, Unlock, Exclusive, MutexHeld
    <3> QED
      BY <2>2, <3>1, <1>2 DEF Acquire, Unlock
  <2> QED
    BY <1>5, <2>1, <2>2 DEF Locked
<1>6. ASSUME NEW w \in Workers, Backend(w)
      PROVE  OutstandingAreTransient'
  BY <1>1, <1>6 DEF Backend, BackendOk, BackendFail, IsFetch
<1>7. ASSUME NEW w \in Workers, NEW S \in SUBSET Pages,
             lock = w, IsFetch(w), StartFetch(w, S)
      PROVE  OutstandingAreTransient'
  <2>1. PICK run \in SUBSET Pages : io' \in {run, {}} /\ state' = Fill(state, run, "FETCHING")
    BY <1>7 DEF StartFetch, FetchRun
  <2>2. IsFetch(lock)'
    BY <1>7 DEF StartFetch, IsFetch
  <2> QED
    BY <2>1, <2>2 DEF OutstandingAreTransient
<1>8. CASE Serve
  <2>1. CASE ServiceRead
    <3>1. lock # Service
      BY <2>1 DEF ServiceRead, Exclusive, MutexHeld, AbortIsTotal, Alive, InSection
    <3> QED
      BY <1>1, <2>1, <3>1 DEF ServiceRead, IsFetch, Exclusive, MutexHeld
  <2>2. CASE FaultAbort \/ FaultIgnore \/ ServicePost
    BY <1>1, <2>2 DEF FaultAbort, FaultIgnore, ServicePost, IsFetch
  <2>3. CASE FaultFetch
    BY <2>3, <1>7 DEF FaultFetch, InFault, AtPage, IsFetch
  <2>4. CASE FaultUpgrade
    BY <1>2, <2>4, NoTransfer DEF FaultUpgrade, InFault, AtPage
  <2> QED
    BY <1>8, <2>1, <2>2, <2>3, <2>4 DEF Serve
<1>9. ASSUME NEW t \in Threads, ApiCall(t)
      PROVE  OutstandingAreTransient'
  <2>1. lock = t /\ io = {}
    BY <1>9, NoTransfer DEF ApiCall, StartFlush, Give, FlushSkip, AcquirePages, PrefetchRun,
                 PrefetchEnd, InvalidatePage, AtPage
  <2>2. CASE StartFlush(t)
    <3>1. io' = {cur} /\ state' = [state EXCEPT ![cur] = "FLUSHING"] /\ ~IsFetch(lock)'
      BY <2>1, <2>2 DEF StartFlush, AtPage, IsFetch
    <3> QED
      BY <2>2, <3>1, PageInLoop DEF StartFlush, OutstandingAreTransient
  <2>3. CASE PrefetchRun(t)
    <3>1. FirstInvalidRun(cur, req[t].b) \in SUBSET Pages
      BY <2>3, RequestFacts DEF PrefetchRun, AtPage, FirstInvalidRun
    <3> QED
      BY <2>3, <3>1, <1>7 DEF PrefetchRun, AtPage, IsFetch
  <2>4. CASE Give(t) \/ FlushSkip(t) \/ AcquirePages(t) \/ PrefetchEnd(t) \/ InvalidatePage(t)
    BY <1>2, <2>1, <2>4 DEF Give, FlushSkip, AcquirePages, PrefetchEnd, InvalidatePage
  <2> QED
    BY <1>9, <2>2, <2>3, <2>4 DEF ApiCall
<1>10. ASSUME NEW p \in Pages, NEW v \in Values, EngineWrite(p, v)
       PROVE  OutstandingAreTransient'
  BY <1>1, <1>10 DEF EngineWrite, IsFetch
<1> QED
  BY <1>3, <1>4, <1>5, <1>6, <1>8, <1>9, <1>10 DEF Next

LEMMA NextKeepsBias ==
  ASSUME Prefetch = 1, Base, Exclusive, OutstandingAreTransient, [Next]_vars
  PROVE  KeepsBias
<1> SUFFICES ASSUME NEW p \in Pages, state[p] = "DEVICE", state'[p] # "DEVICE"
             PROVE  BiasGivenUp(p)
  BY DEF KeepsBias
<1> USE ConstantsOK DEF Base, TypeOK
<1> HIDE DEF NoRequest, Request, Span, Mprotect, Goto
<1>1. PICK w \in Workers :
        Serve \/ (w \in Threads /\ ApiCall(w)) \/ FetchDone(w) \/ FlushDone(w)
  BY DEF Next, Issue, Access, Fault, Trap, Enqueue, Wake, Locked, Acquire, Unlock,
         Backend, BackendOk, BackendFail, EngineWrite
<1>2. ~(FetchDone(w) \/ FlushDone(w))
  <2>1. p \notin io
    BY DEF OutstandingAreTransient
  <2> QED
    BY <2>1 DEF FetchDone, FlushDone
<1>3. CASE Serve
  <2>1. FaultFetch \/ FaultUpgrade
    BY <1>3 DEF Serve, ServiceRead, FaultAbort, FaultIgnore, ServicePost
  <2>2. ~FaultUpgrade
    BY DEF FaultUpgrade
  <2>3. FaultFetch /\ cur \in Pages
    BY <2>1, <2>2, PageInLoop DEF FaultFetch, InFault
  <2>4. p = cur
    BY <2>3 DEF FaultFetch, StartFetch, FetchRun
  <2>5. lock = Service /\ cur = req[Service].a /\ ~strict
    BY <2>3, <2>4 DEF FaultFetch, InFault, AtPage, CursorOnPage
  <2> QED
    BY <2>4, <2>5 DEF BiasGivenUp
<1>4. CASE w \in Threads /\ ApiCall(w)
  <2>1. CASE AcquirePages(w)
    BY <1>4, <2>1 DEF AcquirePages, AtPage, BiasGivenUp
  <2>2. ~PrefetchRun(w)
    BY DEF PrefetchRun, StartFetch, FetchRun, FirstInvalidRun
  <2>3. ~(StartFlush(w) \/ Give(w) \/ FlushSkip(w) \/ PrefetchEnd(w) \/ InvalidatePage(w))
    BY DEF StartFlush, Give, FlushSkip, PrefetchEnd, InvalidatePage
  <2> QED
    BY <1>4, <2>1, <2>2, <2>3 DEF ApiCall
<1> QED
  BY <1>1, <1>2, <1>3, <1>4

\* With one page fetched per miss, a page leaves device bias only by an acquire
\* of it, or by a host access to it that a non-strict window serves and counts.
THEOREM BiasTheorem ==
  ASSUME Prefetch = 1
  PROVE  Spec => BiasKept
<1> DEFINE Inv == Base /\ Exclusive /\ OutstandingAreTransient
<1>1. Init => Inv
  BY InitTracking DEF Init, OutstandingAreTransient
<1>2. Inv /\ [Next]_vars => Inv' /\ KeepsBias
  BY NextBase, NextExclusive, NextOutstanding, NextKeepsBias
<1> QED
  BY <1>1, <1>2, PTL DEF Spec, BiasKept

-----------------------------------------------------------------------------
(***************************************************************************)
(* Dirty pages, with the same prefetch depth.                              *)
(***************************************************************************)
LEMMA NextFlushOnCursor ==
  ASSUME Base, Exclusive, FlushOnCursor, [Next]_vars
  PROVE  FlushOnCursor'
<1> USE ConstantsOK DEF Base, TypeOK
<1> HIDE DEF NoRequest, Request, Span, Mprotect
<1>1. ASSUME UNCHANGED <<state, lock, cur, io, rc>>,
             lock \in Workers => pc'[lock] = pc[lock] /\ req'[lock] = req[lock]
      PROVE  FlushOnCursor'
  BY <1>1 DEF FlushOnCursor, IsFetch
<1>2. CASE UNCHANGED vars
  BY <1>1, <1>2
<1>3. ASSUME NEW t \in Threads, Issue(t) \/ Access(t) \/ Fault(t)
      PROVE  FlushOnCursor'
  <2>1. pc[t] \notin InSection /\ Alive
    BY <1>3 DEF Issue, Access, Fault, Trap, Enqueue, Wake, InSection, Exclusive, AbortIsTotal
  <2>2. lock # t
    BY <2>1 DEF Exclusive, MutexHeld
  <2>3. /\ UNCHANGED <<state, lock, cur, io, rc>>
        /\ \A u \in Workers \ {t} : req'[u] = req[u] /\ pc'[u] = pc[u]
    BY <1>3 DEF Issue, Access, Fault, Trap, Enqueue, Wake
  <2> QED
    BY <1>1, <2>2, <2>3
<1>4. ASSUME NEW w \in Workers, Locked(w)
      PROVE  FlushOnCursor'
  <2>1. CASE Acquire(w)
    BY <2>1, RequestFacts DEF Acquire, FlushOnCursor
  <2>2. CASE Unlock(w)
    BY <2>2 DEF Unlock, FlushOnCursor
  <2>3. CASE FetchDone(w)
    BY <2>3 DEF FetchDone, AfterFetch, FlushOnCursor
  <2>4. CASE FlushDone(w)
    <3>1. /\ lock = w /\ lock' = w /\ req' = req /\ io = {cur}
          /\ req[w].a <= cur /\ cur <= req[w].b
      BY <2>4 DEF FlushDone, FlushOnCursor
    <3>2. \/ pc'[w] = "give" /\ cur' = cur /\ req[w].op = "release"
          \/ pc'[w] = "step" /\ cur' = cur + 1
      BY <2>4 DEF FlushDone, AfterFlush
    <3>3. cur \in Pages
      BY <2>4 DEF FlushDone, CursorOnPage
    <3>4. state'[cur] = "MODIFIED" => rc' = -1
      BY <2>4, <3>1, <3>3 DEF FlushDone
    <3> QED
      <4>1. req[w].a \in Int /\ req[w].b \in Int /\ cur \in Int
        BY RequestFacts
      <4> QED
        BY <3>1, <3>2, <3>4, <4>1 DEF FlushOnCursor
  <2> QED
    BY <1>4, <2>1, <2>2, <2>3, <2>4 DEF Locked
<1>5. ASSUME NEW w \in Workers, Backend(w)
      PROVE  FlushOnCursor'
  BY <1>5 DEF Backend, BackendOk, BackendFail, IsFetch, FlushOnCursor
<1>6. CASE Serve
  <2>1. CASE ServiceRead
    BY <1>1, <2>1 DEF ServiceRead, Exclusive, MutexHeld, AbortIsTotal, Alive, InSection
  <2>2. CASE FaultAbort
    BY <2>2 DEF FaultAbort, FlushOnCursor
  <2>3. CASE FaultFetch
    BY <2>3 DEF FaultFetch, InFault, AtPage, StartFetch, AfterFetch, IsFetch, FlushOnCursor
  <2>4. CASE FaultUpgrade \/ FaultIgnore
    BY <2>4 DEF FaultUpgrade, FaultIgnore, InFault, AtPage, FlushOnCursor
  <2>5. CASE ServicePost
    <3>1. lock # Service
      BY <2>5 DEF ServicePost, Exclusive, MutexHeld, AbortIsTotal, Alive, InSection
    <3> QED
      BY <1>1, <2>5, <3>1 DEF ServicePost
  <2> QED
    BY <1>6, <2>1, <2>2, <2>3, <2>4, <2>5 DEF Serve
<1>7. ASSUME NEW t \in Threads, ApiCall(t)
      PROVE  FlushOnCursor'
  <2>1. CASE StartFlush(t)
    BY <2>1 DEF StartFlush, AtPage, FlushOnCursor
  <2>2. CASE Give(t)
    BY <2>2, RequestFacts DEF Give, FlushOnCursor
  <2>3. CASE FlushSkip(t) \/ InvalidatePage(t)
    BY <2>3, RequestFacts DEF FlushSkip, InvalidatePage, AtPage, FlushOnCursor
  <2>4. CASE AcquirePages(t) \/ PrefetchEnd(t)
    BY <2>4, RequestFacts DEF AcquirePages, PrefetchEnd, AtPage, FlushOnCursor
  <2>5. CASE PrefetchRun(t)
    <3>1. PICK last \in FirstInvalidRun(cur, req[t].b) : cur' = last + 1
      BY <2>5 DEF PrefetchRun
    <3>2. req[t].a <= cur' /\ lock = t /\ lock' = t /\ req' = req
      BY <2>5, <3>1, RequestFacts DEF PrefetchRun, AtPage, StartFetch, FirstInvalidRun, FlushOnCursor
    <3>3. pc'[t] \in {"io", "step"} /\ IsFetch(t)
      BY <2>5 DEF PrefetchRun, AtPage, StartFetch, AfterFetch, IsFetch
    <3> QED
      BY <3>2, <3>3 DEF FlushOnCursor, IsFetch
  <2> QED
    BY <1>7, <2>1, <2>2, <2>3, <2>4, <2>5 DEF ApiCall
<1>8. ASSUME NEW p \in Pages, NEW v \in Values, EngineWrite(p, v)
      PROVE  FlushOnCursor'
  BY <1>1, <1>8 DEF EngineWrite
<1> QED
  BY <1>2, <1>3, <1>4, <1>5, <1>6, <1>7, <1>8 DEF Next

LEMMA NextKeepsDirty ==
  ASSUME Prefetch = 1, Base, Exclusive, OutstandingAreTransient, FlushOnCursor, [Next]_vars
  PROVE  KeepsDirty
<1> SUFFICES ASSUME NEW p \in Pages, state[p] = "MODIFIED",
                    state'[p] \notin {"MODIFIED", "FLUSHING"}
             PROVE  \E t \in Threads : DropsDirty(t, p)
  BY DEF KeepsDirty
<1> USE ConstantsOK DEF Base, TypeOK
<1> HIDE DEF NoRequest, Request, Span, Mprotect, Goto
<1>1. PICK w \in Workers :
        Serve \/ (w \in Threads /\ ApiCall(w)) \/ FetchDone(w) \/ FlushDone(w)
  BY DEF Next, Issue, Access, Fault, Trap, Enqueue, Wake, Locked, Acquire, Unlock,
         Backend, BackendOk, BackendFail, EngineWrite
<1>2. ~(FetchDone(w) \/ FlushDone(w))
  <2>1. p \notin io
    BY DEF OutstandingAreTransient
  <2> QED
    BY <2>1 DEF FetchDone, FlushDone
<1>3. ~Serve
  <2>1. ~FaultFetch
    BY PageInLoop DEF FaultFetch, InFault, StartFetch, FetchRun
  <2> QED
    BY <2>1 DEF Serve, ServiceRead, FaultAbort, FaultIgnore, FaultUpgrade, ServicePost
<1>4. CASE w \in Threads /\ ApiCall(w)
  <2>1. ~PrefetchRun(w)
    BY DEF PrefetchRun, StartFetch, FetchRun, FirstInvalidRun
  <2>2. ~(StartFlush(w) \/ FlushSkip(w) \/ AcquirePages(w) \/ PrefetchEnd(w))
    BY DEF StartFlush, FlushSkip, AcquirePages, PrefetchEnd
  <2>3. CASE InvalidatePage(w)
    <3>1. p = cur /\ req[w].op = "invalidate" /\ lock = w /\ req[w].a <= cur /\ cur <= req[w].b
      BY <1>4, <2>3 DEF InvalidatePage, AtPage, FlushOnCursor
    <3> QED
      BY <1>4, <3>1, RequestFacts DEF DropsDirty, Span
  <2>4. CASE Give(w)
    <3>1. p = cur /\ lock = w /\ pc[w] = "give"
      BY <1>4, <2>4 DEF Give, AtPage
    <3>2. rc = -1 /\ req[w].a <= cur /\ cur <= req[w].b
      BY <1>4, <3>1 DEF FlushOnCursor
    <3>3. req[w].op = "release"
      BY <1>4, <3>1 DEF FlushOnCursor
    <3> QED
      BY <1>4, <3>1, <3>2, <3>3, RequestFacts DEF DropsDirty, Span
  <2> QED
    BY <1>4, <2>1, <2>2, <2>3, <2>4 DEF ApiCall
<1> QED
  BY <1>1, <1>2, <1>3, <1>4

\* With one page fetched per miss a store is not lost: a dirty page stops being
\* dirty only by being written back, by an invalidate of it, or by a release
\* that returns -1.  A deeper prefetch breaks this.
THEOREM DirtyTheorem ==
  ASSUME Prefetch = 1
  PROVE  Spec => DirtyKept
<1> DEFINE Inv == Base /\ Exclusive /\ OutstandingAreTransient /\ FlushOnCursor
<1>1. Init => Inv
  BY InitTracking, ConstantsOK DEF Init, OutstandingAreTransient, FlushOnCursor
<1>2. Inv /\ [Next]_vars => Inv' /\ KeepsDirty
  BY NextBase, NextExclusive, NextOutstanding, NextFlushOnCursor, NextKeepsDirty
<1> QED
  BY <1>1, <1>2, PTL DEF Spec, DirtyKept

-----------------------------------------------------------------------------
(***************************************************************************)
(* A program of one thread that does not touch what it has lent, in a      *)
(* window that fetches one page a miss: for any number of pages, any       *)
(* contents and any failing transfers the window is a coherent memory.     *)
(* With a second thread, or a deeper prefetch, it is not: the runs         *)
(* cxlwin_race and cxlwin_interior show how.                               *)
(***************************************************************************)

\* The only assumptions, those of the run cxlwin_one.
Sequential ==
  /\ Cardinality(Threads) = 1
  /\ Prefetch = 1
  /\ Disciplined
  /\ MprotectResults = {TRUE}

LEMMA OneThread == ASSUME Sequential PROVE \E t : Threads = {t}
BY ConstantsOK, FS_Singleton DEF Sequential

(***************************************************************************)
(* What is known whatever the number of threads, from CxlWinProofs.        *)
(***************************************************************************)
Window == Base /\ Exclusive /\ PostsMatchWaiters /\ Tracking /\ FlushOnCursor

LEMMA NextWindow ==
  ASSUME Sequential, Window, [Next]_vars
  PROVE  Window'
BY NextBase, NextExclusive, NextWakeups, NextTracking, NextFlushOnCursor DEF Window, Sequential

LEMMA InitWindow == ASSUME Init PROVE Window
<1>1. Base /\ Exclusive /\ Tracking
  BY InitTracking
<1>2. FlushOnCursor
  BY ConstantsOK DEF Init, FlushOnCursor
<1>3. PostsMatchWaiters
  <2>1. Blocked = {}
    BY ConstantsOK DEF Init, Blocked
  <2>2. Len(pipe) = 0 /\ done = 0 /\ InService = 0
    BY DEF Init, InService
  <2> QED
    BY <2>1, <2>2, FS_EmptySet DEF PostsMatchWaiters
<1> QED
  BY <1>1, <1>2, <1>3 DEF Window

(***************************************************************************)
(* The thread and the service thread take turns.                           *)
(***************************************************************************)
LEMMA Turns ==
  ASSUME NEW t, Threads = {t}, Window, Alive
  PROVE  /\ pc[t] = "blocked" => Len(pipe) + done + InService = 1
         /\ pc[t] # "blocked" => pipe = <<>> /\ done = 0 /\ pc[Service] = "idle"
<1> USE DEF Window, Base, TypeOK, PostsMatchWaiters
<1>1. Len(pipe) \in Nat /\ done \in Nat /\ InService \in {0, 1}
  BY DEF InService
<1>2. CASE pc[t] = "blocked"
  <2>1. Blocked = {t}
    BY <1>2 DEF Blocked
  <2> QED
    BY <1>2, <2>1, FS_Singleton
<1>3. CASE pc[t] # "blocked"
  <2>1. Blocked = {}
    BY <1>3 DEF Blocked
  <2>2. Len(pipe) + done + InService = 0
    BY <2>1, FS_EmptySet
  <2>3. Len(pipe) = 0 /\ done = 0 /\ InService = 0
    BY <1>1, <2>2
  <2>4. pipe = <<>>
    BY <2>3
  <2> QED
    BY <1>3, <2>3, <2>4 DEF InService
<1> QED
  BY <1>2, <1>3

\* While the thread is in its program or at an access, nobody else is at work.
LEMMA NobodyElse ==
  ASSUME NEW t, Threads = {t}, Window, pc[t] \in {"user", "access", "trap"}
  PROVE  /\ Alive /\ lock = NoOwner /\ io = {} /\ pc[Service] = "idle"
         /\ pipe = <<>> /\ done = 0
<1> USE DEF Window, Exclusive
<1>1. Alive
  BY DEF AbortIsTotal
<1>2. pc[Service] = "idle" /\ pipe = <<>> /\ done = 0
  BY <1>1, Turns
<1>3. lock # t /\ lock # Service
  BY <1>1, <1>2, ConstantsOK DEF MutexHeld, InSection
<1>4. lock = NoOwner
  BY <1>3 DEF Base, TypeOK
<1> QED
  BY <1>1, <1>2, <1>4 DEF MutexHeld

\* While the service thread works on a fault, the thread waits for it.
LEMMA ServiceAlone ==
  ASSUME NEW t, Threads = {t}, Window, Alive, pc[Service] # "idle"
  PROVE  pc[t] = "blocked" /\ pipe = <<>> /\ done = 0 /\ lock # t
<1> USE DEF Window, Base, TypeOK
<1>1. pc[t] = "blocked"
  BY Turns
<1>2. Len(pipe) + done + 1 = 1
  BY <1>1, Turns DEF InService
<1>3. Len(pipe) = 0 /\ done = 0
  BY <1>2
<1>4. pipe = <<>>
  BY <1>3
<1>5. lock # t
  BY <1>1, ConstantsOK DEF Exclusive, MutexHeld, InSection
<1> QED
  BY <1>1, <1>3, <1>4, <1>5

\* While the thread holds the mutex, there is no fault.
LEMMA ThreadAlone ==
  ASSUME NEW t, Threads = {t}, Window, Alive, lock = t
  PROVE  pc[t] \in InSection /\ pipe = <<>> /\ done = 0 /\ pc[Service] = "idle"
<1>1. pc[t] \in InSection
  BY DEF Window, Exclusive, MutexHeld
<1> QED
  BY <1>1, Turns DEF InSection

-----------------------------------------------------------------------------
(***************************************************************************)
(* The invariant.                                                          *)
(***************************************************************************)

\* What the thread has asked for fits where it is, and it is not at a page it
\* has lent, nor takes pages back before it has stopped lending them.
RequestFits ==
  \A t \in Threads :
    /\ req[t].op = "acquire" => \A p \in lent : ~(req[t].a <= p /\ p <= req[t].b)
    /\ pc[t] = "user" => req[t] = NoRequest
    /\ pc[t] \in {"access", "trap", "blocked"} =>
         req[t].op \in {"load", "store"} /\ req[t].a \notin lent
    /\ pc[t] \in {"lock"} \cup InSection => req[t].op \in Calls /\ pc[t] # "unlock"
    /\ pc[t] \in {"io", "ack"} => req[t].op \in {"flush", "release", "prefetch"}

\* A fault is about the page the thread waits for.
FaultOfThread ==
  \A t \in Threads :
    /\ pipe # <<>> => pipe = <<req[t].a>>
    /\ pc[Service] \in {"lock"} \cup InSection => req[Service].a = req[t].a

FreeMeansNoError == lock = NoOwner => rc = 0

\* The window knows which pages are lent: the thread touches none of them, so
\* that no fault takes one back.
LentIsDevice == \A p \in lent : state[p] = "DEVICE"

\* What the call in progress has done with the pages behind it.
LoopDone ==
  \A t \in Threads : lock = t =>
    \A p \in Pages : req[t].a <= p /\ p < cur =>
      /\ req[t].op = "release" => state[p] = "DEVICE"
      /\ req[t].op = "flush" => state[p] # "MODIFIED" \/ rc = -1

\* A transfer that succeeded has left its pages equal, until its end.
Transferred ==
  lock \in Workers /\ pc[lock] = "ack" /\ iok => \A p \in io : host[p] = dev[p]

Coherence ==
  /\ RequestFits /\ FaultOfThread /\ FreeMeansNoError /\ LentIsDevice
  /\ LoopDone /\ Transferred /\ SharedIsClean

LEMMA InitCoherence == ASSUME Init PROVE Coherence
<1>1. lock = NoOwner /\ rc = 0 /\ lent = {} /\ pipe = <<>>
  BY DEF Init
<1>2. \A t \in Threads : pc[t] = "user" /\ req[t] = NoRequest
  BY ConstantsOK DEF Init
<1>3. pc[Service] = "idle" /\ \A p \in Pages : state[p] = "INVALID"
  BY ConstantsOK DEF Init
<1> QED
  BY <1>1, <1>2, <1>3, ConstantsOK
     DEF Coherence, RequestFits, FaultOfThread, FreeMeansNoError, LentIsDevice, LoopDone,
         Transferred, SharedIsClean, InSection

\* The thread's own steps, the mutex being free.
LEMMA ThreadCoherence ==
  ASSUME Sequential, NEW t, Threads = {t}, Window, Coherence,
         Issue(t) \/ Access(t) \/ Fault(t)
  PROVE  Coherence'
<1> USE ConstantsOK DEF Window, Base, TypeOK
<1> HIDE DEF NoRequest, Request, Span, Mprotect, Fill
<1>1. lock' = lock /\ UNCHANGED <<state, prot, dev, cur, io, iok, rc>> /\ pc'[Service] = pc[Service]
      /\ req'[Service] = req[Service]
  BY DEF Issue, Access, Fault, Trap, Enqueue, Wake
<1>2. CASE pc[t] \in {"user", "access", "trap"}
  <2>1. lock = NoOwner /\ io = {} /\ pc[Service] = "idle" /\ pipe = <<>>
    BY <1>2, NobodyElse
  <2>2. (FreeMeansNoError /\ LoopDone /\ Transferred)'
    BY <1>1, <2>1 DEF Coherence, FreeMeansNoError, LoopDone, Transferred
  <2>3. (RequestFits /\ FaultOfThread /\ LentIsDevice)'
    <3>1. CASE Issue(t)
      <4>1. PICK r \in Requests :
              /\ Disciplined /\ r.op \in {"load", "store"} => r.a \notin lent
              /\ req' = [req EXCEPT ![t] = r]
              /\ Goto(t, IF r.op \in {"load", "store"} THEN "access" ELSE "lock")
              /\ lent' = IF r.op = "acquire" THEN lent \ (r.a .. r.b) ELSE lent
        BY <3>1 DEF Issue
      <4>2. r.op \in {"load", "store"} \cup Calls
        BY <4>1 DEF Requests, Request
      <4>3. LentIsDevice'
        BY <1>1, <4>1 DEF Coherence, LentIsDevice
      <4>4. RequestFits'
        BY <4>1, <4>2 DEF RequestFits, Sequential, InSection
      <4>5. FaultOfThread'
        BY <1>1, <2>1, <3>1 DEF Issue, FaultOfThread, InSection
      <4> QED
        BY <4>3, <4>4, <4>5
    <3>2. CASE Access(t)
      BY <1>1, <2>1, <3>2, RequestFacts DEF Access, Coherence, RequestFits, FaultOfThread, LentIsDevice, InSection
    <3>3. CASE Trap(t)
      BY <1>1, <2>1, <3>3 DEF Trap, Coherence, RequestFits, FaultOfThread, LentIsDevice, InSection
    <3>4. CASE Enqueue(t)
      BY <1>1, <2>1, <3>4 DEF Enqueue, Coherence, RequestFits, FaultOfThread, LentIsDevice, InSection
    <3>5. ~Wake(t)
      BY <1>2 DEF Wake
    <3> QED
      BY <3>1, <3>2, <3>3, <3>4, <3>5 DEF Fault
  \* A store needs a writable page, which is none that is SHARED.
  <2>4. SharedIsClean'
    <3>1. CASE UNCHANGED host
      BY <1>1, <3>1 DEF Coherence, SharedIsClean
    <3>2. CASE Access(t) /\ req[t].op = "store"
      <4>1. prot[req[t].a] = "RW" /\ req[t].a \in Pages
        BY <3>2, RequestFacts DEF Access, Permitted, Allows
      <4>2. state[req[t].a] # "SHARED"
        BY <4>1 DEF Tracking, ProtectionTracksState, ProtectionOf
      <4>3. host' = [host EXCEPT ![req[t].a] = req[t].val]
        BY <3>2 DEF Access
      <4> QED
        BY <1>1, <4>1, <4>2, <4>3 DEF Coherence, SharedIsClean
    <3> QED
      BY <3>1, <3>2 DEF Issue, Access, Fault, Trap, Enqueue, Wake
  <2> QED
    BY <2>2, <2>3, <2>4 DEF Coherence
<1>3. CASE pc[t] = "blocked"
  <2>1. Wake(t)
    BY <1>3 DEF Issue, Access, Fault, Trap, Enqueue
  <2>2. Alive
    BY <1>3 DEF Exclusive, AbortIsTotal
  <2>3. pc[Service] = "idle" /\ pipe = <<>>
    <3>1. Len(pipe) + done + InService = 1 /\ done > 0
      BY <1>3, <2>1, <2>2, Turns DEF Wake
    <3>2. Len(pipe) = 0 /\ InService = 0
      BY <3>1 DEF InService
    <3>3. pipe = <<>>
      BY <3>2
    <3> QED
      BY <3>2, <3>3 DEF InService
  <2>4. lock = NoOwner
    BY <1>3, <2>2, <2>3 DEF Exclusive, MutexHeld, InSection
  <2> QED
    BY <1>1, <2>1, <2>3, <2>4 DEF Wake, Coherence, RequestFits, FaultOfThread, FreeMeansNoError,
         LentIsDevice, LoopDone, Transferred, SharedIsClean, InSection
<1> QED
  BY <1>2, <1>3 DEF Issue, Access, Fault, Trap, Enqueue, Wake

LEMMA ServeCoherence ==
  ASSUME Sequential, NEW t, Threads = {t}, Window, Coherence, Serve
  PROVE  Coherence'
<1> USE ConstantsOK DEF Window, Base, TypeOK
<1> HIDE DEF NoRequest, Request, Span, Mprotect, Fill
<1>1. UNCHANGED <<host, dev, lent, lock, cur, iok>> /\ req'[t] = req[t]
  BY DEF Serve, ServiceRead, FaultAbort, FaultFetch, FaultUpgrade, FaultIgnore, ServicePost, StartFetch
<1>2. CASE ServiceRead
  <2>1. lock # Service /\ pipe = <<req[t].a>>
    BY <1>2 DEF ServiceRead, Exclusive, MutexHeld, AbortIsTotal, Alive, InSection, Coherence, FaultOfThread
  <2>2. Head(pipe) = req[t].a /\ Tail(pipe) = <<>>
    BY <2>1
  <2>3. /\ pipe' = <<>> /\ pc' = [pc EXCEPT ![Service] = "lock"]
        /\ req' = [req EXCEPT ![Service] = Request("fault", req[t].a, req[t].a, Zero)]
        /\ UNCHANGED <<state, io, rc>>
    BY <1>2, <2>2 DEF ServiceRead
  <2>4. FaultOfThread'
    BY <2>3 DEF FaultOfThread, Request
  <2> QED
    BY <1>1, <2>1, <2>3, <2>4 DEF Coherence, RequestFits, FreeMeansNoError,
         LentIsDevice, LoopDone, Transferred, SharedIsClean, InSection
<1>3. CASE FaultAbort
  <2>1. lock = Service /\ pc' = [w \in Workers |-> "aborted"] /\ UNCHANGED <<state, pipe, req, io, rc>>
    BY <1>3 DEF FaultAbort, InFault, AtPage
  <2> QED
    BY <1>1, <2>1 DEF Coherence, RequestFits, FaultOfThread, FreeMeansNoError,
         LentIsDevice, LoopDone, Transferred, SharedIsClean, InSection
<1>4. CASE FaultFetch \/ FaultUpgrade \/ FaultIgnore
  <2>1. /\ lock = Service /\ pc[Service] = "step" /\ cur \in Pages /\ cur = req[Service].a
        /\ UNCHANGED <<req, pipe>>
    BY <1>4, PageInLoop DEF FaultFetch, FaultUpgrade, FaultIgnore, InFault, AtPage, CursorOnPage, StartFetch
  <2>2. pc[t] = "blocked" /\ pipe = <<>>
    BY <2>1, ServiceAlone DEF Exclusive, AbortIsTotal
  <2>3. cur \notin lent
    BY <2>1, <2>2 DEF Coherence, RequestFits, FaultOfThread, InSection
  <2>4. /\ \E s \in States \ {"SHARED"} : state' \in {state, [state EXCEPT ![cur] = s]}
        /\ pc' \in {[pc EXCEPT ![Service] = "io"], [pc EXCEPT ![Service] = "unlock"]}
    <3>1. CASE FaultFetch
      <4>1. FetchRun({p \in Pages : cur <= p /\ p < cur + Prefetch}) = {cur}
        BY <2>1, <3>1 DEF FaultFetch, FetchRun, Sequential
      <4>2. state' = Fill(state, {cur}, "FETCHING") /\ pc' = [pc EXCEPT ![Service] = "io"]
        BY <3>1, <4>1 DEF FaultFetch, StartFetch, Sequential
      <4>3. state' = [state EXCEPT ![cur] = "FETCHING"]
        BY <2>1, <4>2 DEF Fill
      <4> QED
        BY <4>2, <4>3 DEF States
    <3>2. CASE FaultUpgrade
      BY <3>2 DEF FaultUpgrade, States
    <3>3. CASE FaultIgnore
      BY <3>3 DEF FaultIgnore, States
    <3> QED
      BY <1>4, <3>1, <3>2, <3>3
  <2>5. SharedIsClean' /\ LentIsDevice'
    BY <1>1, <2>3, <2>4 DEF Coherence, SharedIsClean, LentIsDevice
  <2>6. (RequestFits /\ FaultOfThread)'
    BY <1>1, <2>1, <2>2, <2>4 DEF Coherence, RequestFits, FaultOfThread, InSection
  <2>7. (FreeMeansNoError /\ LoopDone /\ Transferred)'
    BY <1>1, <2>1, <2>4 DEF FreeMeansNoError, LoopDone, Transferred
  <2> QED
    BY <2>5, <2>6, <2>7 DEF Coherence
<1>5. CASE ServicePost
  <2>1. /\ lock # Service /\ pc' = [pc EXCEPT ![Service] = "idle"]
        /\ UNCHANGED <<state, pipe, req, io, rc>>
    BY <1>5 DEF ServicePost, Exclusive, MutexHeld, AbortIsTotal, Alive, InSection
  <2> QED
    BY <1>1, <2>1 DEF Coherence, RequestFits, FaultOfThread, FreeMeansNoError,
         LentIsDevice, LoopDone, Transferred, SharedIsClean, InSection
<1> QED
  BY <1>2, <1>3, <1>4, <1>5 DEF Serve

\* The ends of transfers find only pages in transit, which are not lent.
LEMMA TransferredCoherence ==
  ASSUME Sequential, NEW t, Threads = {t}, Window, Coherence, NEW w \in Workers,
         FetchDone(w) \/ FlushDone(w)
  PROVE  Coherence'
<1> USE ConstantsOK DEF Window, Base, TypeOK
<1> HIDE DEF NoRequest, Request, Span, Mprotect, Fill
<1>1. /\ lock = w /\ pc[w] = "ack"
      /\ UNCHANGED <<host, dev, lent, req, pipe, lock, iok>>
  BY DEF FetchDone, FlushDone
<1>2. \A p \in io : state[p] \in {"FETCHING", "FLUSHING"}
  BY DEF Tracking, TransientsAreOutstanding
<1>3. PICK s \in {"SHARED", "INVALID", "MODIFIED"} :
        /\ s = "SHARED" => iok
        /\ state' = Fill(state, io, s)
        /\ IsFetch(w) \/ s = "SHARED" \/ rc' = -1
  BY DEF FetchDone, FlushDone, Sequential
<1>4. \A p \in Pages : state'[p] = IF p \in io THEN s ELSE state[p]
  BY <1>3 DEF Fill
<1>5. LentIsDevice' /\ SharedIsClean'
  BY <1>1, <1>2, <1>3, <1>4 DEF Coherence, LentIsDevice, SharedIsClean, Transferred
<1>6. PICK label \in {"unlock", "step", "give"} :
        pc' = [pc EXCEPT ![w] = label] /\ (label = "unlock" => w = Service)
  BY DEF FetchDone, FlushDone, AfterFetch, AfterFlush, ServiceServesFaults
<1>7. (RequestFits /\ FaultOfThread)'
  BY <1>1, <1>6 DEF Coherence, RequestFits, FaultOfThread, InSection
<1>8. FreeMeansNoError' /\ Transferred'
  BY <1>1, <1>6 DEF FreeMeansNoError, Transferred
<1>9. LoopDone'
  <2> SUFFICES ASSUME w = t, NEW p \in Pages, req[t].a <= p, p < cur'
               PROVE  /\ req[t].op = "release" => state'[p] = "DEVICE"
                      /\ req[t].op = "flush" => state'[p] # "MODIFIED" \/ rc' = -1
    BY <1>1 DEF LoopDone
  <2>1. CASE IsFetch(t)
    BY <2>1 DEF IsFetch
  <2>2. CASE ~IsFetch(t)
    <3>1. io = {cur} /\ cur \in Pages /\ rc' \in {rc, -1}
      BY <1>1, <2>2 DEF FlushOnCursor, CursorOnPage, FetchDone, FlushDone
    <3>2. cur' = IF req[t].op = "release" THEN cur ELSE cur + 1
      BY <1>1, <2>2 DEF FetchDone, FlushDone, AfterFlush
    <3>3. CASE p = cur
      <4>1. req[t].op # "release"
        BY <3>1, <3>2, <3>3
      <4>2. state'[p] = s
        BY <1>4, <3>1, <3>3
      <4> QED
        BY <1>3, <2>2, <4>1, <4>2
    <3>4. CASE p # cur
      <4>1. p < cur /\ state'[p] = state[p]
        BY <1>4, <3>1, <3>2, <3>4
      <4> QED
        BY <1>1, <3>1, <4>1 DEF Coherence, LoopDone
    <3> QED
      BY <3>3, <3>4
  <2> QED
    BY <2>1, <2>2
<1> QED
  BY <1>5, <1>7, <1>8, <1>9 DEF Coherence

\* The backend moves data between the copies of pages in transit.
LEMMA BackendCoherence ==
  ASSUME Sequential, NEW t, Threads = {t}, Window, Coherence, NEW w \in Workers, Backend(w)
  PROVE  Coherence'
<1> USE ConstantsOK DEF Window, Base, TypeOK
<1> HIDE DEF NoRequest, Request, Span, Mprotect, Fill
<1>1. /\ lock = w /\ pc[w] = "io" /\ pc' = [pc EXCEPT ![w] = "ack"]
      /\ UNCHANGED <<state, lent, req, pipe, lock, cur, io, rc>>
  BY DEF Backend, BackendOk, BackendFail
<1>2. PICK S \in SUBSET io : Transfer(w, S) /\ (iok' => S = io)
  BY DEF Backend, BackendOk, BackendFail
<1>3. \A p \in Pages : IF p \in S THEN host'[p] = dev'[p] ELSE host'[p] = host[p] /\ dev'[p] = dev[p]
  BY <1>2 DEF Transfer
<1>4. \A p \in io : state[p] \in {"FETCHING", "FLUSHING"}
  BY DEF Tracking, TransientsAreOutstanding
<1>5. (SharedIsClean /\ Transferred)'
  BY <1>1, <1>2, <1>3, <1>4 DEF Coherence, SharedIsClean, Transferred
<1>6. (RequestFits /\ FaultOfThread)'
  BY <1>1 DEF Coherence, RequestFits, FaultOfThread, InSection
<1>7. (FreeMeansNoError /\ LentIsDevice /\ LoopDone)'
  BY <1>1 DEF Coherence, FreeMeansNoError, LentIsDevice, LoopDone
<1> QED
  BY <1>5, <1>6, <1>7 DEF Coherence

LEMMA MutexCoherence ==
  ASSUME Sequential, NEW t, Threads = {t}, Window, Coherence, NEW w \in Workers,
         Acquire(w) \/ Unlock(w)
  PROVE  Coherence'
<1> USE ConstantsOK DEF Window, Base, TypeOK
<1> HIDE DEF NoRequest, Request, Span, Mprotect, Fill
<1>1. UNCHANGED <<state, host, dev, pipe, io>>
  BY DEF Acquire, Unlock
<1>2. CASE Acquire(w)
  <2>1. /\ lock = NoOwner /\ lock' = w /\ cur' = req[w].a /\ pc[w] = "lock"
        /\ pc' = [pc EXCEPT ![w] = "step"] /\ UNCHANGED <<lent, req, rc>>
    BY <1>2 DEF Acquire
  <2>2. LoopDone'
    BY <2>1, RequestFacts DEF LoopDone
  <2>3. (RequestFits /\ FaultOfThread)'
    BY <1>1, <2>1 DEF Coherence, RequestFits, FaultOfThread, InSection
  <2>4. (FreeMeansNoError /\ LentIsDevice /\ Transferred /\ SharedIsClean)'
    BY <1>1, <2>1 DEF Coherence, FreeMeansNoError, LentIsDevice, Transferred, SharedIsClean
  <2> QED
    BY <2>2, <2>3, <2>4 DEF Coherence
<1>3. CASE Unlock(w)
  <2>1. lock = w /\ lock' = NoOwner /\ rc' = 0 /\ req' = [req EXCEPT ![w] = NoRequest]
    BY <1>3 DEF Unlock
  <2>2. (FreeMeansNoError /\ LoopDone /\ Transferred /\ SharedIsClean)'
    BY <1>1, <2>1 DEF Coherence, FreeMeansNoError, LoopDone, Transferred, SharedIsClean
  <2>3. CASE w = Service
    <3>1. req[w].op = "fault" /\ lent' = lent /\ pc' = [pc EXCEPT ![Service] = "post"]
      BY <1>3, <2>3 DEF Unlock, ServiceServesFaults, InSection
    <3>2. (RequestFits /\ FaultOfThread /\ LentIsDevice)'
      BY <1>1, <2>1, <2>3, <3>1 DEF Coherence, RequestFits, FaultOfThread, LentIsDevice, InSection
    <3> QED
      BY <2>2, <3>2 DEF Coherence
  <2>4. CASE w = t
    <3>1. pc[t] = "step" /\ cur > req[t].b /\ Alive
      BY <1>3, <2>4 DEF Unlock, Coherence, RequestFits, InSection, Exclusive, AbortIsTotal
    <3>2. pc[Service] = "idle" /\ pipe = <<>>
      BY <2>1, <2>4, <3>1, ThreadAlone
    <3>3. pc' = [pc EXCEPT ![t] = "user"]
      BY <1>3, <2>4 DEF Unlock
    <3>4. (RequestFits /\ FaultOfThread)'
      BY <1>1, <2>1, <2>4, <3>2, <3>3, RequestFacts DEF RequestFits, FaultOfThread, InSection
    <3>5. LentIsDevice'
      <4>1. req[t].op = "release" => \A p \in Span(t) : p \in Pages /\ p < cur /\ req[t].a <= p
        BY <3>1, RequestFacts DEF Span
      <4>2. req[t].op = "release" => \A p \in Span(t) : state[p] = "DEVICE"
        BY <2>1, <2>4, <4>1 DEF Coherence, LoopDone
      <4> QED
        BY <1>1, <1>3, <2>4, <4>2 DEF Unlock, Coherence, LentIsDevice
    <3> QED
      BY <2>2, <3>4, <3>5 DEF Coherence
  <2> QED
    BY <2>3, <2>4
<1> QED
  BY <1>2, <1>3

\* The thread in an API call.  A page that changes its state settles in one
\* that claims no copy, and only acquire takes a page out of DEVICE.
LEMMA ApiCoherence ==
  ASSUME Sequential, NEW t, Threads = {t}, Window, Coherence, ApiCall(t)
  PROVE  Coherence'
<1> USE ConstantsOK DEF Window, Base, TypeOK
<1> HIDE DEF NoRequest, Request, Span, Mprotect, Fill
<1>1. /\ lock = t /\ pc[t] \in {"step", "give"} /\ lock' = t
      /\ UNCHANGED <<host, dev, lent, req, pipe, iok>>
  BY DEF ApiCall, StartFlush, Give, FlushSkip, AcquirePages, PrefetchRun, PrefetchEnd,
         InvalidatePage, AtPage, StartFetch
<1>2. Alive
  BY <1>1 DEF Exclusive, AbortIsTotal
<1>3. pc[Service] = "idle" /\ pipe = <<>>
  BY <1>1, <1>2, ThreadAlone
<1>4. PICK label \in {"step", "give", "io"} : pc' = [pc EXCEPT ![t] = label]
  <2>1. ASSUME pc' = pc PROVE pc' = [pc EXCEPT ![t] = pc[t]]
    BY <2>1
  <2>2. CASE StartFlush(t) \/ Give(t)
    BY <2>2 DEF StartFlush, Give
  <2>3. CASE PrefetchRun(t)
    BY <2>3 DEF PrefetchRun, StartFetch, Sequential
  <2> QED
    BY <1>1, <2>1, <2>2, <2>3 DEF ApiCall, FlushSkip, AcquirePages, PrefetchEnd, InvalidatePage
<1>5. (RequestFits /\ FaultOfThread)'
  <2>1. pc'[t] = "io" => req[t].op \in {"flush", "release", "prefetch"}
    BY <1>1 DEF ApiCall, StartFlush, Give, FlushSkip, AcquirePages, PrefetchRun, PrefetchEnd,
         InvalidatePage, AtPage
  <2> QED
    BY <1>1, <1>3, <1>4, <2>1 DEF Coherence, RequestFits, FaultOfThread, InSection
<1>6. FreeMeansNoError' /\ Transferred'
  BY <1>1, <1>4 DEF FreeMeansNoError, Transferred
<1>7. \A p \in Pages : /\ state'[p] = "SHARED" => state[p] = "SHARED"
                       /\ p \in lent => state'[p] = state[p] \/ state'[p] = "DEVICE"
  <2>1. CASE StartFlush(t)
    BY <2>1 DEF StartFlush, Coherence, LentIsDevice
  <2>2. CASE Give(t)
    BY <2>2 DEF Give
  <2>3. CASE FlushSkip(t) \/ PrefetchEnd(t)
    BY <2>3 DEF FlushSkip, PrefetchEnd
  <2>4. CASE AcquirePages(t)
    <3>1. \A p \in Span(t) : req[t].a <= p /\ p <= req[t].b
      BY RequestFacts DEF Span
    <3>2. req[t].op = "acquire" /\ \A p \in lent : p \notin Span(t)
      BY <2>4, <3>1 DEF AcquirePages, AtPage, Coherence, RequestFits
    <3>3. state' = Fill(state, {p \in Span(t) : state[p] = "DEVICE"}, "INVALID")
      BY <2>4 DEF AcquirePages
    <3> QED
      BY <3>2, <3>3 DEF Fill
  <2>5. CASE PrefetchRun(t)
    BY <2>5 DEF PrefetchRun, StartFetch, FetchRun, FirstInvalidRun, Fill, Coherence, LentIsDevice
  <2>6. CASE InvalidatePage(t)
    BY <2>6 DEF InvalidatePage, Coherence, LentIsDevice
  <2> QED
    BY <2>1, <2>2, <2>3, <2>4, <2>5, <2>6 DEF ApiCall
<1>8. SharedIsClean' /\ LentIsDevice'
  BY <1>1, <1>7 DEF Coherence, SharedIsClean, LentIsDevice
<1>9. LoopDone'
  <2> SUFFICES ASSUME NEW p \in Pages, req[t].a <= p, p < cur'
               PROVE  /\ req[t].op = "release" => state'[p] = "DEVICE"
                      /\ req[t].op = "flush" => state'[p] # "MODIFIED" \/ rc' = -1
    BY <1>1 DEF LoopDone
  <2>1. p < cur => /\ req[t].op = "release" => state[p] = "DEVICE"
                   /\ req[t].op = "flush" => state[p] # "MODIFIED" \/ rc = -1
    BY <1>1 DEF Coherence, LoopDone
  <2>2. CASE StartFlush(t)
    <3>1. cur' = cur /\ rc' = rc /\ state' = [state EXCEPT ![cur] = "FLUSHING"]
      BY <2>2 DEF StartFlush
    <3>2. state'[p] = state[p]
      BY <3>1
    <3> QED
      BY <2>1, <3>1, <3>2
  <2>3. CASE Give(t)
    <3>1. /\ cur \in Pages /\ cur' = cur + 1 /\ state' = [state EXCEPT ![cur] = "DEVICE"]
          /\ req[t].op = "release"
      BY <1>1, <2>3, PageInLoop DEF Give, AtPage, CursorOnPage, FlushOnCursor
    <3>2. p = cur \/ p < cur
      BY <3>1
    <3> QED
      BY <2>1, <3>1, <3>2
  <2>4. CASE FlushSkip(t)
    <3>1. /\ cur' = cur + 1 /\ state' = state /\ rc' = rc
          /\ req[t].op = "flush" /\ state[cur] # "MODIFIED"
      BY <2>4 DEF FlushSkip, AtPage
    <3>2. p = cur \/ p < cur
      BY <3>1
    <3> QED
      BY <2>1, <3>1, <3>2
  <2>5. CASE AcquirePages(t) \/ PrefetchRun(t) \/ PrefetchEnd(t) \/ InvalidatePage(t)
    BY <2>5 DEF AcquirePages, PrefetchRun, PrefetchEnd, InvalidatePage, AtPage
  <2> QED
    BY <2>2, <2>3, <2>4, <2>5 DEF ApiCall
<1> QED
  BY <1>5, <1>6, <1>8, <1>9 DEF Coherence

LEMMA EngineCoherence ==
  ASSUME Window, Coherence, NEW p \in Pages, NEW v \in Values, EngineWrite(p, v)
  PROVE  Coherence'
<1> USE DEF Coherence
<1>1. UNCHANGED <<state, host, lent, pc, req, pipe, section>> /\ dev' = [dev EXCEPT ![p] = v]
  BY DEF EngineWrite
<1>2. state[p] = "DEVICE"
  BY DEF EngineWrite, LentIsDevice
<1>3. p \notin io
  BY <1>2 DEF Window, Tracking, TransientsAreOutstanding
<1>4. (Transferred /\ SharedIsClean)'
  BY <1>1, <1>2, <1>3 DEF Window, Base, TypeOK, Transferred, SharedIsClean
<1>5. (RequestFits /\ FaultOfThread /\ FreeMeansNoError /\ LentIsDevice /\ LoopDone)'
  BY <1>1 DEF RequestFits, FaultOfThread, FreeMeansNoError, LentIsDevice, LoopDone, InSection
<1> QED
  BY <1>4, <1>5

LEMMA NextCoherence ==
  ASSUME Sequential, Window, Coherence, [Next]_vars
  PROVE  Coherence'
<1>1. PICK t : Threads = {t}
  BY OneThread
<1>2. CASE UNCHANGED vars
  BY <1>2 DEF Coherence, RequestFits, FaultOfThread, FreeMeansNoError, LentIsDevice,
              LoopDone, Transferred, SharedIsClean, InSection
<1>3. CASE Issue(t) \/ Access(t) \/ Fault(t)
  BY <1>1, <1>3, ThreadCoherence
<1>4. CASE ApiCall(t)
  BY <1>1, <1>4, ApiCoherence
<1>5. ASSUME NEW w \in Workers, Locked(w) \/ Backend(w)
      PROVE  Coherence'
  BY <1>1, <1>5, TransferredCoherence, MutexCoherence, BackendCoherence DEF Locked
<1>6. CASE Serve
  BY <1>1, <1>6, ServeCoherence
<1> QED
  BY <1>1, <1>2, <1>3, <1>4, <1>5, <1>6, EngineCoherence DEF Next

\* For one disciplined thread SHARED means what cxlwin.h says, also after
\* transfers that failed half way and engine runs: the host's copy of a SHARED
\* page and the device's are equal.
THEOREM SharedCleanTheorem ==
  ASSUME Sequential
  PROVE  Spec => []SharedIsClean
<1>1. Init => Window /\ Coherence
  BY InitWindow, InitCoherence
<1>2. Window /\ Coherence /\ [Next]_vars => (Window /\ Coherence)'
  BY NextWindow, NextCoherence
<1>3. Coherence => SharedIsClean
  BY DEF Coherence
<1> QED
  BY <1>1, <1>2, <1>3, PTL DEF Spec

\* For one thread the table of cxlwin.h holds of every access: while the thread
\* runs no transfer is outstanding, so it never meets a page that is writable
\* in the MMU and FETCHING or FLUSHING in the window.
THEOREM AccessTheorem ==
  ASSUME Sequential
  PROVE  Spec => []AccessesAsDocumented
<1>1. Init => Window
  BY InitWindow
<1>2. Window /\ [Next]_vars => Window'
  BY NextWindow
<1>3. Window => AccessesAsDocumented
  <2>1. SUFFICES ASSUME Window, NEW t \in Threads, pc[t] = "access", Permitted(t)
                 PROVE  Allows(DocumentedProtection(state[req[t].a]), req[t].op)
    BY DEF AccessesAsDocumented
  <2>2. Threads = {t}
    BY OneThread
  <2>3. io = {}
    BY <2>1, <2>2, NobodyElse
  <2>4. req[t].a \in Pages /\ state[req[t].a] \in States
    BY <2>1, RequestFacts, ConstantsOK DEF Window, Base, TypeOK, Workers
  <2>5. state[req[t].a] \notin {"FETCHING", "FLUSHING"}
    BY <2>1, <2>3, <2>4 DEF Window, Tracking, TransientsAreOutstanding
  <2>6. prot[req[t].a] = ProtectionOf(state[req[t].a])
    BY <2>1, <2>4 DEF Window, Tracking, ProtectionTracksState
  <2>7. ProtectionOf(state[req[t].a]) = DocumentedProtection(state[req[t].a])
    BY <2>4, <2>5 DEF ProtectionOf, DocumentedProtection, States
  <2> QED
    BY <2>1, <2>6, <2>7 DEF Permitted
<1> QED
  BY <1>1, <1>2, <1>3, PTL DEF Spec

\* A load that waits for its fault to be looked at waits for a page it cannot read.
LoadsMiss ==
  \A t \in Threads :
    /\ req[t].op = "load"
    /\ \/ pc[t] = "trap"
       \/ pc[t] = "blocked" /\ (pipe # <<>> \/ pc[Service] \in {"lock", "step"})
    => prot[req[t].a] = "NONE"

LEMMA NextLoadsMiss ==
  ASSUME Sequential, Window, Coherence, LoadsMiss, [Next]_vars
  PROVE  LoadsMiss'
<1> USE ConstantsOK DEF Window, Base, TypeOK
<1> HIDE DEF NoRequest, Request, Span, Mprotect, Fill
<1>1. PICK t : Threads = {t}
  BY OneThread
<1>2. CASE UNCHANGED <<prot, pipe, pc, req>>
  BY <1>2 DEF LoadsMiss
<1>3. CASE Trap(t)
  <2>1. req[t].op = "load" => prot[req[t].a] = "NONE"
    BY <1>3 DEF Trap, Permitted, Allows
  <2> QED
    BY <1>1, <1>3, <2>1 DEF Trap, LoadsMiss
<1>4. CASE Enqueue(t)
  BY <1>1, <1>4 DEF Enqueue, LoadsMiss
<1>5. CASE Issue(t) \/ Access(t) \/ Wake(t)
  <2>1. pc'[t] \in {"user", "access", "lock"}
    BY <1>1, <1>5 DEF Issue, Access, Wake
  <2> QED
    BY <1>1, <2>1 DEF LoadsMiss
<1>6. CASE ServiceRead
  BY <1>1, <1>6 DEF ServiceRead, LoadsMiss
<1>7. CASE FaultAbort
  BY <1>1, <1>7 DEF FaultAbort, LoadsMiss
<1>8. ASSUME pc[Service] \in InSection \cup {"post"}, Alive,
             pc'[Service] \notin {"lock", "step"}, UNCHANGED pipe, pc'[t] = pc[t]
      PROVE  LoadsMiss'
  <2>1. pc[t] = "blocked" /\ pipe = <<>>
    BY <1>1, <1>8, ServiceAlone DEF InSection
  <2> QED
    BY <1>1, <1>8, <2>1 DEF LoadsMiss
<1>9. CASE FaultFetch \/ FaultUpgrade \/ FaultIgnore \/ ServicePost
  <2>1. /\ pc[Service] \in {"step", "post"} /\ UNCHANGED pipe
        /\ \E l \in {"io", "unlock", "idle"} : pc' = [pc EXCEPT ![Service] = l]
    BY <1>9 DEF FaultFetch, FaultUpgrade, FaultIgnore, ServicePost, InFault, AtPage,
                StartFetch, AfterFetch, IsFetch, Window, Base, ServiceServesFaults, InSection
  <2> QED
    BY <1>1, <1>8, <2>1 DEF InSection, Alive
<1>10. ASSUME NEW w \in Workers, Locked(w) \/ Backend(w), w = Service
       PROVE  LoadsMiss'
  <2>1. CASE Acquire(w)
    BY <1>1, <1>10, <2>1 DEF Acquire, LoadsMiss
  <2>2. CASE FetchDone(w) \/ FlushDone(w) \/ Unlock(w) \/ Backend(w)
    <3>1. pc[Service] \in InSection /\ Alive
      BY <1>10, <2>2 DEF FetchDone, FlushDone, Unlock, Backend, BackendOk, BackendFail, InSection, Alive
    <3>2. req[Service].op = "fault"
      BY <3>1 DEF ServiceServesFaults
    <3>3. UNCHANGED pipe /\ \E l \in {"ack", "unlock", "post"} : pc' = [pc EXCEPT ![Service] = l]
      BY <1>10, <2>2, <3>2
      DEF FetchDone, FlushDone, Unlock, Backend, BackendOk, BackendFail, AfterFetch, IsFetch
    <3> QED
      BY <1>1, <1>8, <3>1, <3>3
  <2> QED
    BY <1>10, <2>1, <2>2 DEF Locked
<1>11. ASSUME pc[t] \in InSection \cup {"lock"}, pc'[t] \notin {"trap", "blocked"}
       PROVE  LoadsMiss'
  BY <1>1, <1>11 DEF LoadsMiss
<1>12. ASSUME Locked(t) \/ Backend(t)
       PROVE  LoadsMiss'
  <2>1. pc[t] \in InSection \cup {"lock"}
    BY <1>12 DEF Locked, Acquire, FetchDone, FlushDone, Unlock, Backend, BackendOk, BackendFail, InSection
  <2>2. pc'[t] \in {"ack", "unlock", "step", "give", "user", "post"}
    BY <1>1, <1>12 DEF Locked, Acquire, FetchDone, FlushDone, Unlock, Backend, BackendOk, BackendFail,
                 AfterFetch, AfterFlush
  <2> QED
    BY <1>11, <2>1, <2>2
<1>13. ASSUME ApiCall(t)
       PROVE  LoadsMiss'
  <2>1. pc[t] \in {"step", "give"}
    BY <1>13 DEF ApiCall, StartFlush, Give, FlushSkip, AcquirePages, PrefetchRun, PrefetchEnd,
                 InvalidatePage, AtPage
  <2>2. pc'[t] \in {"step", "give", "io", "unlock"}
    BY <1>1, <1>13, <2>1
    DEF ApiCall, StartFlush, Give, FlushSkip, AcquirePages, PrefetchRun, PrefetchEnd,
        InvalidatePage, AtPage, StartFetch, AfterFetch
  <2> QED
    BY <1>11, <2>1, <2>2 DEF InSection
<1>14. ASSUME NEW p \in Pages, NEW v \in Values, EngineWrite(p, v)
       PROVE  LoadsMiss'
  BY <1>2, <1>14 DEF EngineWrite
<1>15. CASE UNCHANGED vars
  BY <1>2, <1>15 DEF vars, memory, handoff
<1> QED
  BY <1>1, <1>3, <1>4, <1>5, <1>6, <1>7, <1>9, <1>10, <1>12, <1>13, <1>14, <1>15
  DEF Next, Fault, Serve, Workers

\* Only a fault on a SHARED page upgrades it, and that is a store's.
LEMMA NextUpgrades ==
  ASSUME Sequential, Window, Coherence, LoadsMiss, [Next]_vars
  PROVE  UpgradesForStores
<1> USE ConstantsOK DEF Window, Base, TypeOK
<1> HIDE DEF NoRequest, Request, Span, Mprotect
<1>1. SUFFICES ASSUME NEW p \in Pages, state[p] = "SHARED", state'[p] = "MODIFIED"
               PROVE  StoreWaits(p)
  BY DEF UpgradesForStores
<1>2. PICK t : Threads = {t}
  BY OneThread
<1>3. p \notin io
  BY <1>1 DEF Tracking, TransientsAreOutstanding
<1>4. FaultUpgrade
  <2>1. ASSUME NEW u \in Threads, Issue(u) \/ Access(u) \/ Fault(u) PROVE FALSE
    BY <1>1, <2>1 DEF Issue, Access, Fault, Trap, Enqueue, Wake
  <2>2. ASSUME NEW u \in Threads, ApiCall(u) PROVE FALSE
    BY <1>1, <2>2 DEF ApiCall, StartFlush, Give, FlushSkip, AcquirePages, PrefetchRun, PrefetchEnd,
                      InvalidatePage, StartFetch
  <2>3. ASSUME NEW w \in Workers, Locked(w) \/ Backend(w) PROVE FALSE
    BY <1>1, <1>3, <2>3 DEF Locked, Acquire, FetchDone, FlushDone, Unlock, Backend, BackendOk, BackendFail
  <2>4. CASE Serve /\ ~FaultUpgrade
    BY <1>1, <2>4 DEF Serve, ServiceRead, FaultAbort, FaultFetch, FaultIgnore, ServicePost, StartFetch
  <2>5. ASSUME NEW q \in Pages, NEW v \in Values, EngineWrite(q, v) PROVE FALSE
    BY <1>1, <2>5 DEF EngineWrite
  <2>6. CASE UNCHANGED vars
    BY <1>1, <2>6 DEF vars, memory
  <2> QED
    BY <2>1, <2>2, <2>3, <2>4, <2>5, <2>6 DEF Next
<1>5. /\ lock = Service /\ pc[Service] = "step" /\ cur = p /\ p = req[Service].a
  <2>1. lock = Service /\ pc[Service] = "step" /\ state' = [state EXCEPT ![cur] = "MODIFIED"]
    BY <1>4 DEF FaultUpgrade, InFault, AtPage
  <2> QED
    BY <1>1, <2>1 DEF CursorOnPage
<1>6. pc[t] = "blocked" /\ p = req[t].a
  BY <1>2, <1>5, ServiceAlone DEF Coherence, FaultOfThread, InSection, Alive
<1>7. prot[p] = "READ"
  BY <1>1 DEF Tracking, ProtectionTracksState, ProtectionOf
<1>8. req[t].op = "store"
  BY <1>2, <1>5, <1>6, <1>7 DEF LoadsMiss, Coherence, RequestFits
<1> QED
  BY <1>2, <1>6, <1>8 DEF StoreWaits, Blocked

\* For one thread service_fault's guess is right: a second fault on a readable
\* page is a store, and no page is taken for dirty that was only read.
THEOREM UpgradeTheorem ==
  ASSUME Sequential
  PROVE  Spec => UpgradeMeansStore
<1> DEFINE Inv == Window /\ Coherence /\ LoadsMiss
<1>1. Init => Inv
  BY InitWindow, InitCoherence, ConstantsOK DEF Init, LoadsMiss
<1>2. Inv /\ [Next]_vars => Inv'
  BY NextWindow, NextCoherence, NextLoadsMiss
<1>3. Inv /\ [Next]_vars => UpgradesForStores
  BY NextUpgrades
<1> QED
  BY <1>1, <1>2, <1>3, PTL DEF Spec, UpgradeMeansStore

-----------------------------------------------------------------------------
(***************************************************************************)
(* The refinement: every step is one of CoherentWindow or changes nothing  *)
(* that it sees.                                                           *)
(***************************************************************************)
Mem == [p \in Pages |-> IF state[p] \in {"MODIFIED", "FLUSHING"} THEN host[p] ELSE dev[p]]

Called == [u \in Threads |-> req[u]]

Failed == [u \in Threads |-> lock = u /\ rc = -1]

Coherently == [Coherent!CNext]_(Coherent!cvars)

LEMMA Unseen ==
  ASSUME Mem' = Mem, Called' = Called, Failed' = Failed, UNCHANGED <<dev, lent, rd>>
  PROVE  Coherently
BY DEF Coherently, Coherent!cvars, Mem, Called, Failed

\* What the mapping shows of one thread.
LEMMA Shown ==
  ASSUME NEW t, Threads = {t}
  PROVE  /\ Called = [u \in {t} |-> req[t]] /\ Called' = [u \in {t} |-> req'[t]]
         /\ Failed = [u \in {t} |-> lock = t /\ rc = -1]
         /\ Failed' = [u \in {t} |-> lock' = t /\ rc' = -1]
BY DEF Called, Failed

LEMMA InvokeStep ==
  ASSUME NEW t \in Threads, NEW r \in Requests, Called[t] = NoRequest,
         Called' = [Called EXCEPT ![t] = r],
         lent' = IF r.op = "acquire" THEN lent \ (r.a .. r.b) ELSE lent,
         Mem' = Mem, Failed' = Failed, UNCHANGED <<dev, rd>>
  PROVE  Coherently
<1>1. Coherent!Invoke(t)
  BY Zenon DEF Coherent!Invoke, Mem, Called, Failed
<1> QED
  BY <1>1 DEF Coherently, Coherent!CNext

LEMMA LoadStep ==
  ASSUME NEW t \in Threads, Called[t].op = "load",
         rd' = [rd EXCEPT ![t] = Mem[Called[t].a]],
         Called' = [Called EXCEPT ![t] = NoRequest],
         Mem' = Mem, Failed' = Failed, UNCHANGED <<dev, lent>>
  PROVE  Coherently
<1>1. Coherent!Load(t)
  BY Zenon DEF Coherent!Load, Mem, Called, Failed
<1> QED
  BY <1>1 DEF Coherently, Coherent!CNext

LEMMA StoreStep ==
  ASSUME NEW t \in Threads, Called[t].op = "store",
         Mem' = [Mem EXCEPT ![Called[t].a] = Called[t].val],
         Called' = [Called EXCEPT ![t] = NoRequest],
         Failed' = Failed, UNCHANGED <<dev, lent, rd>>
  PROVE  Coherently
<1>1. Coherent!Store(t)
  BY Zenon DEF Coherent!Store, Mem, Called, Failed
<1> QED
  BY <1>1 DEF Coherently, Coherent!CNext

LEMMA WriteBackStep ==
  ASSUME NEW t \in Threads, NEW p \in Pages, Called[t].op \in {"flush", "release"},
         p \in Called[t].a .. Called[t].b,
         dev' = [dev EXCEPT ![p] = Mem[p]],
         Mem' = Mem, Called' = Called, Failed' = Failed, UNCHANGED <<lent, rd>>
  PROVE  Coherently
<1>1. Coherent!WriteBack(t, p)
  BY Zenon DEF Coherent!WriteBack, Coherent!Covers, Coherent!Range, Mem, Called, Failed
<1> QED
  BY <1>1 DEF Coherently, Coherent!CNext

LEMMA FailStep ==
  ASSUME NEW t \in Threads, Called[t].op \in {"flush", "release", "prefetch"},
         Failed' = [Failed EXCEPT ![t] = TRUE],
         Mem' = Mem, Called' = Called, UNCHANGED <<dev, lent, rd>>
  PROVE  Coherently
<1>1. Coherent!Fail(t)
  BY Zenon DEF Coherent!Fail, Mem, Called, Failed
<1> QED
  BY <1>1 DEF Coherently, Coherent!CNext

LEMMA DiscardStep ==
  ASSUME NEW t \in Threads, NEW p \in Pages, p \in Called[t].a .. Called[t].b,
         Called[t].op = "invalidate" \/ (Called[t].op = "release" /\ Failed[t]),
         Mem' = [Mem EXCEPT ![p] = dev[p]],
         Called' = Called, Failed' = Failed, UNCHANGED <<dev, lent, rd>>
  PROVE  Coherently
<1>1. Coherent!Discard(t, p)
  BY Zenon DEF Coherent!Discard, Coherent!Covers, Coherent!Range, Mem, Called, Failed
<1> QED
  BY <1>1 DEF Coherently, Coherent!CNext

LEMMA ReturnStep ==
  ASSUME NEW t \in Threads,
         Called[t].op \in {"release", "acquire", "flush", "prefetch", "invalidate"},
         Called[t].op \in {"flush", "release"} /\ ~Failed[t] =>
           \A p \in Called[t].a .. Called[t].b : Mem[p] = dev[p],
         lent' = IF Called[t].op = "release" THEN lent \cup (Called[t].a .. Called[t].b) ELSE lent,
         Called' = [Called EXCEPT ![t] = NoRequest],
         Failed' = [Failed EXCEPT ![t] = FALSE],
         Mem' = Mem, UNCHANGED <<dev, rd>>
  PROVE  Coherently
<1>1. Coherent!Return(t)
  BY Zenon DEF Coherent!Return, Coherent!Range, Mem, Called, Failed
<1> QED
  BY <1>1 DEF Coherently, Coherent!CNext

LEMMA EngineStep ==
  ASSUME NEW p \in Pages, NEW v \in Values, p \in lent,
         Mem' = [Mem EXCEPT ![p] = v], dev' = [dev EXCEPT ![p] = v],
         Called' = Called, Failed' = Failed, UNCHANGED <<lent, rd>>
  PROVE  Coherently
<1>1. Coherent!EngineStore(p, v)
  BY Zenon DEF Coherent!EngineStore, Mem, Called, Failed
<1> QED
  BY <1>1 DEF Coherently, Coherent!CNext

\* The thread's own steps are its call, its load and its store; a fault is
\* nothing it can see.
LEMMA ThreadIsCoherent ==
  ASSUME Sequential, NEW t, Threads = {t}, Window, Coherence,
         Issue(t) \/ Access(t) \/ Fault(t)
  PROVE  Coherently
<1> USE ConstantsOK DEF Window, Base, TypeOK
<1> HIDE DEF NoRequest, Request, Span, Mprotect, Fill, Mem, Called, Failed, Coherently
<1>1. UNCHANGED <<state, prot, dev, lock, rc>>
  BY DEF Issue, Access, Fault, Trap, Enqueue, Wake
<1>2. Failed' = Failed
  BY <1>1 DEF Failed
<1>3. CASE Issue(t)
  <2>1. PICK r \in Requests :
          /\ req' = [req EXCEPT ![t] = r]
          /\ lent' = IF r.op = "acquire" THEN lent \ (r.a .. r.b) ELSE lent
    BY <1>3 DEF Issue
  <2>2. Called[t] = NoRequest /\ Called' = [Called EXCEPT ![t] = r]
    BY <1>3, <2>1 DEF Issue, Called, Coherence, RequestFits
  <2>3. Mem' = Mem /\ UNCHANGED <<dev, rd>>
    BY <1>3 DEF Issue, Mem
  <2> QED
    BY <1>2, <2>1, <2>2, <2>3, InvokeStep
<1>4. CASE Access(t)
  <2>1. /\ lock = NoOwner /\ io = {} /\ req[t].a \in Pages
        /\ req' = [req EXCEPT ![t] = NoRequest] /\ lent' = lent
    BY <1>4, NobodyElse, RequestFacts DEF Access
  <2>2. Called[t] = req[t] /\ Called' = [Called EXCEPT ![t] = NoRequest]
    BY <2>1 DEF Called
  <2>3. state[req[t].a] \notin {"FETCHING", "FLUSHING"}
    BY <2>1 DEF Tracking, TransientsAreOutstanding
  <2>4. CASE req[t].op = "load"
    <3>1. prot[req[t].a] # "NONE" /\ host' = host /\ rd' = [rd EXCEPT ![t] = host[req[t].a]]
      BY <1>4, <2>4 DEF Access, Permitted, Allows
    <3>2. state[req[t].a] \in {"SHARED", "MODIFIED"}
      BY <2>1, <2>3, <3>1 DEF Tracking, ProtectionTracksState, ProtectionOf, States
    <3>3. host[req[t].a] = Mem[req[t].a]
      BY <2>1, <3>2 DEF Mem, Coherence, SharedIsClean
    <3>4. Mem' = Mem
      BY <1>1, <3>1 DEF Mem
    <3> QED
      BY <1>1, <1>2, <2>1, <2>2, <2>4, <3>1, <3>3, <3>4, LoadStep
  <2>5. CASE req[t].op = "store"
    <3>1. /\ prot[req[t].a] = "RW" /\ rd' = rd
          /\ host' = [host EXCEPT ![req[t].a] = req[t].val]
      BY <1>4, <2>5 DEF Access, Permitted, Allows
    <3>2. state[req[t].a] = "MODIFIED"
      BY <2>1, <2>3, <3>1 DEF Tracking, ProtectionTracksState, ProtectionOf, States
    <3>3. Mem' = [Mem EXCEPT ![req[t].a] = req[t].val]
      BY <1>1, <2>1, <3>1, <3>2 DEF Mem
    <3> QED
      BY <1>1, <1>2, <2>1, <2>2, <2>5, <3>1, <3>3, StoreStep
  <2> QED
    BY <1>4, <2>4, <2>5 DEF Access
<1>5. CASE Fault(t)
  <2>1. UNCHANGED <<host, req, lent, rd>>
    BY <1>5 DEF Fault, Trap, Enqueue, Wake
  <2> QED
    BY <1>1, <1>2, <2>1, Unseen DEF Mem, Called
<1> QED
  BY <1>3, <1>4, <1>5

\* The service thread moves pages between states that claim equal copies.
LEMMA ServeIsCoherent ==
  ASSUME Sequential, NEW t, Threads = {t}, Window, Coherence, Serve
  PROVE  Coherently
<1> USE ConstantsOK DEF Window, Base, TypeOK
<1> HIDE DEF NoRequest, Request, Span, Mprotect, Fill, Mem, Called, Failed, Coherently
<1>1. UNCHANGED <<host, dev, lent, rd, lock>> /\ req'[t] = req[t]
  BY DEF Serve, ServiceRead, FaultAbort, FaultFetch, FaultUpgrade, FaultIgnore, ServicePost, StartFetch
<1>2. rc' = rc \/ lock = Service
  BY DEF Serve, ServiceRead, FaultAbort, FaultFetch, FaultUpgrade, FaultIgnore, ServicePost,
         InFault, AtPage
<1>3. Called' = Called /\ Failed' = Failed
  BY <1>1, <1>2 DEF Called, Failed
<1>4. Mem' = Mem
  <2>1. CASE FaultFetch
    <3>1. \A p \in Pages : state'[p] = state[p]
              \/ (state[p] \in {"INVALID", "DEVICE"} /\ state'[p] = "FETCHING")
      <4>1. cur \in Pages
        BY <2>1, PageInLoop DEF FaultFetch, InFault
      <4> DEFINE run == FetchRun({p \in Pages : cur <= p /\ p < cur + Prefetch})
      <4>2. run \subseteq {cur} /\ \A p \in run : state[p] \in {"INVALID", "DEVICE"}
        BY <4>1 DEF FetchRun, Sequential
      <4>3. state' = Fill(state, run, "FETCHING")
        BY <2>1 DEF FaultFetch, StartFetch
      <4> QED
        BY <4>2, <4>3 DEF Fill
    <3> QED
      BY <1>1, <3>1 DEF Mem
  <2>2. CASE FaultUpgrade
    <3>1. /\ cur \in Pages /\ state[cur] \in {"SHARED", "MODIFIED"}
          /\ state' = [state EXCEPT ![cur] = "MODIFIED"]
      BY <2>2, PageInLoop DEF FaultUpgrade, InFault
    <3> QED
      BY <1>1, <3>1 DEF Mem, Coherence, SharedIsClean
  <2>3. CASE ~FaultFetch /\ ~FaultUpgrade
    BY <1>1, <2>3 DEF Serve, ServiceRead, FaultAbort, FaultIgnore, ServicePost, Mem
  <2> QED
    BY <2>1, <2>2, <2>3
<1> QED
  BY <1>1, <1>3, <1>4, Unseen

LEMMA TransferredIsCoherent ==
  ASSUME Sequential, NEW t, Threads = {t}, Window, Coherence, NEW w \in Workers,
         FetchDone(w) \/ FlushDone(w)
  PROVE  Coherently
<1> USE ConstantsOK DEF Window, Base, TypeOK
<1> HIDE DEF NoRequest, Request, Span, Mprotect, Fill, Mem, Called, Failed, Coherently
<1>1. lock = w /\ pc[w] = "ack" /\ UNCHANGED <<host, dev, lent, rd, req, lock>>
  BY DEF FetchDone, FlushDone
<1>2. Called' = Called
  BY <1>1 DEF Called
<1>3. Mem' = Mem
  <2>1. \A p \in io : state[p] = IF IsFetch(w) THEN "FETCHING" ELSE "FLUSHING"
    BY <1>1 DEF Tracking, TransientsAreOutstanding, OutstandingAreTransient
  <2>2. CASE FetchDone(w)
    <3>1. \E s \in {"SHARED", "INVALID"} : state' = Fill(state, io, s)
      BY <2>2 DEF FetchDone, Sequential
    <3>2. \A p \in Pages : state'[p] = state[p] \/ (state[p] = "FETCHING" /\ state'[p] \in {"SHARED", "INVALID"})
      BY <2>1, <2>2, <3>1 DEF FetchDone, Fill
    <3> QED
      BY <1>1, <3>2 DEF Mem
  <2>3. CASE FlushDone(w)
    <3>1. state' = Fill(state, io, IF iok THEN "SHARED" ELSE "MODIFIED")
      BY <2>3 DEF FlushDone
    <3>2. \A p \in Pages : \/ state'[p] = state[p]
                           \/ /\ state[p] = "FLUSHING"
                              /\ state'[p] = "MODIFIED" \/ (p \in io /\ iok)
      BY <2>1, <2>3, <3>1 DEF FlushDone, Fill
    <3> QED
      BY <1>1, <3>2 DEF Mem, Coherence, Transferred
  <2> QED
    BY <2>2, <2>3
<1>4. CASE w = Service
  <2>1. Failed' = Failed
    BY <1>1, <1>4 DEF Failed
  <2> QED
    BY <1>1, <1>2, <1>3, <2>1, Unseen
<1>5. CASE w = t
  <2>1. CASE rc' = rc
    <3>1. Failed' = Failed
      BY <1>1, <2>1 DEF Failed
    <3> QED
      BY <1>1, <1>2, <1>3, <3>1, Unseen
  <2>2. CASE rc' # rc
    <3>1. rc' = -1
      BY <2>2 DEF FetchDone, FlushDone
    <3>2. req[t].op \in {"flush", "release", "prefetch"}
      BY <1>1, <1>5 DEF Coherence, RequestFits
    <3>3. Called[t].op \in {"flush", "release", "prefetch"}
      BY <3>2 DEF Called
    <3>4. Failed' = [Failed EXCEPT ![t] = TRUE]
      BY <1>1, <1>5, <3>1 DEF Failed
    <3> QED
      BY <1>1, <1>2, <1>3, <3>3, <3>4, FailStep
  <2> QED
    BY <2>1, <2>2
<1> QED
  BY <1>4, <1>5

\* A fetch fills copies nobody claims; a flush is the write-back.
LEMMA BackendIsCoherent ==
  ASSUME Sequential, NEW t, Threads = {t}, Window, Coherence, NEW w \in Workers, Backend(w)
  PROVE  Coherently
<1> USE ConstantsOK DEF Window, Base, TypeOK
<1> HIDE DEF NoRequest, Request, Span, Mprotect, Fill, Mem, Called, Failed, Coherently
<1>1. /\ lock = w /\ pc[w] = "io"
      /\ UNCHANGED <<state, lent, req, rd, lock, rc>>
  BY DEF Backend, BackendOk, BackendFail
<1>2. PICK S \in SUBSET io : Transfer(w, S)
  BY DEF Backend, BackendOk, BackendFail
<1>3. Called' = Called /\ Failed' = Failed
  BY <1>1 DEF Called, Failed
<1>4. \A p \in io : state[p] = IF IsFetch(w) THEN "FETCHING" ELSE "FLUSHING"
  BY <1>1 DEF Tracking, TransientsAreOutstanding, OutstandingAreTransient
<1>5. CASE IsFetch(w)
  <2>1. dev' = dev /\ \A p \in Pages : host'[p] = host[p] \/ state[p] = "FETCHING"
    BY <1>2, <1>4, <1>5 DEF Transfer
  <2>2. Mem' = Mem
    BY <1>1, <2>1 DEF Mem
  <2> QED
    BY <1>1, <1>3, <2>1, <2>2, Unseen
<1>6. CASE ~IsFetch(w)
  <2>1. w = t
    BY <1>1, <1>6 DEF IsFetch, ServiceServesFaults, InSection
  <2>2. io = {cur} /\ cur \in Pages /\ req[t].a <= cur /\ cur <= req[t].b
    BY <1>1, <1>6, <2>1 DEF FlushOnCursor, CursorOnPage
  <2>3. Called[t] = req[t] /\ req[t].op \in {"flush", "release"}
    BY <1>1, <1>6, <2>1 DEF Called, Coherence, RequestFits, IsFetch
  <2>4. state[cur] = "FLUSHING" /\ host' = host
    BY <1>2, <1>4, <1>6, <2>2 DEF Transfer
  <2>5. Mem[cur] = host[cur]
    BY <2>2, <2>4 DEF Mem
  <2>6. CASE S = {}
    <3>1. dev' = dev
      BY <1>2, <1>6, <2>6 DEF Transfer
    <3>2. Mem' = Mem
      BY <1>1, <2>4, <3>1 DEF Mem
    <3> QED
      BY <1>1, <1>3, <3>1, <3>2, Unseen
  <2>7. CASE S = {cur}
    <3>1. dev' = [dev EXCEPT ![cur] = Mem[cur]]
      BY <1>2, <1>6, <2>2, <2>5, <2>7 DEF Transfer
    <3>2. Mem' = Mem
      BY <1>1, <2>2, <2>4, <3>1 DEF Mem
    <3>3. cur \in Called[t].a .. Called[t].b
      BY <2>2, <2>3, RequestFacts
    <3> QED
      BY <1>1, <1>3, <2>2, <2>3, <3>1, <3>2, <3>3, WriteBackStep
  <2>8. S = {} \/ S = {cur}
    <3>1. ASSUME NEW x, NEW T \in SUBSET {x} PROVE T = {} \/ T = {x}
      <4>1. CASE x \in T
        BY <4>1
      <4>2. CASE x \notin T
        BY <4>2
      <4> QED
        BY <4>1, <4>2
    <3>2. S \in SUBSET {cur}
      BY <1>2, <2>2
    <3> QED
      BY <3>1, <3>2
  <2> QED
    BY <2>6, <2>7, <2>8
<1> QED
  BY <1>5, <1>6

\* Letting the mutex go returns the call.
LEMMA MutexIsCoherent ==
  ASSUME Sequential, NEW t, Threads = {t}, Window, Coherence, NEW w \in Workers,
         Acquire(w) \/ Unlock(w)
  PROVE  Coherently
<1> USE ConstantsOK DEF Window, Base, TypeOK
<1> HIDE DEF NoRequest, Request, Span, Mprotect, Fill, Mem, Called, Failed, Coherently
<1>1. UNCHANGED <<state, host, dev, rd>>
  BY DEF Acquire, Unlock
<1>2. Mem' = Mem
  BY <1>1 DEF Mem
<1>3. CASE Acquire(w)
  <2>1. lock = NoOwner /\ rc = 0 /\ UNCHANGED <<lent, req, rc>>
    BY <1>3 DEF Acquire, Coherence, FreeMeansNoError
  <2>2. Called' = Called /\ Failed' = Failed
    BY <2>1 DEF Called, Failed
  <2> QED
    BY <1>1, <1>2, <2>1, <2>2, Unseen
<1>4. CASE Unlock(w) /\ w = Service
  <2>1. lock = Service /\ req[Service].op = "fault" /\ lock' = NoOwner /\ rc' = 0
    BY <1>4 DEF Unlock, ServiceServesFaults, InSection
  <2>2. lent' = lent /\ req'[t] = req[t]
    BY <1>4, <2>1 DEF Unlock
  <2>3. Called' = Called /\ Failed' = Failed
    BY <2>1, <2>2 DEF Called, Failed
  <2> QED
    BY <1>1, <1>2, <2>2, <2>3, Unseen
<1>5. CASE Unlock(w) /\ w = t
  <2>1. /\ lock = t /\ pc[t] = "step" /\ cur > req[t].b /\ req[t].op \in Calls
        /\ lock' = NoOwner /\ rc' = 0 /\ req' = [req EXCEPT ![t] = NoRequest]
        /\ lent' = IF req[t].op = "release" THEN lent \cup Span(t) ELSE lent
    BY <1>5 DEF Unlock, Coherence, RequestFits, InSection
  <2>2. Called[t] = req[t] /\ Called' = [Called EXCEPT ![t] = NoRequest]
    BY <2>1 DEF Called
  <2>3. Failed[t] = (rc = -1) /\ Failed' = [Failed EXCEPT ![t] = FALSE]
    BY <2>1 DEF Failed
  <2>4. Span(t) = req[t].a .. req[t].b
    BY DEF Span
  <2>5. ASSUME req[t].op \in {"flush", "release"}, rc # -1, NEW p \in req[t].a .. req[t].b
        PROVE  Mem[p] = dev[p]
    <3>1. p \in Pages /\ req[t].a <= p /\ p < cur
      BY <2>1, RequestFacts
    <3>2. state[p] # "MODIFIED"
      BY <2>1, <2>5, <3>1 DEF Coherence, LoopDone
    <3>3. state[p] # "FLUSHING"
      BY <2>1, <3>1, NoTransfer DEF Tracking, TransientsAreOutstanding
    <3> QED
      BY <3>1, <3>2, <3>3 DEF Mem
  <2>6. req[t].op \in {"release", "acquire", "flush", "prefetch", "invalidate"}
    BY <2>1
  <2> QED
    BY <1>1, <1>2, <2>1, <2>2, <2>3, <2>4, <2>5, <2>6, ReturnStep
<1> QED
  BY <1>3, <1>4, <1>5

\* An API call may drop what a page holds only where the promise allows it.
LEMMA ApiIsCoherent ==
  ASSUME Sequential, NEW t, Threads = {t}, Window, Coherence, ApiCall(t)
  PROVE  Coherently
<1> USE ConstantsOK DEF Window, Base, TypeOK
<1> HIDE DEF NoRequest, Request, Span, Mprotect, Fill, Mem, Called, Failed, Coherently
<1>1. /\ lock = t /\ pc[t] \in {"step", "give"} /\ lock' = t
      /\ UNCHANGED <<host, dev, lent, req, rd, rc>>
  BY DEF ApiCall, StartFlush, Give, FlushSkip, AcquirePages, PrefetchRun, PrefetchEnd,
         InvalidatePage, AtPage, StartFetch, Sequential
<1>2. Called' = Called /\ Failed' = Failed /\ Called[t] = req[t] /\ Failed[t] = (rc = -1)
  BY <1>1 DEF Called, Failed
<1>3. ASSUME Mem' = Mem PROVE Coherently
  BY <1>1, <1>2, <1>3, Unseen
<1>4. CASE StartFlush(t)
  <2>1. state[cur] = "MODIFIED" /\ state' = [state EXCEPT ![cur] = "FLUSHING"]
    BY <1>4 DEF StartFlush
  <2>2. Mem' = Mem
    BY <1>1, <2>1 DEF Mem
  <2> QED
    BY <1>3, <2>2
<1>5. CASE AcquirePages(t)
  <2>1. \A p \in Pages : state'[p] = state[p] \/ (state[p] = "DEVICE" /\ state'[p] = "INVALID")
    BY <1>5 DEF AcquirePages, Fill
  <2>2. Mem' = Mem
    BY <1>1, <2>1 DEF Mem
  <2> QED
    BY <1>3, <2>2
<1>6. CASE PrefetchRun(t)
  <2>1. \A p \in Pages : state'[p] = state[p] \/ (state[p] = "INVALID" /\ state'[p] = "FETCHING")
    BY <1>6 DEF PrefetchRun, StartFetch, FetchRun, FirstInvalidRun, Fill
  <2>2. Mem' = Mem
    BY <1>1, <2>1 DEF Mem
  <2> QED
    BY <1>3, <2>2
<1>7. CASE FlushSkip(t) \/ PrefetchEnd(t)
  <2>1. Mem' = Mem
    BY <1>7 DEF FlushSkip, PrefetchEnd, Mem
  <2> QED
    BY <1>3, <2>1
<1>8. ASSUME cur \in Pages, cur \in req[t].a .. req[t].b, state[cur] # "FLUSHING",
             \/ req[t].op = "invalidate"
             \/ req[t].op = "release" /\ (state[cur] = "MODIFIED" => rc = -1),
             NEW s \in {"DEVICE", "INVALID"}, state' = [state EXCEPT ![cur] = s]
      PROVE  Coherently
  <2>1. Mem' = [Mem EXCEPT ![cur] = dev[cur]]
    BY <1>1, <1>8 DEF Mem
  <2>2. CASE state[cur] = "MODIFIED"
    BY <1>1, <1>2, <1>8, <2>1, <2>2, DiscardStep, ZenonT(40)
  <2>3. CASE state[cur] # "MODIFIED"
    <3>1. Mem' = Mem
      BY <1>8, <2>1, <2>3 DEF Mem
    <3> QED
      BY <1>3, <3>1
  <2> QED
    BY <2>2, <2>3
<1>9. cur \in Pages => state[cur] # "FLUSHING"
  BY <1>1, NoTransfer DEF Tracking, TransientsAreOutstanding
<1>10. CASE Give(t)
  <2>1. cur \in Pages /\ req[t].op = "release" /\ req[t].a <= cur /\ cur <= req[t].b
    BY <1>1, <1>10, PageInLoop DEF Give, AtPage, CursorOnPage, FlushOnCursor
  <2>2. state[cur] = "MODIFIED" => rc = -1
    BY <1>1, <1>10 DEF Give, FlushOnCursor
  <2>3. state' = [state EXCEPT ![cur] = "DEVICE"] /\ cur \in req[t].a .. req[t].b
    BY <1>10, <2>1, RequestFacts DEF Give
  <2> QED
    BY <1>8, <1>9, <2>1, <2>2, <2>3
<1>11. CASE InvalidatePage(t)
  <2>1. cur \in Pages /\ req[t].op = "invalidate" /\ req[t].a <= cur /\ cur <= req[t].b
    BY <1>1, <1>11, PageInLoop DEF InvalidatePage, AtPage, FlushOnCursor
  <2>2. cur \in req[t].a .. req[t].b
    BY <2>1, RequestFacts
  <2>3. CASE state' = state
    <3>1. Mem' = Mem
      BY <1>1, <2>3 DEF Mem
    <3> QED
      BY <1>3, <3>1
  <2>4. CASE state' = [state EXCEPT ![cur] = "INVALID"]
    BY <1>8, <1>9, <2>1, <2>2, <2>4
  <2> QED
    BY <1>11, <2>3, <2>4 DEF InvalidatePage
<1> QED
  BY <1>4, <1>5, <1>6, <1>7, <1>10, <1>11 DEF ApiCall

\* The engine writes pages the window knows to be lent.
LEMMA EngineIsCoherent ==
  ASSUME Window, Coherence, NEW p \in Pages, NEW v \in Values, EngineWrite(p, v)
  PROVE  Coherently
<1> USE DEF Window, Base, TypeOK
<1> HIDE DEF Mem, Called, Failed, Coherently
<1>1. /\ p \in lent /\ state[p] = "DEVICE" /\ dev' = [dev EXCEPT ![p] = v]
      /\ UNCHANGED <<state, host, lent, req, rd, lock, rc>>
  BY DEF EngineWrite, Coherence, LentIsDevice
<1>2. Mem' = [Mem EXCEPT ![p] = v]
  BY <1>1 DEF Mem
<1>3. Called' = Called /\ Failed' = Failed
  BY <1>1 DEF Called, Failed
<1> QED
  BY <1>1, <1>2, <1>3, EngineStep

LEMMA NextIsCoherent ==
  ASSUME Sequential, Window, Coherence, [Next]_vars
  PROVE  Coherently
<1>1. PICK t : Threads = {t}
  BY OneThread
<1>2. CASE UNCHANGED vars
  <2>1. Mem' = Mem /\ Called' = Called /\ Failed' = Failed /\ UNCHANGED <<dev, lent, rd>>
    BY <1>2 DEF Mem, Called, Failed
  <2> QED
    BY <2>1, Unseen
<1>3. CASE Issue(t) \/ Access(t) \/ Fault(t)
  BY <1>1, <1>3, ThreadIsCoherent
<1>4. CASE ApiCall(t)
  BY <1>1, <1>4, ApiIsCoherent
<1>5. ASSUME NEW w \in Workers, Locked(w) \/ Backend(w)
      PROVE  Coherently
  BY <1>1, <1>5, TransferredIsCoherent, MutexIsCoherent, BackendIsCoherent DEF Locked
<1>6. CASE Serve
  BY <1>1, <1>6, ServeIsCoherent
<1> QED
  BY <1>1, <1>2, <1>3, <1>4, <1>5, <1>6, EngineIsCoherent DEF Next

LEMMA StartsCoherent == ASSUME Init PROVE Coherent!CInit
<1> USE DEF Init
<1>1. \A p \in Pages : state[p] = "INVALID"
  OBVIOUS
<1>2. Mem = dev /\ dev \in [Pages -> Values]
  BY <1>1 DEF Mem
<1>3. Called = [u \in Threads |-> NoRequest]
  BY ConstantsOK DEF Called
<1>4. Failed = [u \in Threads |-> FALSE]
  BY ConstantsOK DEF Failed
<1>5. rd \in [Threads -> Values] /\ lent = {}
  BY ConstantsOK
<1> QED
  BY <1>2, <1>3, <1>4, <1>5, Zenon DEF Coherent!CInit, Mem, Called, Failed

\* The whole promise of a window to one disciplined thread: every load returns
\* the last value stored, a store is dropped only by an invalidate or by a
\* release that returns -1, a flush or a release that returns 0 has brought
\* the device up to date, and what the engine wrote is seen after an acquire.
\* Page states, faults, protections and failed transfers cannot be seen.
THEOREM CoherentTheorem ==
  ASSUME Sequential
  PROVE  Spec => ImplementsCoherent
<1>1. Init => Window /\ Coherence /\ Coherent!CInit
  BY InitWindow, InitCoherence, StartsCoherent
<1>2. Window /\ Coherence /\ [Next]_vars => (Window /\ Coherence)'
  BY NextWindow, NextCoherence
<1>3. Window /\ Coherence /\ [Next]_vars => [Coherent!CNext]_(Coherent!cvars)
  BY NextIsCoherent DEF Coherently
<1> QED
  BY <1>1, <1>2, <1>3, PTL DEF Spec, ImplementsCoherent, Coherent!CSpec
=============================================================================
