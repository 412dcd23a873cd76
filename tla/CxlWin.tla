------------------------------- MODULE CxlWin -------------------------------
(***************************************************************************)
(* The host load/store window of cxlwin/src/cxlwin.c: software distributed *)
(* shared memory built on SIGSEGV and mprotect.  Application threads       *)
(* access pages through the MMU or call the ownership API; a protection    *)
(* fault travels through a pipe to one service thread, which performs the  *)
(* transfer under the window's mutex and posts one anonymous semaphore.    *)
(*                                                                         *)
(* A page's contents are one value.  A backend transfer is three steps     *)
(* (start, data moves, answer handled) because the page is accessible, and *)
(* other threads run, while it is outstanding.  An adjacent mprotect and   *)
(* state assignment under the mutex are one step: the state is read only   *)
(* with the mutex held.  Statistics are left out, and so is a range_pages  *)
(* error (-1 before anything is touched).                                  *)
(***************************************************************************)
EXTENDS Integers, Sequences, FiniteSets

CONSTANTS
  Threads,         \* application threads
  Service,         \* the service thread started by ensure_installed
  NoOwner,         \* "the mutex is free"
  NPages,          \* pages in the window
  Values,          \* contents a page may have
  Zero,            \* contents of fresh pages (mmap, zeroed device memory)
  Prefetch,        \* cfg->prefetch_pages: pages fetched per miss
  StrictModes,     \* the values of cfg->strict to consider
  Calls,           \* the API functions the program uses
  IoResults,       \* TRUE: a backend call succeeds, FALSE: it returns != 0
  MprotectResults, \* likewise for mprotect
  Disciplined      \* the program never touches a page it has released

Workers == Threads \cup {Service}
Pages   == 0 .. NPages - 1

ASSUME ConstantsOK ==
  /\ IsFiniteSet(Threads)
  /\ Service \notin Threads
  /\ NoOwner \notin Workers
  /\ NPages \in Nat \ {0}
  /\ Prefetch \in Nat \ {0}
  /\ Zero \in Values
  /\ StrictModes \subseteq BOOLEAN
  /\ IoResults \subseteq BOOLEAN
  /\ MprotectResults \subseteq BOOLEAN
  /\ Disciplined \in BOOLEAN
  /\ Calls \subseteq {"release", "acquire", "flush", "prefetch", "invalidate"}

VARIABLES
  state,   \* w->state: the coherence state of each page
  prot,    \* the MMU protection of each page
  host,    \* contents of the host copy of each page
  dev,     \* contents of each page in device memory
  lent,    \* pages handed to the NMC engine: released, not yet acquired
  strict,  \* w->strict
  pc,      \* control point of every thread
  req,     \* the access, API call or fault each thread is working on
  rd,      \* what the last load of each thread returned
  pipe,    \* g_pipe: addresses of faults not yet read by the service thread
  done,    \* value of the semaphore g_done
  lock,    \* owner of w->lock
  cur,     \* loop index of the lock holder
  io,      \* pages of the backend transfer in progress
  iok,     \* its result
  rc       \* return code the lock holder has accumulated

memory  == <<state, prot, host, dev>>
handoff == <<pipe, done>>
section == <<lock, cur, io, iok, rc>>
vars    == <<memory, lent, strict, pc, req, rd, handoff, section>>

States == {"INVALID", "FETCHING", "SHARED", "MODIFIED", "FLUSHING", "DEVICE"}
Prots  == {"NONE", "READ", "RW"}
PCs    == {"user", "access", "trap", "blocked", "idle", "lock", "step", "io",
           "ack", "give", "unlock", "post", "aborted"}

Request(op, a, b, v) == [op |-> op, a |-> a, b |-> b, val |-> v]
NoRequest == Request("none", 0, 0, Zero)

\* Loads and stores are page-sized; an API range is a non-empty interval.
Requests ==
  {Request("load", p, p, Zero) : p \in Pages}
    \cup {Request("store", p, p, v) : p \in Pages, v \in Values}
    \cup {r \in {Request(op, a, b, Zero) : op \in Calls, a \in Pages, b \in Pages} :
            r.a <= r.b}

Span(w) == req[w].a .. req[w].b

\* The array f with every page of S set to v.
Fill(f, S, v) == [p \in Pages |-> IF p \in S THEN v ELSE f[p]]

Mprotect(S, pr, ok) == prot' = IF ok THEN Fill(prot, S, pr) ELSE prot

Goto(w, label) == pc' = [pc EXCEPT ![w] = label]

-----------------------------------------------------------------------------
(***************************************************************************)
(* Application threads: the MMU and segv_handler.                          *)
(***************************************************************************)

Issue(t) ==
  /\ pc[t] = "user"
  /\ \E r \in Requests :
       /\ Disciplined /\ r.op \in {"load", "store"} => r.a \notin lent
       /\ req' = [req EXCEPT ![t] = r]
       /\ Goto(t, IF r.op \in {"load", "store"} THEN "access" ELSE "lock")
       /\ lent' = IF r.op = "acquire" THEN lent \ (r.a .. r.b) ELSE lent
  /\ UNCHANGED <<memory, strict, rd, handoff, section>>

Allows(pr, op) == IF op = "load" THEN pr # "NONE" ELSE pr = "RW"

Permitted(t) == Allows(prot[req[t].a], req[t].op)

\* The instruction executes against the host copy, whatever the page state.
Access(t) ==
  /\ pc[t] = "access"
  /\ Permitted(t)
  /\ \/ /\ req[t].op = "load"
        /\ rd' = [rd EXCEPT ![t] = host[req[t].a]]
        /\ UNCHANGED host
     \/ /\ req[t].op = "store"
        /\ host' = [host EXCEPT ![req[t].a] = req[t].val]
        /\ UNCHANGED rd
  /\ Goto(t, "user")
  /\ req' = [req EXCEPT ![t] = NoRequest]
  /\ UNCHANGED <<state, prot, dev, lent, strict, handoff, section>>

\* The instruction faults; segv_handler finds the window.
Trap(t) ==
  /\ pc[t] = "access"
  /\ ~Permitted(t)
  /\ Goto(t, "trap")
  /\ UNCHANGED <<memory, lent, strict, req, rd, handoff, section>>

\* segv_handler writes the address, and nothing of who waits, to the pipe.
Enqueue(t) ==
  /\ pc[t] = "trap"
  /\ pipe' = Append(pipe, req[t].a)
  /\ Goto(t, "blocked")
  /\ UNCHANGED <<memory, lent, strict, req, rd, done, section>>

\* Mutant of Wake: the handler does not wait.
WakeUnasked(t) ==
  /\ pc[t] = "blocked"
  /\ done' = done - 1
  /\ Goto(t, "access")
  /\ UNCHANGED <<memory, lent, strict, req, rd, pipe, section>>

\* sem_wait(&g_done) returns in any of the waiting threads; the handler
\* returns and the instruction is executed again.
Wake(t) ==
  /\ pc[t] = "blocked"
  /\ done > 0
  /\ done' = done - 1
  /\ Goto(t, "access")
  /\ UNCHANGED <<memory, lent, strict, req, rd, pipe, section>>

-----------------------------------------------------------------------------
(***************************************************************************)
(* The window mutex.                                                       *)
(***************************************************************************)

\* Mutant of Acquire: the mutex is not exclusive.
AcquireShared(w) ==
  /\ pc[w] = "lock"
  /\ lock' = w
  /\ cur' = req[w].a
  /\ Goto(w, "step")
  /\ UNCHANGED <<memory, lent, strict, req, rd, handoff, io, iok, rc>>

Acquire(w) ==
  /\ pc[w] = "lock"
  /\ lock = NoOwner
  /\ lock' = w
  /\ cur' = req[w].a
  /\ Goto(w, "step")
  /\ UNCHANGED <<memory, lent, strict, req, rd, handoff, io, iok, rc>>

\* A release that returns hands its range to the engine, whatever it returns.
Unlock(w) ==
  /\ lock = w
  /\ \/ pc[w] = "unlock"
     \/ pc[w] = "step" /\ cur > req[w].b
  /\ lock' = NoOwner
  /\ cur' = 0
  /\ rc' = 0
  /\ iok' = TRUE
  /\ Goto(w, IF w = Service THEN "post" ELSE "user")
  /\ req' = [req EXCEPT ![w] = NoRequest]
  /\ lent' = IF req[w].op = "release" THEN lent \cup Span(w) ELSE lent
  /\ UNCHANGED <<memory, strict, rd, handoff, io>>

\* The lock holder w is at the head of the loop over its pages.
AtPage(w, ops) ==
  /\ lock = w
  /\ pc[w] = "step"
  /\ req[w].op \in ops
  /\ cur <= req[w].b

-----------------------------------------------------------------------------
(***************************************************************************)
(* fetch_pages: from the start of the transfer to its answer.              *)
(***************************************************************************)

\* Only the two ends of the interval are trimmed: the pages from the first to
\* the last one that is INVALID or DEVICE, whatever the state of those between.
FetchRun(S) ==
  LET needed == {p \in S : state[p] \in {"INVALID", "DEVICE"}}
  IN  {p \in S : \E q, r \in needed : q <= p /\ p <= r}

IsFetch(w) == req[w].op \in {"fault", "prefetch"}

AfterFetch(w) == IF req[w].op = "fault" THEN "unlock" ELSE "step"

StartFetch(w, S) ==
  LET run == FetchRun(S) IN
  /\ state' = Fill(state, run, "FETCHING")
  /\ \E ok \in MprotectResults :
       /\ Mprotect(run, "RW", ok)
       /\ io' = IF ok THEN run ELSE {}
       /\ rc' = IF ok THEN rc ELSE -1
       /\ Goto(w, IF ok THEN "io" ELSE AfterFetch(w))
  /\ UNCHANGED <<host, dev, lent, strict, req, rd, handoff, lock, iok>>

\* Mutant of FetchDone: a failed fetch leaves its pages FETCHING.
FetchDoneNoReset(w) ==
  /\ lock = w
  /\ pc[w] = "ack"
  /\ IsFetch(w)
  /\ Mprotect(io, IF iok THEN "READ" ELSE "NONE", TRUE)
  /\ state' = IF iok THEN Fill(state, io, "SHARED") ELSE state
  /\ rc' = IF iok THEN rc ELSE -1
  /\ io' = {}
  /\ Goto(w, AfterFetch(w))
  /\ UNCHANGED <<host, dev, lent, strict, req, rd, handoff, lock, cur, iok>>

\* Mutant of FetchDone: the pages fetched are left inaccessible.
FetchDoneUnmapped(w) ==
  /\ lock = w
  /\ pc[w] = "ack"
  /\ IsFetch(w)
  /\ Mprotect(io, "NONE", TRUE)
  /\ state' = Fill(state, io, IF iok THEN "SHARED" ELSE "INVALID")
  /\ rc' = IF iok THEN rc ELSE -1
  /\ io' = {}
  /\ Goto(w, AfterFetch(w))
  /\ UNCHANGED <<host, dev, lent, strict, req, rd, handoff, lock, cur, iok>>

FetchDone(w) ==
  /\ lock = w
  /\ pc[w] = "ack"
  /\ IsFetch(w)
  /\ \E ok \in MprotectResults :
       IF iok
       THEN /\ Mprotect(io, "READ", ok)
            /\ state' = IF ok THEN Fill(state, io, "SHARED") ELSE state
            /\ rc' = IF ok THEN rc ELSE -1
       ELSE /\ Mprotect(io, "NONE", ok)
            /\ state' = Fill(state, io, "INVALID")
            /\ rc' = -1
  /\ io' = {}
  /\ Goto(w, AfterFetch(w))
  /\ UNCHANGED <<host, dev, lent, strict, req, rd, handoff, lock, cur, iok>>

(***************************************************************************)
(* flush_page: one MODIFIED page, which stays writable meanwhile.          *)
(***************************************************************************)

StartFlush(w) ==
  /\ AtPage(w, {"flush", "release"})
  /\ state[cur] = "MODIFIED"
  /\ state' = [state EXCEPT ![cur] = "FLUSHING"]
  /\ io' = {cur}
  /\ Goto(w, "io")
  /\ UNCHANGED <<prot, host, dev, lent, strict, req, rd, handoff, lock, cur, iok, rc>>

AfterFlush(w) ==
  IF req[w].op = "release"
  THEN Goto(w, "give") /\ UNCHANGED cur
  ELSE Goto(w, "step") /\ cur' = cur + 1

\* Mutant of FlushDone: the page is not made read-only again.
FlushDoneWritable(w) ==
  /\ lock = w
  /\ pc[w] = "ack"
  /\ ~IsFetch(w)
  /\ state' = Fill(state, io, IF iok THEN "SHARED" ELSE "MODIFIED")
  /\ rc' = IF iok THEN rc ELSE -1
  /\ io' = {}
  /\ AfterFlush(w)
  /\ UNCHANGED <<prot, host, dev, lent, strict, req, rd, handoff, lock, iok>>

\* Mutant of FlushDone: the backend's result is not looked at.
FlushDoneUnchecked(w) ==
  /\ lock = w
  /\ pc[w] = "ack"
  /\ ~IsFetch(w)
  /\ Mprotect(io, "READ", TRUE)
  /\ state' = Fill(state, io, "SHARED")
  /\ io' = {}
  /\ AfterFlush(w)
  /\ UNCHANGED <<host, dev, lent, strict, req, rd, handoff, lock, iok, rc>>

FlushDone(w) ==
  /\ lock = w
  /\ pc[w] = "ack"
  /\ ~IsFetch(w)
  /\ IF iok
     THEN /\ \E ok \in MprotectResults : Mprotect(io, "READ", ok)
          /\ state' = Fill(state, io, "SHARED")
          /\ UNCHANGED rc
     ELSE /\ state' = Fill(state, io, "MODIFIED")
          /\ rc' = -1
          /\ UNCHANGED prot
  /\ io' = {}
  /\ AfterFlush(w)
  /\ UNCHANGED <<host, dev, lent, strict, req, rd, handoff, lock, iok>>

(***************************************************************************)
(* The backend's read and write, called with the mutex held.               *)
(***************************************************************************)

\* The pages of S reach the other side.
Transfer(w, S) ==
  IF IsFetch(w)
  THEN /\ host' = [p \in Pages |-> IF p \in S THEN dev[p] ELSE host[p]]
       /\ UNCHANGED dev
  ELSE /\ dev' = [p \in Pages |-> IF p \in S THEN host[p] ELSE dev[p]]
       /\ UNCHANGED host

BackendOk(w) ==
  /\ TRUE \in IoResults
  /\ lock = w
  /\ pc[w] = "io"
  /\ Transfer(w, io)
  /\ iok' = TRUE
  /\ Goto(w, "ack")
  /\ UNCHANGED <<state, prot, lent, strict, req, rd, handoff, lock, cur, io, rc>>

\* A call that fails may have moved part of the data, or all of it.
BackendFail(w) ==
  /\ FALSE \in IoResults
  /\ lock = w
  /\ pc[w] = "io"
  /\ \E S \in SUBSET io : Transfer(w, S)
  /\ iok' = FALSE
  /\ Goto(w, "ack")
  /\ UNCHANGED <<state, prot, lent, strict, req, rd, handoff, lock, cur, io, rc>>

-----------------------------------------------------------------------------
(***************************************************************************)
(* The service thread: service_main and service_fault.                     *)
(***************************************************************************)

ServiceRead ==
  /\ pc[Service] = "idle"
  /\ pipe # <<>>
  /\ pipe' = Tail(pipe)
  /\ req' = [req EXCEPT ![Service] = Request("fault", Head(pipe), Head(pipe), Zero)]
  /\ Goto(Service, "lock")
  /\ UNCHANGED <<memory, lent, strict, rd, done, section>>

\* The fault under service, at page cur = req[Service].a.
InFault == AtPage(Service, {"fault"})

\* Strict mode: the process aborts, and every thread with it.
FaultAbort ==
  /\ InFault
  /\ state[cur] = "DEVICE"
  /\ strict
  /\ pc' = [w \in Workers |-> "aborted"]
  /\ UNCHANGED <<memory, lent, strict, req, rd, handoff, section>>

\* Mutant of FaultFetch: strictness is not looked at.
FaultFetchLenient ==
  /\ InFault
  /\ state[cur] \in {"INVALID", "DEVICE"}
  /\ StartFetch(Service, {p \in Pages : cur <= p /\ p < cur + Prefetch})
  /\ UNCHANGED cur

FaultFetch ==
  /\ InFault
  /\ state[cur] = "INVALID" \/ (state[cur] = "DEVICE" /\ ~strict)
  /\ StartFetch(Service, {p \in Pages : cur <= p /\ p < cur + Prefetch})
  /\ UNCHANGED cur

FaultUpgrade ==
  /\ InFault
  /\ state[cur] \in {"SHARED", "MODIFIED"}
  /\ \E ok \in MprotectResults : Mprotect({cur}, "RW", ok)
  /\ state' = [state EXCEPT ![cur] = "MODIFIED"]
  /\ Goto(Service, "unlock")
  /\ UNCHANGED <<host, dev, lent, strict, req, rd, handoff, section>>

FaultIgnore ==
  /\ InFault
  /\ state[cur] \in {"FETCHING", "FLUSHING"}
  /\ Goto(Service, "unlock")
  /\ UNCHANGED <<memory, lent, strict, req, rd, handoff, section>>

\* Mutant of ServicePost: the waiter is not told.
ServicePostSilent ==
  /\ pc[Service] = "post"
  /\ Goto(Service, "idle")
  /\ UNCHANGED <<memory, lent, strict, req, rd, handoff, section>>

ServicePost ==
  /\ pc[Service] = "post"
  /\ done' = done + 1
  /\ Goto(Service, "idle")
  /\ UNCHANGED <<memory, lent, strict, req, rd, pipe, section>>

-----------------------------------------------------------------------------
(***************************************************************************)
(* The ownership API, one page of the range at a time.                     *)
(***************************************************************************)

\* Mutant of Give: a dirty page is given away unflushed.
GiveDirty(w) ==
  /\ lock = w
  /\ pc[w] = "give" \/ AtPage(w, {"release"})
  /\ \E ok \in MprotectResults : Mprotect({cur}, "NONE", ok)
  /\ state' = [state EXCEPT ![cur] = "DEVICE"]
  /\ cur' = cur + 1
  /\ Goto(w, "step")
  /\ UNCHANGED <<host, dev, lent, strict, req, rd, handoff, lock, io, iok, rc>>

\* cxlwin_release, after the flush of a MODIFIED page whatever its result.
Give(w) ==
  /\ lock = w
  /\ \/ pc[w] = "give"
     \/ AtPage(w, {"release"}) /\ state[cur] # "MODIFIED"
  /\ \E ok \in MprotectResults : Mprotect({cur}, "NONE", ok)
  /\ state' = [state EXCEPT ![cur] = "DEVICE"]
  /\ cur' = cur + 1
  /\ Goto(w, "step")
  /\ UNCHANGED <<host, dev, lent, strict, req, rd, handoff, lock, io, iok, rc>>

FlushSkip(w) ==
  /\ AtPage(w, {"flush"})
  /\ state[cur] # "MODIFIED"
  /\ cur' = cur + 1
  /\ UNCHANGED <<memory, lent, strict, pc, req, rd, handoff, lock, io, iok, rc>>

\* cxlwin_acquire changes nothing but w->state: its whole loop is one step.
AcquirePages(w) ==
  /\ AtPage(w, {"acquire"})
  /\ state' = Fill(state, {p \in Span(w) : state[p] = "DEVICE"}, "INVALID")
  /\ cur' = req[w].b + 1
  /\ UNCHANGED <<prot, host, dev, lent, strict, pc, req, rd, handoff, lock, io, iok, rc>>

\* The pages of the first maximal run of INVALID pages in a .. b.
FirstInvalidRun(a, b) ==
  LET inv(p) == state[p] = "INVALID"
  IN  {p \in a .. b : inv(p) /\ \A q \in a .. p : inv(q) => \A r \in q .. p : inv(r)}

\* cxlwin_prefetch: one backend call for each maximal run.
PrefetchRun(w) ==
  /\ AtPage(w, {"prefetch"})
  /\ LET run == FirstInvalidRun(cur, req[w].b) IN
       \E last \in run :
         /\ \A p \in run : p <= last
         /\ StartFetch(w, run)
         /\ cur' = last + 1

PrefetchEnd(w) ==
  /\ AtPage(w, {"prefetch"})
  /\ FirstInvalidRun(cur, req[w].b) = {}
  /\ cur' = req[w].b + 1
  /\ UNCHANGED <<memory, lent, strict, pc, req, rd, handoff, lock, io, iok, rc>>

\* cxlwin_invalidate: dirty data is dropped, DEVICE pages are left alone.
InvalidatePage(w) ==
  /\ AtPage(w, {"invalidate"})
  /\ IF state[cur] = "DEVICE"
     THEN UNCHANGED <<state, prot>>
     ELSE /\ \E ok \in MprotectResults : Mprotect({cur}, "NONE", ok)
          /\ state' = [state EXCEPT ![cur] = "INVALID"]
  /\ cur' = cur + 1
  /\ UNCHANGED <<host, dev, lent, strict, pc, req, rd, handoff, lock, io, iok, rc>>

\* The NMC engine writes a page the program has lent it.  It knows nothing of
\* w->state.
EngineWrite(p, v) ==
  /\ p \in lent
  /\ dev' = [dev EXCEPT ![p] = v]
  /\ UNCHANGED <<state, prot, host, lent, strict, pc, req, rd, handoff, section>>

-----------------------------------------------------------------------------
Init ==
  /\ state = [p \in Pages |-> "INVALID"]
  /\ prot = [p \in Pages |-> "NONE"]
  /\ host = [p \in Pages |-> Zero]
  /\ dev \in [Pages -> Values]
  /\ lent = {}
  /\ strict \in StrictModes
  /\ pc = [w \in Workers |-> IF w = Service THEN "idle" ELSE "user"]
  /\ req = [w \in Workers |-> NoRequest]
  /\ rd = [t \in Threads |-> Zero]
  /\ pipe = <<>>
  /\ done = 0
  /\ lock = NoOwner
  /\ cur = 0
  /\ io = {}
  /\ iok = TRUE
  /\ rc = 0

Fault(t) == Trap(t) \/ Enqueue(t) \/ Wake(t)

Serve == ServiceRead \/ FaultAbort \/ FaultFetch \/ FaultUpgrade
           \/ FaultIgnore \/ ServicePost

ApiCall(t) == StartFlush(t) \/ Give(t) \/ FlushSkip(t) \/ AcquirePages(t)
                \/ PrefetchRun(t) \/ PrefetchEnd(t) \/ InvalidatePage(t)

\* Everything a thread does between taking the mutex and letting it go, the
\* backend's answer apart.
Locked(w) == Acquire(w) \/ FetchDone(w) \/ FlushDone(w) \/ Unlock(w)

Backend(w) == BackendOk(w) \/ BackendFail(w)

Next ==
  \/ \E t \in Threads : Issue(t) \/ Access(t) \/ Fault(t) \/ ApiCall(t)
  \/ \E w \in Workers : Locked(w) \/ Backend(w)
  \/ Serve
  \/ \E p \in Pages, v \in Values : EngineWrite(p, v)

Spec == Init /\ [][Next]_vars

-----------------------------------------------------------------------------
(***************************************************************************)
(* Fairness.  Threads are scheduled and backend calls return: every one of *)
(* them has a timeout.  An idle program issues nothing; the mutex, whose   *)
(* waiters the system does not order, is assumed not to starve the service *)
(* thread only as far as weak fairness goes.  RetrySpec adds that a        *)
(* backend that keeps being called does not fail for ever.                 *)
(***************************************************************************)
Fairness ==
  /\ \A t \in Threads : WF_vars(Access(t) \/ Fault(t) \/ ApiCall(t))
  /\ \A w \in Workers : WF_vars(Locked(w)) /\ WF_vars(Backend(w))
  /\ WF_vars(Serve)

RetrySpec ==
  Spec /\ Fairness /\ \A w \in Workers : SF_vars(BackendOk(w))

-----------------------------------------------------------------------------
(***************************************************************************)
(* Properties.                                                             *)
(***************************************************************************)

RequestType == [op : Calls \cup {"load", "store", "fault", "none"},
                a : Pages, b : Pages, val : Values]

\* Every variable has its type.
TypeOK ==
  /\ state \in [Pages -> States]
  /\ prot \in [Pages -> Prots]
  /\ host \in [Pages -> Values]
  /\ dev \in [Pages -> Values]
  /\ lent \in SUBSET Pages
  /\ strict \in StrictModes
  /\ pc \in [Workers -> PCs]
  /\ req \in [Workers -> RequestType]
  /\ rd \in [Threads -> Values]
  /\ pipe \in Seq(Pages)
  /\ done \in Nat
  /\ lock \in Workers \cup {NoOwner}
  /\ cur \in 0 .. NPages
  /\ io \in SUBSET Pages
  /\ iok \in BOOLEAN
  /\ rc \in {0, -1}

Alive == pc[Service] # "aborted"

InSection == {"step", "io", "ack", "give", "unlock"}

\* The mutex is held by exactly the thread whose control point is between the
\* lock and the unlock of service_fault or of an API function, and a transfer
\* is outstanding only then: two threads never drive the backend at once.
MutexHeld ==
  /\ Alive => \A w \in Workers : pc[w] \in InSection <=> lock = w
  /\ io # {} => lock # NoOwner /\ pc[lock] \in {"io", "ack"}

\* The transient states track the outstanding transfer: a page is FETCHING or
\* FLUSHING exactly while the mutex holder waits for its transfer, so that
\* service_fault never meets one (its comment: "Cannot happen").
OutstandingAreTransient ==
  \A p \in io : state[p] = IF IsFetch(lock) THEN "FETCHING" ELSE "FLUSHING"

TransientsAreOutstanding ==
  /\ {p \in Pages : state[p] \in {"FETCHING", "FLUSHING"}} = io
  /\ OutstandingAreTransient

\* Strengthenings that make the properties above and below inductive: the loop
\* index is a page wherever it is used as one; the fault in service is on the
\* page the index stands at; only the service thread works on faults; abort
\* stops every thread.
CursorOnPage ==
  lock \in Workers =>
    /\ \/ pc[lock] = "give"
       \/ pc[lock] \in {"io", "ack"} /\ ~IsFetch(lock)
       => cur \in Pages
    /\ lock = Service /\ pc[Service] = "step" => cur = req[Service].a

ServiceServesFaults ==
  /\ pc[Service] \in {"lock"} \cup InSection => req[Service].op = "fault"
  /\ \A t \in Threads : req[t].op # "fault"

AbortIsTotal == ~Alive => \A w \in Workers : pc[w] = "aborted"

\* The loop index stays in the range of the call; a flush transfers the page it
\* stands at, and a page still dirty when release gives it away is one whose
\* flush failed.
FlushOnCursor ==
  lock \in Workers =>
    /\ req[lock].a <= cur
    /\ pc[lock] \in {"io", "ack"} /\ ~IsFetch(lock) =>
         io = {cur} /\ cur <= req[lock].b
    /\ pc[lock] = "give" =>
         /\ req[lock].op = "release" /\ cur <= req[lock].b
         /\ state[cur] = "MODIFIED" => rc = -1

\* The table of cxlwin.h, as seen by the program: an instruction the MMU lets
\* through is one that the page's state allows.  A load meets no page without a
\* copy or with half of one, a store none but a page known to be dirty.
DocumentedProtection(s) ==
  CASE s \in {"INVALID", "FETCHING", "DEVICE"} -> "NONE"
    [] s \in {"SHARED", "FLUSHING"}           -> "READ"
    [] s = "MODIFIED"                         -> "RW"

AccessesAsDocumented ==
  \A t \in Threads : pc[t] = "access" /\ Permitted(t) =>
    Allows(DocumentedProtection(state[req[t].a]), req[t].op)

Blocked == {t \in Threads : pc[t] = "blocked"}

\* What service_fault relies on: "Second fault on a readable page == a store".
\* A page becomes dirty only while a thread waits to store to it.
StoreWaits(p) == \E t \in Blocked : req[t].op = "store" /\ req[t].a = p

UpgradesForStores ==
  \A p \in Pages : state[p] = "SHARED" /\ state'[p] = "MODIFIED" => StoreWaits(p)

UpgradeMeansStore == [][UpgradesForStores]_vars

\* No lost wakeup and no surplus one: a blocked thread for each fault in the
\* pipe, in service or answered by a post not yet taken.  Posts are anonymous,
\* so a thread may take another's, fault again and block again; the count
\* stays right.
InService == IF pc[Service] = "idle" THEN 0 ELSE 1

PostsMatchWaiters ==
  Alive => Cardinality(Blocked) = Len(pipe) + done + InService

\* A page leaves device bias only by an acquire of it, or by a host access to
\* that very page in a window that is not strict (the access cxlwin.h says is
\* "counted").
BiasGivenUp(p) ==
  \/ \E t \in Threads : lock = t /\ req[t].op = "acquire" /\ p \in Span(t)
  \/ lock = Service /\ req[Service].a = p /\ ~strict

KeepsBias ==
  \A p \in Pages : state[p] = "DEVICE" /\ state'[p] # "DEVICE" => BiasGivenUp(p)

BiasKept == [][KeepsBias]_vars

\* A dirty page stops being dirty only by being written back, by an invalidate
\* of it, or by a release that is going to return -1: cxlwin.h lists no other
\* transition out of MODIFIED ("host copy dirty; device copy stale").
DropsDirty(t, p) ==
  /\ lock = t
  /\ p \in Span(t)
  /\ req[t].op = "invalidate" \/ (req[t].op = "release" /\ rc = -1)

KeepsDirty ==
  \A p \in Pages : state[p] = "MODIFIED" =>
    \/ state'[p] \in {"MODIFIED", "FLUSHING"}
    \/ \E t \in Threads : DropsDirty(t, p)

DirtyKept == [][KeepsDirty]_vars

\* SHARED means what cxlwin.h says: "host has a clean copy; device copy still
\* valid".  The two copies are equal.
SharedIsClean ==
  \A p \in Pages : state[p] = "SHARED" => host[p] = dev[p]

(***************************************************************************)
(* The window implements the coherent memory: the authoritative copy is the*)
(* host's while the page is dirty or being written back, the device's      *)
(* otherwise.                                                              *)
(***************************************************************************)
Coherent ==
  INSTANCE CoherentWindow WITH
    mem     <- [p \in Pages |-> IF state[p] \in {"MODIFIED", "FLUSHING"}
                                THEN host[p] ELSE dev[p]],
    backing <- dev,
    call    <- [t \in Threads |-> req[t]],
    failed  <- [t \in Threads |-> lock = t /\ rc = -1]

\* Every load returns the last value stored, no store is lost but by an
\* invalidate or a release that returns -1, and a flush or release that
\* returns 0 has brought the device up to date.
ImplementsCoherent == Coherent!CSpec

\* Every access a program makes and every call is eventually completed,
\* however many transfers fail on the way.
EveryRequestCompletes ==
  \A t \in Threads : pc[t] # "user" ~> pc[t] = "user"
=============================================================================
