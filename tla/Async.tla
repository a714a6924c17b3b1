------------------------------- MODULE Async -------------------------------
(***************************************************************************)
(* The asynchronous layer of async.c: callers submit requests and wait for *)
(* them, a pool of workers runs them, and ls_close drains the pool and     *)
(* releases what nobody waited for.                                        *)
(*                                                                         *)
(* A section under q_lk or under a request's own lock is one step.  A      *)
(* thread asleep on a condition variable is at "asleep"; a signal moves    *)
(* one sleeper back to the test it sleeps on, a broadcast all of them, and *)
(* either may happen for no reason.                                        *)
(*                                                                         *)
(*   worker:  top --> run --> ran --> account --> top    top --> exit      *)
(*   caller:  idle --> wait --> reap --> idle                              *)
(*   store:   open --> joining --> joined --> closed                       *)
(*                                                                         *)
(* The caller's contract: a request is waited for once, ls_close is called *)
(* when no other call is in progress, and nothing after it.                *)
(***************************************************************************)
EXTENDS Integers, Sequences, FiniteSets

CONSTANTS Workers,    \* threads of the pool
          Callers,    \* threads of the program
          Reqs,       \* request objects; each is allocated at most once
          NoReq,      \* a thread that has none
          Errors      \* what ls_rw, or the rest of ls_close, may fail with

LS_OK == "LS_OK"

ASSUME AsyncAssumption ==
    /\ Workers # {} /\ IsFiniteSet(Workers)
    /\ Workers \cap Callers = {}
    /\ NoReq \notin Reqs
    /\ LS_OK \notin Errors

VARIABLES
    queue,      \* s->qh .. s->qt
    live,       \* s->live: requests not yet released
    stop,       \* s->stop
    drain_err,  \* s->drain_err
    inflight,   \* s->inflight
    status,     \* r->status
    done,       \* requests with r->done set
    accepted,   \* requests submit has accepted
    held,       \* requests whose handle the program has and may wait on
    pc,         \* where each worker and each caller is
    req,        \* the request it is working on or waiting for
    rc,         \* what a worker's ls_rw returned
    phase,      \* how far ls_close has come
    late,       \* requests that ended after ls_close began
    close_rc    \* what ls_close returned

pool == <<queue, stop, drain_err, inflight>>
requests == <<live, status, done, accepted, held, late>>
threads == <<pc, req, rc>>
closing == <<phase, close_rc>>
vars == <<pool, requests, threads, closing>>

\* ls_pool_start: every worker has just begun.
Init ==
    /\ queue = << >>
    /\ live = {}
    /\ stop = FALSE
    /\ drain_err = LS_OK
    /\ inflight = 0
    /\ status = [r \in Reqs |-> LS_OK]
    /\ done = {}
    /\ accepted = {}
    /\ held = {}
    /\ pc = [t \in Workers \cup Callers |-> IF t \in Workers THEN "top" ELSE "idle"]
    /\ req = [t \in Workers \cup Callers |-> NoReq]
    /\ rc = [w \in Workers |-> LS_OK]
    /\ phase = "open"
    /\ late = {}
    /\ close_rc = LS_OK

-----------------------------------------------------------------------------
(* The condition variable q_cv, on which only workers sleep.               *)

Sleepers == {w \in Workers : pc[w] = "asleep"}

\* Slips: nobody is signalled; a broadcast wakes only one.
NobodySignalled(p) == {p}
BroadcastToOne(p) ==
    IF Sleepers = {} THEN p ELSE [p EXCEPT ![CHOOSE w \in Sleepers : TRUE] = "top"]

\* pc after ls_cond_signal: one sleeper, if there is any, tests again.
Signalled(p) ==
    IF Sleepers = {} THEN {p} ELSE {[p EXCEPT ![w] = "top"] : w \in Sleepers}

\* pc after ls_cond_broadcast.
Broadcast(p) == [t \in DOMAIN p |-> IF t \in Sleepers THEN "top" ELSE p[t]]

-----------------------------------------------------------------------------
(* The program's threads.                                                  *)

\* Slip: inflight is not counted up.
SubmitUncounted(c, r) ==
    /\ pc[c] = "idle"
    /\ r \in Reqs \ accepted
    /\ ~stop
    /\ live' = live \cup {r}
    /\ queue' = Append(queue, r)
    /\ pc' \in Signalled(pc)
    /\ accepted' = accepted \cup {r}
    /\ held' = held \cup {r}
    /\ UNCHANGED <<inflight, stop, drain_err, status, done, late, req, rc, closing>>

\* submit, for ls_awrite and ls_aread.  Once ls_close has begun it fails and
\* changes nothing.
submit(c, r) ==
    /\ pc[c] = "idle"
    /\ r \in Reqs \ accepted
    /\ ~stop
    /\ live' = live \cup {r}
    /\ queue' = Append(queue, r)
    /\ inflight' = inflight + 1
    /\ pc' \in Signalled(pc)
    /\ accepted' = accepted \cup {r}
    /\ held' = held \cup {r}
    /\ UNCHANGED <<stop, drain_err, status, done, late, req, rc, closing>>

\* ls_wait is called.
ls_wait(c, r) ==
    /\ phase = "open"
    /\ pc[c] = "idle"
    /\ r \in held
    /\ held' = held \ {r}
    /\ req' = [req EXCEPT ![c] = r]
    /\ pc' = [pc EXCEPT ![c] = "wait"]
    /\ UNCHANGED <<pool, live, status, done, accepted, late, rc, closing>>

\* while (!req->done) ls_cond_wait(...)
AwaitDone(c) ==
    /\ pc[c] = "wait"
    /\ pc' = [pc EXCEPT ![c] = IF req[c] \in done THEN "reap" ELSE "asleep"]
    /\ UNCHANGED <<pool, requests, req, rc, closing>>

\* req_release, and ls_wait returns.
Reap(c) ==
    /\ pc[c] = "reap"
    /\ live' = live \ {req[c]}
    /\ req' = [req EXCEPT ![c] = NoReq]
    /\ pc' = [pc EXCEPT ![c] = "idle"]
    /\ UNCHANGED <<pool, status, done, accepted, held, late, rc, closing>>

\* Slip: an if where ls_wait has a while, so that it does not test done again.
WakeupUntested(t) ==
    /\ pc[t] = "asleep"
    /\ pc' = [pc EXCEPT ![t] = IF t \in Workers THEN "top" ELSE "reap"]
    /\ UNCHANGED <<pool, requests, req, rc, closing>>

\* A thread asleep on a condition variable may wake for no reason.
SpuriousWakeup(t) ==
    /\ pc[t] = "asleep"
    /\ pc' = [pc EXCEPT ![t] = IF t \in Workers THEN "top" ELSE "wait"]
    /\ UNCHANGED <<pool, requests, req, rc, closing>>

-----------------------------------------------------------------------------
(* worker.                                                                 *)

\* Slip: the request is run and left in the queue.
Peek(w) ==
    /\ pc[w] = "top"
    /\ queue # << >>
    /\ req' = [req EXCEPT ![w] = Head(queue)]
    /\ pc' = [pc EXCEPT ![w] = "run"]
    /\ UNCHANGED <<pool, requests, rc, closing>>

Dequeue(w) ==
    /\ pc[w] = "top"
    /\ queue # << >>
    /\ req' = [req EXCEPT ![w] = Head(queue)]
    /\ queue' = Tail(queue)
    /\ pc' = [pc EXCEPT ![w] = "run"]
    /\ UNCHANGED <<stop, drain_err, inflight, requests, rc, closing>>

\* Slip: stop is looked at before the queue, which cancels rather than drains.
StopFirst(w) ==
    /\ pc[w] = "top"
    /\ stop \/ queue = << >>
    /\ pc' = [pc EXCEPT ![w] = IF stop THEN "exit" ELSE "asleep"]
    /\ UNCHANGED <<pool, requests, req, rc, closing>>

\* Nothing queued: sleep, or end if the pool is stopping.
NoWork(w) ==
    /\ pc[w] = "top"
    /\ queue = << >>
    /\ pc' = [pc EXCEPT ![w] = IF stop THEN "exit" ELSE "asleep"]
    /\ UNCHANGED <<pool, requests, req, rc, closing>>

\* ls_rw, which Store models.
Run(w) ==
    /\ pc[w] = "run"
    /\ \E e \in Errors \cup {LS_OK} : rc' = [rc EXCEPT ![w] = e]
    /\ pc' = [pc EXCEPT ![w] = "ran"]
    /\ UNCHANGED <<pool, requests, req, closing>>

\* Slip: nobody waiting for the request is woken.
NoWaiters(r) == {}

\* The callers asleep on r->cv.
WaitersOf(r) == {c \in Callers : pc[c] = "asleep" /\ req[c] = r}

\* Under r->lk: the result, done, and everyone waiting for it is woken.
Complete(w) ==
    LET r == req[w]
    IN  /\ pc[w] = "ran"
        /\ status' = [status EXCEPT ![r] = rc[w]]
        /\ done' = done \cup {r}
        /\ late' = IF stop THEN late \cup {r} ELSE late
        /\ pc' = [t \in DOMAIN pc |-> IF t = w THEN "account"
                                      ELSE IF t \in WaitersOf(r) THEN "wait"
                                      ELSE pc[t]]
        /\ req' = [req EXCEPT ![w] = NoReq]
        /\ UNCHANGED <<pool, live, accepted, held, rc, closing>>

\* Under q_lk: the request, which may be gone by now, is not touched.
Account(w) ==
    /\ pc[w] = "account"
    /\ drain_err' = IF rc[w] # LS_OK /\ drain_err = LS_OK THEN rc[w] ELSE drain_err
    /\ inflight' = inflight - 1
    /\ pc' = [Broadcast(pc) EXCEPT ![w] = "top"]
    /\ rc' = [rc EXCEPT ![w] = LS_OK]
    /\ UNCHANGED <<queue, stop, requests, req, closing>>

-----------------------------------------------------------------------------
(* ls_close and ls_pool_stop.                                              *)

ls_close ==
    /\ phase = "open"
    /\ \A c \in Callers : pc[c] = "idle"
    /\ stop' = TRUE
    /\ pc' = Broadcast(pc)
    /\ phase' = "joining"
    /\ UNCHANGED <<queue, drain_err, inflight, requests, req, rc, close_rc>>

Join ==
    /\ phase = "joining"
    /\ \A w \in Workers : pc[w] = "exit"
    /\ phase' = "joined"
    /\ UNCHANGED <<pool, requests, threads, close_rc>>

\* Requests nobody waited for are released.  What follows, the spill of
\* resident records and the table of contents, may fail.
Release ==
    /\ phase = "joined"
    /\ live' = {}
    /\ held' = {}
    /\ phase' = "closed"
    /\ close_rc' \in Errors \cup {LS_OK}
    /\ UNCHANGED <<pool, status, done, accepted, late, threads>>

-----------------------------------------------------------------------------
Worker(w) == Dequeue(w) \/ NoWork(w) \/ Run(w) \/ Complete(w) \/ Account(w)

Next ==
    \/ \E c \in Callers, r \in Reqs : submit(c, r) \/ ls_wait(c, r)
    \/ \E c \in Callers : AwaitDone(c) \/ Reap(c)
    \/ \E t \in Workers \cup Callers : SpuriousWakeup(t)
    \/ \E w \in Workers : Worker(w)
    \/ ls_close \/ Join \/ Release

Spec == Init /\ [][Next]_vars

\* Threads that can run do run; nobody need ever call anything, and no one
\* may count on a spurious wakeup.
FairSpec ==
    /\ Spec
    /\ \A w \in Workers : WF_vars(Worker(w))
    /\ \A c \in Callers : WF_vars(AwaitDone(c) \/ Reap(c))
    /\ WF_vars(Join \/ Release)

-----------------------------------------------------------------------------
(* Correctness.                                                            *)

TypeOK ==
    /\ queue \in Seq(Reqs)
    /\ live \subseteq Reqs /\ done \subseteq Reqs
    /\ accepted \subseteq Reqs /\ held \subseteq Reqs /\ late \subseteq Reqs
    /\ stop \in BOOLEAN
    /\ drain_err \in Errors \cup {LS_OK}
    /\ inflight \in Nat
    /\ status \in [Reqs -> Errors \cup {LS_OK}]
    /\ pc \in [Workers \cup Callers ->
                 {"top", "run", "ran", "account", "exit",
                  "idle", "wait", "reap", "asleep"}]
    /\ req \in [Workers \cup Callers -> Reqs \cup {NoReq}]
    /\ rc \in [Workers -> Errors \cup {LS_OK}]
    /\ phase \in {"open", "joining", "joined", "closed"}
    /\ close_rc \in Errors \cup {LS_OK}

\* No thread reaches a request that has been freed: the queue, the workers
\* and the callers refer only to live ones, and so does every handle the
\* program may still use.
NoUseAfterFree ==
    /\ \A i \in DOMAIN queue : queue[i] \in live
    /\ \A t \in Workers \cup Callers : req[t] # NoReq => req[t] \in live
    /\ held \subseteq live

\* A request is freed only after it has run: ls_wait returns the result of
\* its request, and ls_close drops none that was accepted.
FreedOnlyWhenDone == accepted \ live \subseteq done

\* A request is run by one worker, once.
RunOnce ==
    /\ \A i, j \in DOMAIN queue : queue[i] = queue[j] => i = j
    /\ \A v, w \in Workers : v # w /\ req[v] # NoReq => req[v] # req[w]
    /\ \A i \in DOMAIN queue : queue[i] \notin done
    /\ \A w \in Workers : req[w] # NoReq =>
         /\ req[w] \notin done
         /\ \A i \in DOMAIN queue : queue[i] # req[w]

\* s->inflight counts the requests accepted and not yet accounted for, and is
\* back to zero when ls_close has joined the workers.  Nothing reads it yet.
InflightExact ==
    /\ inflight = Len(queue)
          + Cardinality({w \in Workers : pc[w] \in {"run", "ran", "account"}})
    /\ phase \in {"joined", "closed"} => inflight = 0

\* What libspill.h says of ls_close: it returns the first error met while
\* draining.
CloseReportsDrainError ==
    phase = "closed" =>
        ((\E r \in late : status[r] # LS_OK) => close_rc # LS_OK)

\* Every accepted request is run: no wakeup is lost between submit and the
\* workers, however many of them are asleep.
RequestsComplete == \A r \in Reqs : r \in live ~> r \in done

\* ls_wait returns.
WaitsReturn == \A c \in Callers : pc[c] = "wait" ~> pc[c] = "idle"

\* ls_close returns, with every worker gone.
CloseReturns == phase = "joining" ~> phase = "closed"
============================================================================
