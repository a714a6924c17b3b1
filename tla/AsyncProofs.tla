---------------------------- MODULE AsyncProofs ----------------------------
(***************************************************************************)
(* The lifetime of a request, for any number of workers, callers and       *)
(* requests: nothing reaches one that is freed, none is freed before it    *)
(* ran, and each runs once.                                                *)
(*                                                                         *)
(* None of the three is inductive.  A request freed by ls_wait is safe     *)
(* because only done requests are freed and only pending ones are queued   *)
(* or run; ls_close frees everything, which is safe because a worker exits *)
(* only from an empty queue, no request enters the queue after stop, and   *)
(* every pending request is queued or in a worker's hands.                 *)
(***************************************************************************)
EXTENDS Async, FiniteSetTheorems, TLAPS

Queued == {queue[i] : i \in 1..Len(queue)}

\* The part of TypeOK the argument uses.
Typed ==
    /\ queue \in Seq(Reqs)
    /\ live \subseteq accepted /\ done \subseteq accepted
    /\ accepted \subseteq Reqs /\ held \subseteq Reqs
    /\ stop \in BOOLEAN
    /\ pc \in [Workers \cup Callers ->
                 {"top", "run", "ran", "account", "exit",
                  "idle", "wait", "reap", "asleep"}]
    /\ req \in [Workers \cup Callers -> Reqs \cup {NoReq}]

\* A worker has a request while it runs it, and no longer.
WorkersHold ==
    \A w \in Workers :
        /\ pc[w] \in {"top", "asleep", "run", "ran", "account", "exit"}
        /\ req[w] # NoReq <=> pc[w] \in {"run", "ran"}

\* A caller has a request while it waits for it; it reaps a done one.
CallersHold ==
    \A c \in Callers :
        /\ pc[c] \in {"idle", "wait", "asleep", "reap"}
        /\ req[c] # NoReq <=> pc[c] # "idle"
        /\ pc[c] = "reap" => req[c] \in done

\* A request is waited for by one caller, which has given up the handle.
WaitedOnce ==
    /\ \A c \in Callers : req[c] \notin held
    /\ \A c, d \in Callers : c # d /\ req[c] # NoReq => req[c] # req[d]

\* A request that is accepted and not done is queued or being run.
Located ==
    \A r \in accepted \ done : r \in Queued \/ \E w \in Workers : req[w] = r

\* A worker exits only when there is nothing left to run, ever.
Drained ==
    /\ stop <=> phase # "open"
    /\ phase # "open" => \A c \in Callers : pc[c] = "idle"
    /\ \A w \in Workers : pc[w] = "exit" => stop /\ queue = << >>
    /\ phase \in {"joined", "closed"} => \A w \in Workers : pc[w] = "exit"

\* What is queued or run is live, not done, and in one place.
PendingLive ==
    /\ \A i \in 1..Len(queue) : queue[i] \in live \ done
    /\ \A i, j \in 1..Len(queue) : queue[i] = queue[j] => i = j
    /\ \A w \in Workers : req[w] # NoReq => req[w] \in live \ done
    /\ \A v, w \in Workers : v # w /\ req[v] # NoReq => req[v] # req[w]
    /\ \A w \in Workers, i \in 1..Len(queue) : queue[i] # req[w]

\* What the program may still use is live.
UsedLive ==
    /\ \A c \in Callers : req[c] # NoReq => req[c] \in live
    /\ held \subseteq live

LifeInv ==
    /\ Typed
    /\ WorkersHold
    /\ CallersHold
    /\ WaitedOnce
    /\ Located
    /\ Drained
    /\ PendingLive
    /\ UsedLive
    /\ FreedOnlyWhenDone

-----------------------------------------------------------------------------
(* Steps.                                                                  *)

\* The condition variable's operations change only where sleeping workers
\* are: they are back at the top of worker's loop.
LEMMA SignalledProps ==
    ASSUME LifeInv, NEW p \in Signalled(pc)
    PROVE  /\ p \in [Workers \cup Callers ->
                 {"top", "run", "ran", "account", "exit",
                  "idle", "wait", "reap", "asleep"}]
           /\ \A t \in Workers \cup Callers :
                p[t] = pc[t] \/ (t \in Workers /\ pc[t] = "asleep" /\ p[t] = "top")
BY DEF Signalled, Sleepers, LifeInv, Typed

\* A broadcast wakes every sleeping worker and moves nobody else.
LEMMA BroadcastProps ==
    ASSUME LifeInv
    PROVE  /\ Broadcast(pc) \in [Workers \cup Callers ->
                 {"top", "run", "ran", "account", "exit",
                  "idle", "wait", "reap", "asleep"}]
           /\ \A t \in Workers \cup Callers :
                \/ Broadcast(pc)[t] = pc[t]
                \/ t \in Workers /\ pc[t] = "asleep" /\ Broadcast(pc)[t] = "top"
BY DEF Broadcast, Sleepers, LifeInv, Typed

\* What submit adds is the last; the others stay where they are.
LEMMA AppendQueue ==
    ASSUME NEW q \in Seq(Reqs), NEW r \in Reqs
    PROVE  /\ Append(q, r) \in Seq(Reqs)
           /\ Len(Append(q, r)) = Len(q) + 1
           /\ \A i \in 1..Len(q) : Append(q, r)[i] = q[i]
           /\ Append(q, r)[Len(q) + 1] = r
OBVIOUS

\* What worker takes is the head; the rest move up by one.
LEMMA TailQueue ==
    ASSUME NEW q \in Seq(Reqs), q # << >>
    PROVE  /\ Tail(q) \in Seq(Reqs)
           /\ Len(q) \in Nat /\ Len(q) > 0
           /\ Len(Tail(q)) = Len(q) - 1
           /\ \A i \in 1..(Len(q) - 1) : Tail(q)[i] = q[i + 1]
           /\ Head(q) = q[1]
OBVIOUS

\* Nothing is queued, accepted or held when the pool starts.
LEMMA InitLife == Init => LifeInv
<1> SUFFICES ASSUME Init PROVE LifeInv
  OBVIOUS
<1> USE DEF Init
<1>1. Typed
  <2>1. pc \in [Workers \cup Callers ->
                 {"top", "run", "ran", "account", "exit",
                  "idle", "wait", "reap", "asleep"}]
    OBVIOUS
  <2>2. queue \in Seq(Reqs)
    OBVIOUS
  <2>3. req \in [Workers \cup Callers -> Reqs \cup {NoReq}]
    OBVIOUS
  <2>4. /\ live \subseteq accepted /\ done \subseteq accepted
        /\ accepted \subseteq Reqs /\ held \subseteq Reqs
        /\ stop \in BOOLEAN
    OBVIOUS
  <2> QED
    BY ONLY <2>1, <2>2, <2>3, <2>4 DEF Typed
<1>2. WorkersHold
  BY DEF WorkersHold
<1>3. CallersHold
  BY AsyncAssumption DEF CallersHold
<1>4. WaitedOnce /\ Located /\ UsedLive
  BY DEF WaitedOnce, Located, UsedLive
<1>5. Drained
  BY AsyncAssumption DEF Drained
<1>6. PendingLive
  BY DEF PendingLive
<1>7. FreedOnlyWhenDone
  BY DEF FreedOnlyWhenDone
<1> QED
  BY <1>1, <1>2, <1>3, <1>4, <1>5, <1>6, <1>7 DEF LifeInv

\* A new request is nobody's yet.
LEMMA SubmitLife ==
    ASSUME LifeInv, NEW c \in Callers, NEW r \in Reqs, submit(c, r)
    PROVE  LifeInv'
<1> USE DEF LifeInv
<1>1. /\ queue' \in Seq(Reqs)
      /\ Len(queue) \in Nat
      /\ Len(queue') = Len(queue) + 1
      /\ \A i \in 1..Len(queue) : queue'[i] = queue[i]
      /\ queue'[Len(queue) + 1] = r
  BY AppendQueue DEF submit, Typed
<1>2. /\ pc' \in [Workers \cup Callers ->
                 {"top", "run", "ran", "account", "exit",
                  "idle", "wait", "reap", "asleep"}]
      /\ \A t \in Workers \cup Callers :
           pc'[t] = pc[t] \/ (t \in Workers /\ pc[t] = "asleep" /\ pc'[t] = "top")
  BY SignalledProps DEF submit
<1>3. r \notin accepted /\ ~stop /\ UNCHANGED <<stop, done, req, phase>>
  BY DEF submit, closing
<1>4. /\ accepted' = accepted \cup {r}
      /\ live' = live \cup {r}
      /\ held' = held \cup {r}
  BY DEF submit
<1>5. Typed'
  BY <1>1, <1>2, <1>3, <1>4 DEF Typed
<1>6. WorkersHold'
  BY <1>2, <1>3 DEF WorkersHold
<1>7. CallersHold' /\ Drained'
  BY <1>2, <1>3, AsyncAssumption DEF CallersHold, Drained
<1>8. \A t \in Workers \cup Callers : req[t] # r
  BY <1>3, AsyncAssumption DEF Typed, PendingLive, UsedLive
<1>9. WaitedOnce' /\ UsedLive'
  BY <1>3, <1>4, <1>8 DEF WaitedOnce, UsedLive
<1>10. Located'
  <2> SUFFICES ASSUME NEW q \in accepted' \ done',
                      ~(\E w \in Workers : req'[w] = q)
               PROVE  \E i \in 1..Len(queue') : queue'[i] = q
    BY DEF Located, Queued
  <2>1. CASE q = r
    BY <2>1, <1>1
  <2>2. CASE q # r
    <3>1. PICK i \in 1..Len(queue) : queue[i] = q
      BY <2>2, <1>3, <1>4 DEF Located, Queued
    <3> QED
      BY <3>1, <1>1
  <2> QED
    BY <2>1, <2>2
<1>11. PendingLive'
  <2>1. \A i \in 1..Len(queue) : queue[i] # r
    BY <1>3 DEF PendingLive, Typed
  <2>2. \A i \in 1..Len(queue') : i = Len(queue) + 1 \/ i \in 1..Len(queue)
    BY <1>1
  <2>3. \A i \in 1..Len(queue') : queue'[i] \in live' \ done'
    BY <2>2, <1>1, <1>3, <1>4 DEF PendingLive, Typed
  <2>4. \A i, j \in 1..Len(queue') : queue'[i] = queue'[j] => i = j
    BY <2>1, <2>2, <1>1 DEF PendingLive
  <2>5. \A w \in Workers, i \in 1..Len(queue') : queue'[i] # req'[w]
    BY <2>2, <1>1, <1>3, <1>8 DEF PendingLive
  <2> QED
    BY <2>3, <2>4, <2>5, <1>3, <1>4 DEF PendingLive
<1>12. FreedOnlyWhenDone'
  BY <1>3, <1>4 DEF FreedOnlyWhenDone
<1> QED
  BY <1>5, <1>6, <1>7, <1>9, <1>10, <1>11, <1>12

\* The queue, the sets of requests and ls_close are left alone, and only a
\* caller's own request and place change.
LEMMA WaitLife ==
    ASSUME LifeInv, NEW c \in Callers, NEW r \in Reqs, ls_wait(c, r)
    PROVE  LifeInv'
<1> USE DEF LifeInv
<1>1. /\ UNCHANGED <<queue, live, stop, done, accepted, phase>>
      /\ phase = "open" /\ r \in held /\ held' = held \ {r}
      /\ pc[c] = "idle" /\ c \notin Workers
      /\ r # NoReq
  BY AsyncAssumption DEF ls_wait, pool, closing
<1>2. /\ pc' = [pc EXCEPT ![c] = "wait"]
      /\ req' = [req EXCEPT ![c] = r]
  BY DEF ls_wait
<1>3. Typed'
  BY <1>1, <1>2 DEF Typed
<1>4. \A w \in Workers : pc'[w] = pc[w] /\ req'[w] = req[w]
  BY <1>1, <1>2 DEF Typed
<1>5. WorkersHold' /\ PendingLive'
  BY <1>1, <1>4 DEF WorkersHold, PendingLive
<1>6. CallersHold'
  BY <1>1, <1>2 DEF CallersHold, Typed
<1>7. WaitedOnce'
  BY <1>1, <1>2 DEF WaitedOnce, Typed
<1>8. Located' /\ Drained'
  BY <1>1, <1>4 DEF Located, Queued, Drained
<1>9. UsedLive' /\ FreedOnlyWhenDone'
  BY <1>1, <1>2 DEF UsedLive, FreedOnlyWhenDone, Typed
<1> QED
  BY <1>3, <1>5, <1>6, <1>7, <1>8, <1>9

\* A step that moves one thread within what it already holds.
LEMMA MoveLife ==
    ASSUME LifeInv, NEW t \in Workers \cup Callers,
           UNCHANGED <<queue, live, stop, done, accepted, held, req, phase>>,
           NEW x, pc' = [pc EXCEPT ![t] = x],
           \/ t \in Workers /\ pc[t] = "run" /\ x = "ran"
           \/ t \in Workers /\ pc[t] \in {"top", "asleep"} /\ x \in {"top", "asleep"}
           \/ t \in Workers /\ pc[t] = "top" /\ x = "exit" /\ stop /\ queue = << >>
           \/ t \in Callers /\ pc[t] \in {"wait", "asleep"} /\ x \in {"wait", "asleep"}
           \/ t \in Callers /\ pc[t] = "wait" /\ x = "reap" /\ req[t] \in done
    PROVE  LifeInv'
<1> USE DEF LifeInv
<1>1. Typed'
  BY DEF Typed
<1>2. \A u \in Workers \cup Callers : pc'[u] = IF u = t THEN x ELSE pc[u]
  BY DEF Typed
<1>3. WorkersHold' /\ CallersHold' /\ Drained'
  BY <1>2, AsyncAssumption DEF WorkersHold, CallersHold, Drained
<1>4. WaitedOnce' /\ Located' /\ PendingLive' /\ UsedLive' /\ FreedOnlyWhenDone'
  BY DEF WaitedOnce, Located, Queued, PendingLive, UsedLive, FreedOnlyWhenDone
<1> QED
  BY <1>1, <1>3, <1>4

\* The request freed is done, so it is neither queued nor run, and it was
\* this caller's alone.
LEMMA ReapLife ==
    ASSUME LifeInv, NEW c \in Callers, Reap(c)
    PROVE  LifeInv'
<1> USE DEF LifeInv
<1>1. /\ UNCHANGED <<queue, stop, done, accepted, held, phase>>
      /\ pc[c] = "reap" /\ c \notin Workers
      /\ live' = live \ {req[c]}
      /\ pc' = [pc EXCEPT ![c] = "idle"]
      /\ req' = [req EXCEPT ![c] = NoReq]
  BY AsyncAssumption DEF Reap, pool, closing
<1>2. req[c] # NoReq /\ req[c] \in done /\ req[c] \notin held
  BY <1>1 DEF CallersHold, WaitedOnce
<1>3. Typed'
  BY <1>1 DEF Typed
<1>4. \A w \in Workers : pc'[w] = pc[w] /\ req'[w] = req[w]
  BY <1>1 DEF Typed
<1>5. WorkersHold'
  BY <1>4 DEF WorkersHold
<1>6. PendingLive'
  BY <1>1, <1>2, <1>4 DEF PendingLive
<1>7. CallersHold'
  BY <1>1 DEF CallersHold, Typed
<1>8. WaitedOnce'
  BY <1>1, AsyncAssumption DEF WaitedOnce, Typed
<1>9. Located' /\ Drained'
  BY <1>1, <1>4 DEF Located, Queued, Drained, Typed
<1>10. UsedLive'
  BY <1>1, <1>2 DEF UsedLive, WaitedOnce, Typed
<1>11. FreedOnlyWhenDone'
  BY <1>1, <1>2 DEF FreedOnlyWhenDone
<1> QED
  BY <1>3, <1>5, <1>6, <1>7, <1>8, <1>9, <1>10, <1>11

\* The request leaves the queue for the worker's hands.
LEMMA DequeueLife ==
    ASSUME LifeInv, NEW w \in Workers, Dequeue(w)
    PROVE  LifeInv'
<1> USE DEF LifeInv
<1>1. /\ queue' \in Seq(Reqs)
      /\ Len(queue) \in Nat /\ Len(queue) > 0
      /\ Len(queue') = Len(queue) - 1
      /\ \A i \in 1..(Len(queue) - 1) : queue'[i] = queue[i + 1]
      /\ Head(queue) = queue[1]
  BY TailQueue DEF Dequeue, Typed
<1>2. /\ UNCHANGED <<stop, live, done, accepted, held, phase>>
      /\ pc[w] = "top" /\ w \notin Callers
      /\ pc' = [pc EXCEPT ![w] = "run"]
      /\ req' = [req EXCEPT ![w] = queue[1]]
  BY <1>1, AsyncAssumption DEF Dequeue, requests, closing
<1>3. queue[1] \in live \ done /\ queue[1] \in Reqs /\ queue[1] # NoReq
  BY <1>1, AsyncAssumption DEF PendingLive, Typed
<1>4. Typed'
  BY <1>1, <1>2, <1>3 DEF Typed
<1>5. /\ \A c \in Callers : pc'[c] = pc[c] /\ req'[c] = req[c]
      /\ \A v \in Workers : pc'[v] = IF v = w THEN "run" ELSE pc[v]
      /\ \A v \in Workers : req'[v] = IF v = w THEN queue[1] ELSE req[v]
  BY <1>2 DEF Typed
<1>6. WorkersHold'
  BY <1>3, <1>5 DEF WorkersHold
<1>7. CallersHold' /\ WaitedOnce' /\ UsedLive'
  BY <1>2, <1>5 DEF CallersHold, WaitedOnce, UsedLive
<1>8. \A v \in Workers : pc[v] # "exit"
  BY <1>1 DEF Drained
<1>9. Drained'
  BY <1>2, <1>5, <1>8 DEF Drained
<1>10. Located'
  <2> SUFFICES ASSUME NEW q \in accepted' \ done',
                      ~(\E v \in Workers : req'[v] = q)
               PROVE  \E i \in 1..Len(queue') : queue'[i] = q
    BY DEF Located, Queued
  <2>1. req[w] = NoReq /\ q # queue[1]
    BY <1>2, <1>5 DEF WorkersHold
  <2>2. q # NoReq
    BY <1>2, AsyncAssumption DEF Typed
  <2>3. PICK i \in 1..Len(queue) : queue[i] = q
    BY <1>2, <1>5, <2>1, <2>2 DEF Located, Queued
  <2>4. i # 1
    BY <2>1, <2>3
  <2>5. i - 1 \in 1..Len(queue') /\ (i - 1) + 1 = i
    BY <2>4, <1>1
  <2> QED
    BY <2>3, <2>5, <1>1
<1>11. PendingLive'
  <2>1. \A i \in 1..Len(queue') : i + 1 \in 1..Len(queue) /\ queue'[i] = queue[i + 1]
    BY <1>1
  <2>2. \A i \in 1..Len(queue') : queue'[i] \in live' \ done'
    BY <2>1, <1>2 DEF PendingLive
  <2>3. \A i, j \in 1..Len(queue') : queue'[i] = queue'[j] => i = j
    <3> SUFFICES ASSUME NEW i \in 1..Len(queue'), NEW j \in 1..Len(queue'),
                        queue'[i] = queue'[j]
                 PROVE  i = j
      OBVIOUS
    <3>1. i + 1 = j + 1
      BY <2>1 DEF PendingLive
    <3> QED
      BY <3>1, <1>1
  <2>4. \A i \in 1..Len(queue') : queue'[i] # queue[1]
    <3> SUFFICES ASSUME NEW i \in 1..Len(queue'), queue'[i] = queue[1]
                 PROVE  FALSE
      OBVIOUS
    <3>1. i + 1 = 1
      BY <2>1, <1>1 DEF PendingLive
    <3> QED
      BY <3>1, <1>1
  <2>5. \A v \in Workers : req[v] # queue[1]
    BY <1>1 DEF PendingLive
  <2>6. \A v \in Workers : req'[v] # NoReq => req'[v] \in live' \ done'
    BY <1>2, <1>3, <1>5 DEF PendingLive
  <2>7. \A u, v \in Workers : u # v /\ req'[u] # NoReq => req'[u] # req'[v]
    BY <2>5, <1>3, <1>5 DEF PendingLive
  <2>8. \A v \in Workers, i \in 1..Len(queue') : queue'[i] # req'[v]
    BY <2>1, <2>4, <1>5 DEF PendingLive
  <2> QED
    BY <2>2, <2>3, <2>6, <2>7, <2>8 DEF PendingLive
<1>12. FreedOnlyWhenDone'
  BY <1>2 DEF FreedOnlyWhenDone
<1> QED
  BY <1>4, <1>6, <1>7, <1>9, <1>10, <1>11, <1>12

\* The worker lets go of the request as it becomes done.
LEMMA CompleteLife ==
    ASSUME LifeInv, NEW w \in Workers, Complete(w)
    PROVE  LifeInv'
<1> USE DEF LifeInv
<1>1. /\ UNCHANGED <<queue, stop, live, accepted, held, phase>>
      /\ pc[w] = "ran" /\ w \notin Callers
      /\ done' = done \cup {req[w]}
      /\ req' = [req EXCEPT ![w] = NoReq]
      /\ pc' = [t \in DOMAIN pc |-> IF t = w THEN "account"
                                    ELSE IF t \in WaitersOf(req[w]) THEN "wait"
                                    ELSE pc[t]]
  BY AsyncAssumption DEF Complete, pool, closing
<1>2. req[w] # NoReq /\ req[w] \in live \ done /\ req[w] \in Reqs
  BY <1>1 DEF WorkersHold, PendingLive, Typed
<1>3. /\ \A c \in Callers : req'[c] = req[c]
      /\ \A c \in Callers : pc'[c] = pc[c] \/ (pc[c] = "asleep" /\ pc'[c] = "wait")
      /\ \A v \in Workers : pc'[v] = IF v = w THEN "account" ELSE pc[v]
      /\ \A v \in Workers : req'[v] = IF v = w THEN NoReq ELSE req[v]
  BY <1>1, AsyncAssumption DEF WaitersOf, Typed
<1>4. Typed'
  <2>1. pc' \in [Workers \cup Callers ->
                 {"top", "run", "ran", "account", "exit",
                  "idle", "wait", "reap", "asleep"}]
    BY <1>1 DEF Typed
  <2> QED
    BY <2>1, <1>1, <1>2 DEF Typed
<1>5. WorkersHold'
  BY <1>3 DEF WorkersHold
<1>6. CallersHold' /\ WaitedOnce' /\ UsedLive'
  BY <1>1, <1>3 DEF CallersHold, WaitedOnce, UsedLive
<1>7. Drained'
  BY <1>1, <1>3 DEF Drained, CallersHold
<1>8. Located'
  BY <1>1, <1>3 DEF Located, Queued
<1>9. PendingLive'
  BY <1>1, <1>2, <1>3, AsyncAssumption DEF PendingLive, Typed
<1>10. FreedOnlyWhenDone'
  BY <1>1 DEF FreedOnlyWhenDone
<1> QED
  BY <1>4, <1>5, <1>6, <1>7, <1>8, <1>9, <1>10

\* Account and ls_close touch no request.
LEMMA AccountLife ==
    ASSUME LifeInv, NEW w \in Workers, Account(w)
    PROVE  LifeInv'
<1> USE DEF LifeInv
<1>1. /\ UNCHANGED <<queue, stop, live, done, accepted, held, req, phase>>
      /\ pc[w] = "account" /\ w \notin Callers
      /\ pc' = [Broadcast(pc) EXCEPT ![w] = "top"]
  BY AsyncAssumption DEF Account, requests, closing
<1>2. Typed'
  BY <1>1, BroadcastProps DEF Typed
<1>3. \A t \in Workers \cup Callers :
        \/ pc'[t] = pc[t]
        \/ t \in Workers /\ pc[t] \in {"asleep", "account"} /\ pc'[t] = "top"
  BY <1>1, BroadcastProps
<1>4. WorkersHold' /\ CallersHold'
  BY <1>1, <1>3, AsyncAssumption DEF WorkersHold, CallersHold
<1>5. Drained'
  BY <1>1, <1>3, AsyncAssumption DEF Drained
<1>6. WaitedOnce' /\ Located' /\ PendingLive' /\ UsedLive' /\ FreedOnlyWhenDone'
  BY <1>1 DEF WaitedOnce, Located, Queued, PendingLive, UsedLive, FreedOnlyWhenDone
<1> QED
  BY <1>2, <1>4, <1>5, <1>6

\* ls_close only sets stop and wakes the workers; every caller is idle.
LEMMA CloseLife ==
    ASSUME LifeInv, ls_close
    PROVE  LifeInv'
<1> USE DEF LifeInv
<1>1. /\ UNCHANGED <<queue, live, done, accepted, held, req>>
      /\ \A c \in Callers : pc[c] = "idle"
      /\ stop' = TRUE /\ phase' = "joining"
      /\ pc' = Broadcast(pc)
  BY DEF ls_close, requests
<1>2. Typed'
  BY <1>1, BroadcastProps DEF Typed
<1>3. \A t \in Workers \cup Callers :
        \/ pc'[t] = pc[t]
        \/ t \in Workers /\ pc[t] = "asleep" /\ pc'[t] = "top"
  BY <1>1, BroadcastProps
<1>4. WorkersHold' /\ CallersHold'
  BY <1>1, <1>3, AsyncAssumption DEF WorkersHold, CallersHold
<1>5. Drained'
  BY <1>1, <1>3, AsyncAssumption DEF Drained
<1>6. WaitedOnce' /\ Located' /\ PendingLive' /\ UsedLive' /\ FreedOnlyWhenDone'
  BY <1>1 DEF WaitedOnce, Located, Queued, PendingLive, UsedLive, FreedOnlyWhenDone
<1> QED
  BY <1>2, <1>4, <1>5, <1>6

\* ls_pool_stop has joined the workers: all have exited.
LEMMA JoinLife ==
    ASSUME LifeInv, Join
    PROVE  LifeInv'
<1> USE DEF LifeInv
<1>1. /\ UNCHANGED <<queue, stop, live, done, accepted, held, pc, req>>
      /\ phase = "joining" /\ phase' = "joined"
      /\ \A w \in Workers : pc[w] = "exit"
  BY DEF Join, pool, requests, threads
<1>2. Drained'
  BY <1>1 DEF Drained
<1>3. Typed' /\ WorkersHold' /\ CallersHold' /\ WaitedOnce' /\ Located'
  BY <1>1 DEF Typed, WorkersHold, CallersHold, WaitedOnce, Located, Queued
<1>4. PendingLive' /\ UsedLive' /\ FreedOnlyWhenDone'
  BY <1>1 DEF PendingLive, UsedLive, FreedOnlyWhenDone
<1> QED
  BY <1>2, <1>3, <1>4

\* Every worker has exited, so nothing is queued or run, and all that was
\* accepted is done.
LEMMA ReleaseLife ==
    ASSUME LifeInv, Release
    PROVE  LifeInv'
<1> USE DEF LifeInv
<1>1. /\ UNCHANGED <<queue, stop, done, accepted, pc, req>>
      /\ phase = "joined" /\ phase' = "closed"
      /\ live' = {} /\ held' = {}
  BY DEF Release, pool, threads
<1>2. /\ \A w \in Workers : pc[w] = "exit" /\ req[w] = NoReq
      /\ \A c \in Callers : pc[c] = "idle" /\ req[c] = NoReq
  BY <1>1 DEF Drained, WorkersHold, CallersHold
<1>3. queue = << >>
  BY <1>2, AsyncAssumption DEF Drained
<1>4. Len(queue) = 0
  BY <1>3
<1>5. accepted \subseteq done
  BY <1>2, <1>4, AsyncAssumption DEF Located, Queued, Typed
<1>6. Typed' /\ WorkersHold' /\ CallersHold'
  BY <1>1 DEF Typed, WorkersHold, CallersHold
<1>7. WaitedOnce' /\ Located' /\ UsedLive'
  BY <1>1, <1>2 DEF WaitedOnce, Located, Queued, UsedLive
<1>8. PendingLive'
  BY <1>1, <1>2, <1>4 DEF PendingLive
<1>9. Drained'
  BY <1>1 DEF Drained
<1>10. FreedOnlyWhenDone'
  BY <1>1, <1>5 DEF FreedOnlyWhenDone
<1> QED
  BY <1>6, <1>7, <1>8, <1>9, <1>10

\* Every step keeps the invariant.
LEMMA NextLife == LifeInv /\ [Next]_vars => LifeInv'
<1> SUFFICES ASSUME LifeInv, [Next]_vars PROVE LifeInv'
  OBVIOUS
<1>1. ASSUME NEW c \in Callers, NEW r \in Reqs, submit(c, r) \/ ls_wait(c, r)
      PROVE  LifeInv'
  BY <1>1, SubmitLife, WaitLife
<1>2. ASSUME NEW c \in Callers, AwaitDone(c)
      PROVE  LifeInv'
  <2> DEFINE x == IF req[c] \in done THEN "reap" ELSE "asleep"
  <2>1. /\ UNCHANGED <<queue, live, stop, done, accepted, held, req, phase>>
        /\ pc[c] = "wait" /\ pc' = [pc EXCEPT ![c] = x]
    BY <1>2 DEF AwaitDone, pool, requests, closing
  <2> QED
    BY <2>1, MoveLife
<1>3. ASSUME NEW c \in Callers, Reap(c)
      PROVE  LifeInv'
  BY <1>3, ReapLife
<1>4. ASSUME NEW t \in Workers \cup Callers, SpuriousWakeup(t)
      PROVE  LifeInv'
  <2> DEFINE x == IF t \in Workers THEN "top" ELSE "wait"
  <2>1. /\ UNCHANGED <<queue, live, stop, done, accepted, held, req, phase>>
        /\ pc[t] = "asleep" /\ pc' = [pc EXCEPT ![t] = x]
    BY <1>4 DEF SpuriousWakeup, pool, requests, closing
  <2> QED
    BY <2>1, MoveLife
<1>5. ASSUME NEW w \in Workers, Dequeue(w) \/ Complete(w) \/ Account(w)
      PROVE  LifeInv'
  BY <1>5, DequeueLife, CompleteLife, AccountLife
<1>6. ASSUME NEW w \in Workers, NoWork(w)
      PROVE  LifeInv'
  <2> DEFINE x == IF stop THEN "exit" ELSE "asleep"
  <2>1. /\ UNCHANGED <<queue, live, stop, done, accepted, held, req, phase>>
        /\ pc[w] = "top" /\ queue = << >> /\ pc' = [pc EXCEPT ![w] = x]
    BY <1>6 DEF NoWork, pool, requests, closing
  <2> QED
    BY <2>1, MoveLife
<1>7. ASSUME NEW w \in Workers, Run(w)
      PROVE  LifeInv'
  <2>1. /\ UNCHANGED <<queue, live, stop, done, accepted, held, req, phase>>
        /\ pc[w] = "run" /\ pc' = [pc EXCEPT ![w] = "ran"]
    BY <1>7 DEF Run, pool, requests, closing
  <2> QED
    BY <2>1, MoveLife
<1>8. CASE ls_close \/ Join \/ Release
  BY <1>8, CloseLife, JoinLife, ReleaseLife
<1>9. CASE UNCHANGED vars
  BY <1>9 DEF vars, pool, requests, threads, closing, LifeInv, Typed,
     WorkersHold, CallersHold, WaitedOnce, Located, Queued, Drained,
     PendingLive, UsedLive, FreedOnlyWhenDone
<1> QED
  BY <1>1, <1>2, <1>3, <1>4, <1>5, <1>6, <1>7, <1>8, <1>9 DEF Next, Worker

\* The invariant says what the runs check.
LEMMA LifeImplies == LifeInv => NoUseAfterFree /\ RunOnce /\ FreedOnlyWhenDone
<1> SUFFICES ASSUME LifeInv PROVE NoUseAfterFree /\ RunOnce /\ FreedOnlyWhenDone
  OBVIOUS
<1>1. DOMAIN queue = 1..Len(queue)
  BY DEF LifeInv, Typed
<1>2. NoUseAfterFree
  BY <1>1 DEF LifeInv, NoUseAfterFree, PendingLive, UsedLive
<1>3. RunOnce
  BY <1>1 DEF LifeInv, RunOnce, PendingLive
<1> QED
  BY <1>2, <1>3 DEF LifeInv

-----------------------------------------------------------------------------
(* The count of requests in flight.                                        *)

\* The workers that have taken a request and not yet accounted for it.
Busy == {w \in Workers : pc[w] \in {"run", "ran", "account"}}

\* The rest of TypeOK, but for inflight, which is a number only because it
\* counts.
RestTyped ==
    /\ late \subseteq Reqs
    /\ drain_err \in Errors \cup {LS_OK}
    /\ status \in [Reqs -> Errors \cup {LS_OK}]
    /\ rc \in [Workers -> Errors \cup {LS_OK}]
    /\ phase \in {"open", "joining", "joined", "closed"}
    /\ close_rc \in Errors \cup {LS_OK}

Counted == inflight = Len(queue) + Cardinality(Busy)

CountInv == LifeInv /\ RestTyped /\ Counted

\* There are finitely many workers, so a busy one more or less is one more
\* or less in the count.
LEMMA BusyCount ==
    /\ IsFiniteSet(Busy) /\ Cardinality(Busy) \in Nat
    /\ \A w \in Workers \ Busy : Cardinality(Busy \cup {w}) = Cardinality(Busy) + 1
    /\ \A w \in Busy : Cardinality(Busy \ {w}) = Cardinality(Busy) - 1
<1>1. IsFiniteSet(Busy)
  <2>1. Busy \subseteq Workers
    BY DEF Busy
  <2> QED
    BY <2>1, FS_Subset, AsyncAssumption
<1>2. Cardinality(Busy) \in Nat
  BY <1>1, FS_CardinalityType
<1>3. ASSUME NEW w \in Workers \ Busy
      PROVE  Cardinality(Busy \cup {w}) = Cardinality(Busy) + 1
  BY <1>1, FS_AddElement
<1>4. ASSUME NEW w \in Busy
      PROVE  Cardinality(Busy \ {w}) = Cardinality(Busy) - 1
  BY <1>1, FS_RemoveElement
<1> QED
  BY <1>1, <1>2, <1>3, <1>4

\* Nothing is in flight when the pool starts.
LEMMA InitCount == Init => CountInv
<1> SUFFICES ASSUME Init PROVE CountInv
  OBVIOUS
<1>1. RestTyped
  BY DEF Init, RestTyped
<1>2. Busy = {}
  BY DEF Busy, Init
<1>3. Cardinality(Busy) = 0 /\ Len(queue) = 0
  BY <1>2, FS_EmptySet DEF Init
<1>4. Counted
  BY <1>3 DEF Counted, Init
<1> QED
  BY <1>1, <1>4, InitLife DEF CountInv

\* What every step does to the types.
LEMMA RestStep == CountInv /\ [Next]_vars => RestTyped'
<1> SUFFICES ASSUME CountInv, [Next]_vars PROVE RestTyped'
  OBVIOUS
<1> USE DEF CountInv, RestTyped
<1>1. ASSUME NEW c \in Callers, NEW r \in Reqs, submit(c, r) \/ ls_wait(c, r)
      PROVE  RestTyped'
  BY <1>1 DEF submit, ls_wait, pool, closing
<1>2. ASSUME NEW c \in Callers, AwaitDone(c) \/ Reap(c)
      PROVE  RestTyped'
  BY <1>2 DEF AwaitDone, Reap, pool, requests, closing
<1>3. ASSUME NEW t \in Workers \cup Callers, SpuriousWakeup(t)
      PROVE  RestTyped'
  BY <1>3 DEF SpuriousWakeup, pool, requests, closing
<1>4. ASSUME NEW w \in Workers, Dequeue(w) \/ NoWork(w) \/ Run(w)
      PROVE  RestTyped'
  BY <1>4 DEF Dequeue, NoWork, Run, pool, requests, closing
<1>5. ASSUME NEW w \in Workers, Complete(w)
      PROVE  RestTyped'
  <2>1. req[w] \in Reqs
    BY <1>5 DEF Complete, LifeInv, WorkersHold, Typed
  <2> QED
    BY <1>5, <2>1 DEF Complete, pool, closing
<1>6. ASSUME NEW w \in Workers, Account(w)
      PROVE  RestTyped'
  BY <1>6 DEF Account, requests, closing
<1>7. CASE ls_close \/ Join \/ Release
  BY <1>7 DEF ls_close, Join, Release, pool, requests, threads
<1>8. CASE UNCHANGED vars
  BY <1>8 DEF vars, pool, requests, threads, closing
<1> QED
  BY <1>1, <1>2, <1>3, <1>4, <1>5, <1>6, <1>7, <1>8 DEF Next, Worker

\* A step that leaves the queue and the busy workers alone, and inflight too.
LEMMA SameCount ==
    ASSUME Counted, UNCHANGED <<queue, inflight>>, Busy' = Busy
    PROVE  Counted'
BY DEF Counted

\* submit adds to the queue, Dequeue moves one from the queue to a worker,
\* Account takes one from a worker; no other step changes either.
LEMMA CountStep == CountInv /\ [Next]_vars => Counted'
<1> SUFFICES ASSUME CountInv, [Next]_vars PROVE Counted'
  OBVIOUS
<1> USE DEF CountInv, LifeInv
<1>1. ASSUME NEW c \in Callers, NEW r \in Reqs, submit(c, r)
      PROVE  Counted'
  <2>1. Len(queue') = Len(queue) + 1 /\ Len(queue) \in Nat
    BY <1>1, AppendQueue DEF submit, Typed
  <2>2. Busy' = Busy
    BY <1>1, SignalledProps DEF submit, Busy
  <2>3. inflight' = inflight + 1
    BY <1>1 DEF submit
  <2> QED
    BY <2>1, <2>2, <2>3, BusyCount DEF Counted
<1>2. ASSUME NEW c \in Callers, NEW r \in Reqs, ls_wait(c, r)
      PROVE  Counted'
  <2>1. UNCHANGED <<queue, inflight>> /\ Busy' = Busy
    BY <1>2, AsyncAssumption DEF ls_wait, pool, Busy, Typed
  <2> QED
    BY <2>1, SameCount
<1>3. ASSUME NEW c \in Callers, AwaitDone(c) \/ Reap(c)
      PROVE  Counted'
  <2>1. UNCHANGED <<queue, inflight>> /\ Busy' = Busy
    BY <1>3, AsyncAssumption DEF AwaitDone, Reap, pool, Busy, Typed
  <2> QED
    BY <2>1, SameCount
<1>4. ASSUME NEW t \in Workers \cup Callers, SpuriousWakeup(t)
      PROVE  Counted'
  <2>1. UNCHANGED <<queue, inflight>> /\ Busy' = Busy
    BY <1>4 DEF SpuriousWakeup, pool, Busy, Typed
  <2> QED
    BY <2>1, SameCount
<1>5. ASSUME NEW w \in Workers, Dequeue(w)
      PROVE  Counted'
  <2>1. Len(queue') = Len(queue) - 1 /\ Len(queue) \in Nat
    BY <1>5, TailQueue DEF Dequeue, Typed
  <2>2. w \notin Busy /\ Busy' = Busy \cup {w}
    BY <1>5 DEF Dequeue, Busy, Typed
  <2>3. inflight' = inflight
    BY <1>5 DEF Dequeue
  <2>4. Cardinality(Busy') = Cardinality(Busy) + 1
    BY <2>2, BusyCount
  <2> QED
    BY <2>1, <2>3, <2>4, BusyCount DEF Counted
<1>6. ASSUME NEW w \in Workers, NoWork(w) \/ Run(w)
      PROVE  Counted'
  <2>1. UNCHANGED <<queue, inflight>> /\ Busy' = Busy
    BY <1>6 DEF NoWork, Run, pool, Busy, Typed
  <2> QED
    BY <2>1, SameCount
<1>7. ASSUME NEW w \in Workers, Complete(w)
      PROVE  Counted'
  <2>1. UNCHANGED <<queue, inflight>> /\ Busy' = Busy
    BY <1>7, AsyncAssumption DEF Complete, WaitersOf, pool, Busy, Typed
  <2> QED
    BY <2>1, SameCount
<1>8. ASSUME NEW w \in Workers, Account(w)
      PROVE  Counted'
  <2>1. \A v \in Workers : (pc'[v] \in {"run", "ran", "account"}) <=>
                           (v # w /\ pc[v] \in {"run", "ran", "account"})
    BY <1>8, BroadcastProps DEF Account
  <2>2. w \in Busy /\ Busy' = Busy \ {w}
    BY <1>8, <2>1 DEF Account, Busy
  <2>3. inflight' = inflight - 1 /\ queue' = queue /\ Len(queue) \in Nat
    BY <1>8 DEF Account, Typed
  <2>4. Cardinality(Busy') = Cardinality(Busy) - 1
    BY <2>2, BusyCount
  <2> QED
    BY <2>3, <2>4, BusyCount DEF Counted
<1>9. CASE ls_close
  <2>1. UNCHANGED <<queue, inflight>> /\ Busy' = Busy
    BY <1>9, BroadcastProps DEF ls_close, Busy
  <2> QED
    BY <2>1, SameCount
<1>10. CASE Join \/ Release \/ UNCHANGED vars
  <2>1. UNCHANGED <<queue, inflight>> /\ Busy' = Busy
    BY <1>10 DEF Join, Release, vars, pool, threads, Busy
  <2> QED
    BY <2>1, SameCount
<1> QED
  BY <1>1, <1>2, <1>3, <1>4, <1>5, <1>6, <1>7, <1>8, <1>9, <1>10 DEF Next, Worker

\* The invariant of the count is inductive.
LEMMA NextCount == CountInv /\ [Next]_vars => CountInv'
BY NextLife, RestStep, CountStep DEF CountInv

\* When all workers have exited, the queue is empty and none is busy.
LEMMA CountImplies == CountInv => TypeOK /\ InflightExact
<1> SUFFICES ASSUME CountInv PROVE TypeOK /\ InflightExact
  OBVIOUS
<1> USE DEF CountInv, LifeInv
<1>1. inflight \in Nat
  BY BusyCount DEF Counted, Typed
<1>2. TypeOK
  BY <1>1 DEF TypeOK, Typed, RestTyped
<1>3. phase \in {"joined", "closed"} => inflight = 0
  <2> SUFFICES ASSUME phase \in {"joined", "closed"} PROVE inflight = 0
    OBVIOUS
  <2>1. \A w \in Workers : pc[w] = "exit"
    BY DEF Drained
  <2>2. queue = << >>
    BY <2>1, AsyncAssumption DEF Drained
  <2>3. Busy = {}
    BY <2>1 DEF Busy
  <2> QED
    BY <2>2, <2>3, FS_EmptySet DEF Counted
<1> QED
  BY <1>2, <1>3 DEF InflightExact, Counted, Busy

-----------------------------------------------------------------------------
(* Theorems.                                                               *)

\* No worker, caller, queue slot or usable handle of async.c refers to a
\* request that ls_wait or ls_close has freed.
THEOREM UseAfterFreeFree == Spec => []NoUseAfterFree
<1>1. Spec => []LifeInv
  BY InitLife, NextLife, PTL DEF Spec
<1> QED
  BY <1>1, LifeImplies, PTL

\* Neither ls_wait nor ls_close frees a request that has not been run: the
\* close drains the queue, whatever the order of the last wakeups.
THEOREM DrainedBeforeFree == Spec => []FreedOnlyWhenDone
<1>1. Spec => []LifeInv
  BY InitLife, NextLife, PTL DEF Spec
<1> QED
  BY <1>1, LifeImplies, PTL

\* No two workers have the same request, and none takes one that has run.
THEOREM EachRunsOnce == Spec => []RunOnce
<1>1. Spec => []LifeInv
  BY InitLife, NextLife, PTL DEF Spec
<1> QED
  BY <1>1, LifeImplies, PTL

\* Every variable of the asynchronous layer keeps its type; in particular
\* s->inflight, which worker counts down, never wraps below zero.
THEOREM AsyncTypeCorrect == Spec => []TypeOK
<1>1. Spec => []CountInv
  BY InitCount, NextCount, PTL DEF Spec
<1> QED
  BY <1>1, CountImplies, PTL

\* s->inflight counts exactly the requests accepted and not accounted for,
\* and is zero once ls_pool_stop has joined the workers.
THEOREM InflightCounts == Spec => []InflightExact
<1>1. Spec => []CountInv
  BY InitCount, NextCount, PTL DEF Spec
<1> QED
  BY <1>1, CountImplies, PTL
============================================================================
