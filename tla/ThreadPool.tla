------------------------------ MODULE ThreadPool ------------------------------
(***************************************************************************)
(* threadpool<T> of "15-3 threadpool.h" over sem and locker of             *)
(* "14-2 locker.h": producers append() requests to one locked queue and    *)
(* post a semaphore, detached workers wait for the semaphore, take the     *)
(* head of the queue and process it.                                       *)
(*                                                                         *)
(* Every access to shared memory is a step of its own, so that the lock is *)
(* what makes a critical section atomic, not the model.  The n-th call of  *)
(* append is given request n.                                              *)
(***************************************************************************)
EXTENDS Integers, Sequences, FiniteSets

CONSTANTS
    Producers,       \* threads that call append
    Workers,         \* the threads of the pool; m_thread_number of them
    MaxRequests,     \* m_max_requests
    UnlockLocks,     \* TRUE: unlock() calls pthread_mutex_lock, as the code
                     \* does; FALSE: it releases, as its comment says
    Nulls,           \* the calls of append that are given a null pointer
    MaxAppends,      \* bound: calls of append
    MayDestroy,      \* whether the pool may be deleted
    CreateMayFail    \* whether pthread_create or pthread_detach may fail

Threads == Producers \cup Workers
NoOne == "no one"

ASSUME ThreadsAssumption ==
    /\ Producers \cap Workers = {} /\ NoOne \notin Threads
    /\ IsFiniteSet(Producers) /\ IsFiniteSet(Workers)
ASSUME SizeAssumption ==
    /\ MaxRequests \in Nat /\ MaxRequests > 0
    /\ MaxAppends \in Nat /\ Nulls \subseteq Nat
ASSUME SwitchAssumption ==
    UnlockLocks \in BOOLEAN /\ MayDestroy \in BOOLEAN /\ CreateMayFail \in BOOLEAN

VARIABLES
    pool,         \* "constructing", "live", or "gone" once the memory is freed
    m_stop,
    m_workqueue,
    m_queuestat,  \* the value of the semaphore
    owner,        \* the thread that holds m_queuelocker's mutex
    ppc, preq,    \* where a producer is in append, and its request
    wpc, wreq,    \* where a worker is in run, and its request
    appended,     \* calls of append so far
    accepted,     \* history: the requests that were pushed
    done          \* history: the requests a worker processed or, null, dropped

poolVars == <<pool, m_stop>>
prodVars == <<ppc, preq, appended, accepted>>
workVars == <<wpc, wreq, done>>
vars == <<pool, m_stop, m_workqueue, m_queuestat, owner, ppc, preq, wpc, wreq,
          appended, accepted, done>>

-----------------------------------------------------------------------------
(* The mutex.  It is of the default kind: locking it again blocks, also in *)
(* the thread that holds it.                                               *)

Lock(t) == owner = NoOne /\ owner' = t

Unlock(t) == IF UnlockLocks THEN Lock(t) ELSE owner' = NoOne

-----------------------------------------------------------------------------
Init ==
    /\ pool = "constructing" /\ m_stop = FALSE
    /\ m_workqueue = <<>> /\ m_queuestat = 0
    /\ owner = NoOne
    /\ ppc = [p \in Producers |-> "idle"] /\ preq = [p \in Producers |-> 0]
    /\ wpc = [w \in Workers |-> "none"] /\ wreq = [w \in Workers |-> 0]
    /\ appended = 0 /\ accepted = {} /\ done = {}

\* One round of the constructor's loop.  The worker runs at once, the pool is
\* its caller's when the last one is there.
Create(w) ==
    /\ pool = "constructing" /\ wpc[w] = "none"
    /\ wpc' = [wpc EXCEPT ![w] = "loop"]
    /\ pool' = IF \A v \in Workers \ {w} : wpc[v] # "none" THEN "live" ELSE pool
    /\ UNCHANGED <<m_stop, m_workqueue, m_queuestat, owner, prodVars, wreq, done>>

\* pthread_create or pthread_detach fails: the constructor throws, which
\* frees the pool under the workers that run already.
CreateFails ==
    /\ CreateMayFail /\ pool = "constructing"
    /\ pool' = "gone"
    /\ UNCHANGED <<m_stop, m_workqueue, m_queuestat, owner, prodVars, workVars>>

\* ~threadpool: its body, then its members and the memory.  The caller does
\* not delete a pool it is appending to.
Destroy ==
    /\ MayDestroy /\ pool = "live" /\ ~m_stop
    /\ \A p \in Producers : ppc[p] = "idle"
    /\ m_stop' = TRUE
    /\ UNCHANGED <<pool, m_workqueue, m_queuestat, owner, prodVars, workVars>>
Free ==
    /\ pool = "live" /\ m_stop
    /\ pool' = "gone"
    /\ UNCHANGED <<m_stop, m_workqueue, m_queuestat, owner, prodVars, workVars>>

-----------------------------------------------------------------------------
(* append.                                                                 *)

PStep(p, from, to) == ppc[p] = from /\ ppc' = [ppc EXCEPT ![p] = to]

AppendCall(p) ==
    /\ pool = "live" /\ ~m_stop /\ appended < MaxAppends
    /\ PStep(p, "idle", "lock")
    /\ appended' = appended + 1
    /\ preq' = [preq EXCEPT ![p] = appended + 1]
    /\ UNCHANGED <<poolVars, m_workqueue, m_queuestat, owner, accepted, workVars>>

MutAppendLock(p) ==
    /\ PStep(p, "lock", "check")
    /\ UNCHANGED <<poolVars, m_workqueue, m_queuestat, owner, preq, appended, accepted,
                   workVars>>
AppendLock(p) ==
    /\ PStep(p, "lock", "check")
    /\ Lock(p)
    /\ UNCHANGED <<poolVars, m_workqueue, m_queuestat, preq, appended, accepted,
                   workVars>>

\* There is room for one request more than m_max_requests is said to be, "the
\* maximum number of requests" of the queue: the code tests with >.
Full(queue) == Len(queue) > MaxRequests

AppendCheck(p) ==
    /\ PStep(p, "check", IF Full(m_workqueue) THEN "refuse" ELSE "push")
    /\ UNCHANGED <<poolVars, m_workqueue, m_queuestat, owner, preq, appended,
                   accepted, workVars>>

AppendPush(p) ==
    /\ PStep(p, "push", "unlock")
    /\ m_workqueue' = Append(m_workqueue, preq[p])
    /\ accepted' = accepted \cup {preq[p]}
    /\ UNCHANGED <<poolVars, m_queuestat, owner, preq, appended, workVars>>

\* The two unlocks of append: after a push the post is still to come, a
\* refused request returns false.
MutAppendUnlock(p) ==
    /\ \/ PStep(p, "unlock", "post")
       \/ PStep(p, "refuse", "post")
    /\ Unlock(p)
    /\ UNCHANGED <<poolVars, m_workqueue, m_queuestat, preq, appended, accepted,
                   workVars>>
AppendUnlock(p) ==
    /\ \/ PStep(p, "unlock", "post")
       \/ PStep(p, "refuse", "idle")
    /\ Unlock(p)
    /\ UNCHANGED <<poolVars, m_workqueue, m_queuestat, preq, appended, accepted,
                   workVars>>

\* sem_post.
MutPosted == 1
Posted == m_queuestat + 1

AppendPost(p) ==
    /\ PStep(p, "post", "idle")
    /\ m_queuestat' = Posted
    /\ UNCHANGED <<poolVars, m_workqueue, owner, preq, appended, accepted, workVars>>

-----------------------------------------------------------------------------
(* run, as long as the pool is there.                                      *)

WStep(w, from, to) ==
    /\ pool # "gone"
    /\ wpc[w] = from /\ wpc' = [wpc EXCEPT ![w] = to]

RunLoop(w) ==
    /\ WStep(w, "loop", IF m_stop THEN "ended" ELSE "wait")
    /\ UNCHANGED <<poolVars, m_workqueue, m_queuestat, owner, prodVars, wreq, done>>

\* sem_wait.
MayPass == m_queuestat > 0

RunWait(w) ==
    /\ WStep(w, "wait", "lock")
    /\ MayPass
    /\ m_queuestat' = m_queuestat - 1
    /\ UNCHANGED <<poolVars, m_workqueue, owner, prodVars, wreq, done>>

MutRunLock(w) ==
    /\ WStep(w, "lock", "check")
    /\ UNCHANGED <<poolVars, m_workqueue, m_queuestat, owner, prodVars, wreq, done>>
RunLock(w) ==
    /\ WStep(w, "lock", "check")
    /\ Lock(w)
    /\ UNCHANGED <<poolVars, m_workqueue, m_queuestat, prodVars, wreq, done>>

RunCheck(w) ==
    /\ WStep(w, "check", IF m_workqueue = <<>> THEN "again" ELSE "front")
    /\ UNCHANGED <<poolVars, m_workqueue, m_queuestat, owner, prodVars, wreq, done>>

RunFront(w) ==
    /\ WStep(w, "front", "pop")
    /\ wreq' = [wreq EXCEPT ![w] = Head(m_workqueue)]
    /\ UNCHANGED <<poolVars, m_workqueue, m_queuestat, owner, prodVars, done>>

RunPop(w) ==
    /\ WStep(w, "pop", "unlock")
    /\ m_workqueue' = Tail(m_workqueue)
    /\ UNCHANGED <<poolVars, m_queuestat, owner, prodVars, wreq, done>>

\* The two unlocks of run; a null request is dropped here.
RunUnlock(w) ==
    /\ \/ /\ WStep(w, "again", "loop")
          /\ done' = done
       \/ /\ WStep(w, "unlock", "loop")
          /\ wreq[w] \in Nulls
          /\ done' = done \cup {wreq[w]}
       \/ /\ WStep(w, "unlock", "process")
          /\ wreq[w] \notin Nulls
          /\ done' = done
    /\ Unlock(w)
    /\ UNCHANGED <<poolVars, m_workqueue, m_queuestat, prodVars, wreq>>

\* request->process(), which does not touch the pool.
RunProcess(w) ==
    /\ WStep(w, "process", "loop")
    /\ done' = done \cup {wreq[w]}
    /\ UNCHANGED <<poolVars, m_workqueue, m_queuestat, owner, prodVars, wreq>>

\* A worker that goes on in a pool that is gone reads freed memory: it may
\* end, or find itself in sem_wait, which nobody posts any more.
RunGone(w) ==
    /\ pool = "gone" /\ wpc[w] \notin {"none", "wait", "ended"}
    /\ \E to \in {"wait", "ended"} : wpc' = [wpc EXCEPT ![w] = to]
    /\ UNCHANGED <<poolVars, m_workqueue, m_queuestat, owner, prodVars, wreq, done>>

-----------------------------------------------------------------------------
Producer(p) ==
    \/ AppendLock(p) \/ AppendCheck(p) \/ AppendPush(p)
    \/ AppendUnlock(p) \/ AppendPost(p)

Worker(w) ==
    \/ RunLoop(w) \/ RunWait(w) \/ RunLock(w) \/ RunCheck(w) \/ RunFront(w)
    \/ RunPop(w) \/ RunUnlock(w) \/ RunProcess(w) \/ RunGone(w)

Next ==
    \/ \E w \in Workers : Create(w) \/ Worker(w)
    \/ \E p \in Producers : AppendCall(p) \/ Producer(p)
    \/ CreateFails \/ Destroy \/ Free

Spec == Init /\ [][Next]_vars

\* Threads that can run do run, and process() returns.
FairSpec ==
    /\ Spec
    /\ \A p \in Producers : WF_vars(Producer(p))
    /\ \A w \in Workers : WF_vars(Create(w)) /\ WF_vars(Worker(w))

-----------------------------------------------------------------------------
(* Properties.                                                             *)

Requests == 0 .. MaxAppends

\* Every variable stays in its type; in particular the semaphore never goes
\* below zero.
TypeOK ==
    /\ pool \in {"constructing", "live", "gone"} /\ m_stop \in BOOLEAN
    /\ m_workqueue \in Seq(Requests) /\ m_queuestat \in Nat
    /\ owner \in Threads \cup {NoOne}
    /\ ppc \in [Producers -> {"idle", "lock", "check", "refuse", "push", "unlock", "post"}]
    /\ preq \in [Producers -> Requests]
    /\ wpc \in [Workers -> {"none", "loop", "wait", "lock", "check", "again", "front",
                            "pop", "unlock", "process", "ended"}]
    /\ wreq \in [Workers -> Requests]
    /\ appended \in Requests
    /\ accepted \in SUBSET Requests /\ done \in SUBSET Requests

\* What a thread has found out about the queue is still true when it acts on it,
\* whatever the others do meanwhile: a request is pushed only while there is room,
\* refused only while there is none, and popped only if it is the one that was
\* read at the front.
ChecksHold ==
    pool # "gone" =>
        /\ \A p \in Producers : /\ ppc[p] = "push" => ~Full(m_workqueue)
                                /\ ppc[p] = "refuse" => Full(m_workqueue)
        /\ \A w \in Workers :
              /\ wpc[w] \in {"front", "pop"} => m_workqueue # <<>>
              /\ wpc[w] = "pop" => wreq[w] = Head(m_workqueue)

\* Producers that have pushed but not posted, workers that have passed the
\* semaphore but not popped.
Posting == {p \in Producers : ppc[p] \in {"unlock", "post"}}
Passed == {w \in Workers : wpc[w] \in {"lock", "check", "front", "pop"}}

\* The semaphore accounts for every request of the queue: a worker that gets
\* past it finds one, so no worker is woken in vain and no request is left
\* without a wake-up.
SemaphoreCounts ==
    pool # "gone" =>
        m_queuestat + Cardinality(Posting) + Cardinality(Passed) = Len(m_workqueue)

\* The requests that are in the queue, and in a worker's hand.
Queued == {m_workqueue[k] : k \in DOMAIN m_workqueue}
Holding == {w \in Workers : wpc[w] \in {"unlock", "process"}}
InHand == {wreq[w] : w \in Holding}

\* Every request that append accepted is in exactly one place: once in the
\* queue, with one worker, or done.  None is lost and none is processed twice.
HandedOnce ==
    pool # "gone" =>
        /\ accepted = Queued \cup InHand \cup done
        /\ Queued \cap InHand = {} /\ (Queued \cup InHand) \cap done = {}
        /\ \A k, l \in DOMAIN m_workqueue : m_workqueue[k] = m_workqueue[l] => k = l
        /\ \A v, w \in Holding : wreq[v] = wreq[w] => v = w

\* Every accepted request is processed in the end, unless the pool is deleted
\* before that, or never comes to be.
AllProcessed ==
    \A r \in Requests :
        (r \in accepted) ~> (r \in done \/ m_stop \/ pool = "gone")

\* What the comment on unlock promises: who gets the lock releases it.
LockReleased == \A t \in Threads : (owner = t) ~> (owner # t)
=============================================================================
