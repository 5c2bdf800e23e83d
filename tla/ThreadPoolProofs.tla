--------------------------- MODULE ThreadPoolProofs ---------------------------
(***************************************************************************)
(* Proofs about ThreadPool, for all finite sets of producers and workers,  *)
(* every m_max_requests, and both readings of unlock().                    *)
(*                                                                         *)
(* The argument has three layers.  OwnerInv: the mutex is owned by the     *)
(* thread whose program counter is in a critical section, hence by one     *)
(* thread at most.  From it follow the bound of the queue, the account of  *)
(* the semaphore, and last that requests are handed over one by one.       *)
(***************************************************************************)
EXTENDS ThreadPool, TLAPS, FiniteSetTheorems

USE ThreadsAssumption, SizeAssumption, SwitchAssumption

-----------------------------------------------------------------------------
(* The first layer.                                                        *)

\* Nobody appends to a pool that is not there.
IdleInv == pool # "live" \/ m_stop => \A p \in Producers : ppc[p] = "idle"

\* The owner of the mutex is the thread in a critical section.
OwnerInv ==
    pool # "gone" =>
        /\ \A p \in Producers :
             ppc[p] \in {"check", "refuse", "push", "unlock"} <=> owner = p
        /\ \A w \in Workers :
             wpc[w] \in {"check", "again", "front", "pop", "unlock"} <=> owner = w

\* One request more than m_max_requests.
Bounded == Len(m_workqueue) <= MaxRequests + 1

PoolInv == TypeOK /\ IdleInv /\ OwnerInv /\ ChecksHold /\ Bounded

LEMMA InitPool == Init => PoolInv
<1> SUFFICES ASSUME Init PROVE PoolInv
  OBVIOUS
<1>1. TypeOK
  <2>1. m_workqueue \in Seq(Requests)
    BY DEF Init
  <2>2. /\ ppc \in [Producers -> {"idle"}] /\ preq \in [Producers -> Requests]
        /\ wpc \in [Workers -> {"none"}] /\ wreq \in [Workers -> Requests]
    BY DEF Init, Requests
  <2>3. owner \in Threads \cup {NoOne} /\ appended \in Requests
    BY DEF Init, Requests
  <2> QED
    BY <2>1, <2>2, <2>3 DEF Init, TypeOK
<1>2. IdleInv /\ OwnerInv
  BY DEF Init, IdleInv, OwnerInv, Threads
<1>3. ChecksHold /\ Bounded
  BY DEF Init, ChecksHold, Bounded
<1> QED
  BY <1>1, <1>2, <1>3 DEF PoolInv

LEMMA StepPool == PoolInv /\ [Next]_vars => PoolInv'
<1> SUFFICES ASSUME PoolInv, [Next]_vars PROVE PoolInv'
  OBVIOUS
<1> USE DEF PoolInv, Requests, Threads, poolVars, prodVars, workVars, Full
<1>1. ASSUME NEW w \in Workers, Create(w) PROVE PoolInv'
  BY <1>1 DEF Create, TypeOK, IdleInv, OwnerInv,
    ChecksHold, Bounded
<1>2. ASSUME NEW w \in Workers, RunLoop(w) PROVE PoolInv'
  BY <1>2 DEF RunLoop, WStep, TypeOK, IdleInv, OwnerInv,
    ChecksHold, Bounded
<1>3. ASSUME NEW w \in Workers, RunWait(w) PROVE PoolInv'
  BY <1>3 DEF RunWait, WStep, MayPass, TypeOK, IdleInv, OwnerInv,
    ChecksHold, Bounded
<1>4. ASSUME NEW w \in Workers, RunLock(w) PROVE PoolInv'
  BY <1>4 DEF RunLock, WStep, Lock, TypeOK, IdleInv, OwnerInv,
    ChecksHold, Bounded
<1>5. ASSUME NEW w \in Workers, RunCheck(w) PROVE PoolInv'
  BY <1>5 DEF RunCheck, WStep, TypeOK, IdleInv, OwnerInv,
    ChecksHold, Bounded
<1>6. ASSUME NEW w \in Workers, RunFront(w) PROVE PoolInv'
  BY <1>6 DEF RunFront, WStep, TypeOK, IdleInv, OwnerInv,
    ChecksHold, Bounded
<1>7. ASSUME NEW w \in Workers, RunPop(w) PROVE PoolInv'
  BY <1>7 DEF RunPop, WStep, TypeOK, IdleInv, OwnerInv,
    ChecksHold, Bounded
<1>8. ASSUME NEW w \in Workers, RunUnlock(w) PROVE PoolInv'
  <2>1. wpc' \in [Workers -> {"none", "loop", "wait", "lock", "check", "again",
                              "front", "pop", "unlock", "process", "ended"}]
    BY <1>8 DEF RunUnlock, WStep, TypeOK
  <2>2. done' \in SUBSET Requests /\ owner' \in Threads \cup {NoOne}
    BY <1>8 DEF RunUnlock, Lock, Unlock, TypeOK
  <2>3. TypeOK'
    BY <1>8, <2>1, <2>2 DEF RunUnlock, TypeOK
  <2>4. IdleInv' /\ Bounded'
    BY <1>8 DEF RunUnlock, IdleInv, Bounded
  <2>5. /\ wpc[w] \in {"again", "unlock"} /\ wpc'[w] \in {"loop", "process"}
        /\ \A v \in Workers : v # w => wpc'[v] = wpc[v]
    BY <1>8 DEF RunUnlock, WStep, TypeOK
  <2>6. owner = w /\ owner' = NoOne
    BY <1>8, <2>5 DEF RunUnlock, WStep, OwnerInv, Unlock, Lock
  <2>7. OwnerInv' /\ ChecksHold'
    BY <1>8, <2>5, <2>6 DEF RunUnlock, OwnerInv, ChecksHold
  <2> QED
    BY <2>3, <2>4, <2>7
<1>9. ASSUME NEW w \in Workers, RunProcess(w) PROVE PoolInv'
  BY <1>9 DEF RunProcess, WStep, TypeOK, IdleInv, OwnerInv,
    ChecksHold, Bounded
<1>10. ASSUME NEW w \in Workers, RunGone(w) PROVE PoolInv'
  BY <1>10 DEF RunGone, TypeOK, IdleInv, OwnerInv,
    ChecksHold, Bounded
<1>11. ASSUME NEW p \in Producers, AppendCall(p) PROVE PoolInv'
  BY <1>11 DEF AppendCall, PStep, TypeOK, IdleInv, OwnerInv,
    ChecksHold, Bounded
<1>12. ASSUME NEW p \in Producers, AppendLock(p) PROVE PoolInv'
  BY <1>12 DEF AppendLock, PStep, Lock, TypeOK, IdleInv, OwnerInv,
    ChecksHold, Bounded
<1>13. ASSUME NEW p \in Producers, AppendCheck(p) PROVE PoolInv'
  BY <1>13 DEF AppendCheck, PStep, Full, TypeOK, IdleInv, OwnerInv,
    ChecksHold, Bounded
<1>14. ASSUME NEW p \in Producers, AppendPush(p) PROVE PoolInv'
  <2>1. /\ ppc[p] = "push" /\ ppc'[p] = "unlock"
        /\ \A q \in Producers : q # p => ppc'[q] = ppc[q]
    BY <1>14 DEF AppendPush, PStep, TypeOK
  <2>2. /\ m_workqueue' \in Seq(Requests)
        /\ Len(m_workqueue') = Len(m_workqueue) + 1 /\ m_workqueue' # <<>>
    BY <1>14 DEF AppendPush, TypeOK
  <2>3. TypeOK'
    BY <1>14, <2>2 DEF AppendPush, PStep, TypeOK
  <2>4. IdleInv' /\ OwnerInv'
    BY <1>14, <2>1 DEF AppendPush, IdleInv, OwnerInv
  <2>5. pool # "gone"
    BY <2>1 DEF IdleInv
  <2>6. ChecksHold' /\ Bounded'
    BY <1>14, <2>1, <2>2, <2>5 DEF AppendPush, OwnerInv, ChecksHold, Bounded
  <2> QED
    BY <2>3, <2>4, <2>6
<1>15. ASSUME NEW p \in Producers, AppendUnlock(p) PROVE PoolInv'
  <2>1. TypeOK'
    BY <1>15 DEF AppendUnlock, PStep, Lock, Unlock, TypeOK
  <2>2. IdleInv' /\ Bounded'
    BY <1>15 DEF AppendUnlock, PStep, TypeOK, IdleInv, Bounded
  <2>3. /\ ppc[p] \in {"refuse", "unlock"} /\ ppc'[p] \in {"idle", "post"}
        /\ \A q \in Producers : q # p => ppc'[q] = ppc[q]
    BY <1>15 DEF AppendUnlock, PStep, TypeOK
  <2>4. pool # "gone" => owner = p /\ owner' = NoOne
    BY <1>15, <2>3 DEF AppendUnlock, OwnerInv, Unlock, Lock
  <2>5. OwnerInv' /\ ChecksHold'
    BY <1>15, <2>3, <2>4 DEF AppendUnlock, OwnerInv, ChecksHold
  <2> QED
    BY <2>1, <2>2, <2>5
<1>16. ASSUME NEW p \in Producers, AppendPost(p) PROVE PoolInv'
  BY <1>16 DEF AppendPost, PStep, Posted, TypeOK, IdleInv, OwnerInv,
    ChecksHold, Bounded
<1>17. CASE CreateFails
  BY <1>17 DEF CreateFails, TypeOK, IdleInv, OwnerInv, ChecksHold, Bounded
<1>18. CASE Destroy
  BY <1>18 DEF Destroy, TypeOK, IdleInv, OwnerInv, ChecksHold, Bounded
<1>19. CASE Free
  BY <1>19 DEF Free, TypeOK, IdleInv, OwnerInv, ChecksHold, Bounded
<1>20. CASE UNCHANGED vars
  BY <1>20 DEF vars, TypeOK, IdleInv, OwnerInv, ChecksHold, Bounded
<1> QED
  BY <1>1, <1>2, <1>3, <1>4, <1>5, <1>6, <1>7, <1>8, <1>9, <1>10, <1>11, <1>12, <1>13, <1>14, <1>15, <1>16, <1>17, <1>18, <1>19, <1>20 DEF Next, Worker, Producer

LEMMA PoolInvariant == Spec => []PoolInv
BY InitPool, StepPool, PTL DEF Spec

\* Every variable stays in its type.
THEOREM TypeCorrect == Spec => []TypeOK
<1>1. PoolInv => TypeOK
  BY DEF PoolInv
<1> QED
  BY <1>1, PoolInvariant, PTL

\* What a producer or a worker has found out about the queue under the lock is
\* true when it acts on it: check and act are one.
THEOREM ChecksAreKept == Spec => []ChecksHold
<1>1. PoolInv => ChecksHold
  BY DEF PoolInv
<1> QED
  BY <1>1, PoolInvariant, PTL

\* The queue never holds more than m_max_requests + 1 requests.  That is one more
\* than m_max_requests is said to allow, because append tests with >; but it is
\* not exceeded, however many producers test at a time.
THEOREM QueueBounded == Spec => [](Len(m_workqueue) <= MaxRequests + 1)
<1>1. PoolInv => Len(m_workqueue) <= MaxRequests + 1
  BY DEF PoolInv, Bounded
<1> QED
  BY <1>1, PoolInvariant, PTL

-----------------------------------------------------------------------------
(* The second layer: the semaphore.                                        *)

LEMMA FiniteCounts ==
    /\ IsFiniteSet(Posting) /\ Cardinality(Posting) \in Nat
    /\ IsFiniteSet(Passed) /\ Cardinality(Passed) \in Nat
<1>1. Posting \in SUBSET Producers /\ Passed \in SUBSET Workers
  BY DEF Posting, Passed
<1> QED
  BY <1>1, FS_Subset, FS_CardinalityType

\* A step that moves nobody past the semaphore, pushes and pops nothing.
LEMMA CountsSame ==
    ASSUME SemaphoreCounts, pool # "gone",
           m_queuestat' = m_queuestat, m_workqueue' = m_workqueue,
           Posting' = Posting, Passed' = Passed
    PROVE  SemaphoreCounts'
BY DEF SemaphoreCounts

LEMMA StepCounts == PoolInv /\ SemaphoreCounts /\ [Next]_vars => SemaphoreCounts'
<1> SUFFICES ASSUME PoolInv, SemaphoreCounts, [Next]_vars, pool' # "gone"
             PROVE  SemaphoreCounts'
  BY DEF SemaphoreCounts
<1> USE DEF poolVars, prodVars, workVars
<1>t. TypeOK
  BY DEF PoolInv
<1>c. /\ IsFiniteSet(Posting) /\ Cardinality(Posting) \in Nat
      /\ IsFiniteSet(Passed) /\ Cardinality(Passed) \in Nat
  BY FiniteCounts
<1>1. ASSUME NEW w \in Workers, RunWait(w) PROVE SemaphoreCounts'
  <2>1. Passed' = Passed \cup {w} /\ w \notin Passed /\ Posting' = Posting
    BY <1>1, <1>t DEF RunWait, WStep, Passed, Posting, TypeOK
  <2>2. Cardinality(Passed') = Cardinality(Passed) + 1
    BY <2>1, <1>c, FS_AddElement
  <2> QED
    BY <1>1, <1>t, <1>c, <2>1, <2>2 DEF RunWait, WStep, SemaphoreCounts, TypeOK
<1>2. ASSUME NEW w \in Workers, RunPop(w) PROVE SemaphoreCounts'
  <2>1. Passed' = Passed \ {w} /\ w \in Passed /\ Posting' = Posting
    BY <1>2, <1>t DEF RunPop, WStep, Passed, Posting, TypeOK
  <2>2. Cardinality(Passed') = Cardinality(Passed) - 1
    BY <2>1, <1>c, FS_RemoveElement
  <2>3. m_workqueue # <<>>
    BY <1>2 DEF RunPop, WStep, PoolInv, ChecksHold
  <2>4. Len(m_workqueue') = Len(m_workqueue) - 1
    BY <1>2, <1>t, <2>3 DEF RunPop, TypeOK
  <2> QED
    BY <1>2, <1>t, <1>c, <2>1, <2>2, <2>4 DEF RunPop, WStep, SemaphoreCounts, TypeOK
<1>3. ASSUME NEW w \in Workers, RunCheck(w) PROVE SemaphoreCounts'
  <2>1. w \in Passed /\ pool # "gone"
    BY <1>3 DEF RunCheck, WStep, Passed
  <2>2. Cardinality(Passed) # 0
    BY <2>1, <1>c, FS_EmptySet
  <2>3. m_workqueue # <<>>
    BY <1>t, <1>c, <2>1, <2>2 DEF SemaphoreCounts, TypeOK
  <2>4. Passed' = Passed /\ Posting' = Posting
    BY <1>3, <1>t, <2>3 DEF RunCheck, WStep, Passed, Posting, TypeOK
  <2> QED
    BY <1>3, <2>1, <2>4, CountsSame DEF RunCheck
<1>4. ASSUME NEW p \in Producers, AppendPush(p) PROVE SemaphoreCounts'
  <2>1. Posting' = Posting \cup {p} /\ p \notin Posting /\ Passed' = Passed
    BY <1>4, <1>t DEF AppendPush, PStep, Passed, Posting, TypeOK
  <2>2. Cardinality(Posting') = Cardinality(Posting) + 1
    BY <2>1, <1>c, FS_AddElement
  <2>3. Len(m_workqueue') = Len(m_workqueue) + 1
    BY <1>4, <1>t DEF AppendPush, TypeOK
  <2>4. pool # "gone" /\ m_queuestat' = m_queuestat
    BY <1>4 DEF AppendPush
  <2> QED
    BY <1>t, <1>c, <2>1, <2>2, <2>3, <2>4 DEF SemaphoreCounts, TypeOK
<1>5. ASSUME NEW p \in Producers, AppendPost(p) PROVE SemaphoreCounts'
  <2>1. Posting' = Posting \ {p} /\ p \in Posting /\ Passed' = Passed
    BY <1>5, <1>t DEF AppendPost, PStep, Passed, Posting, TypeOK
  <2>2. Cardinality(Posting') = Cardinality(Posting) - 1
    BY <2>1, <1>c, FS_RemoveElement
  <2>3. pool # "gone" /\ m_workqueue' = m_workqueue
    BY <1>5 DEF AppendPost
  <2> QED
    BY <1>5, <1>t, <1>c, <2>1, <2>2, <2>3 DEF AppendPost, Posted, SemaphoreCounts, TypeOK
<1>6. ASSUME NEW w \in Workers,
             Create(w) \/ RunLoop(w) \/ RunLock(w) \/ RunFront(w) \/ RunUnlock(w)
               \/ RunProcess(w)
      PROVE  SemaphoreCounts'
  <2>1. /\ pool # "gone" /\ m_queuestat' = m_queuestat /\ m_workqueue' = m_workqueue
        /\ Posting' = Posting
    BY <1>6 DEF Create, RunLoop, RunLock, RunFront, RunUnlock, RunProcess, WStep, Posting
  <2>2. /\ \A v \in Workers : v # w => wpc'[v] = wpc[v]
        /\ wpc'[w] \in {"lock", "check", "front", "pop"}
             <=> wpc[w] \in {"lock", "check", "front", "pop"}
    BY <1>6, <1>t DEF Create, RunLoop, RunLock, RunFront, RunUnlock, RunProcess, WStep, TypeOK
  <2>3. Passed' = Passed
    BY <2>2 DEF Passed
  <2> QED
    BY <2>1, <2>3, CountsSame
<1>7. ASSUME NEW p \in Producers,
             AppendCall(p) \/ AppendLock(p) \/ AppendCheck(p) \/ AppendUnlock(p)
      PROVE  SemaphoreCounts'
  <2>1. /\ pool # "gone" /\ m_queuestat' = m_queuestat /\ m_workqueue' = m_workqueue
        /\ Passed' = Passed
    BY <1>7 DEF AppendCall, AppendLock, AppendCheck, AppendUnlock, Passed
  <2>2. /\ \A q \in Producers : q # p => ppc'[q] = ppc[q]
        /\ ppc'[p] \in {"unlock", "post"} <=> ppc[p] \in {"unlock", "post"}
    BY <1>7, <1>t DEF AppendCall, AppendLock, AppendCheck, AppendUnlock, PStep, TypeOK
  <2>3. Posting' = Posting
    BY <2>2 DEF Posting
  <2> QED
    BY <2>1, <2>3, CountsSame
<1>8. CASE Destroy \/ UNCHANGED vars
  <2>1. /\ pool # "gone" /\ m_queuestat' = m_queuestat /\ m_workqueue' = m_workqueue
        /\ Passed' = Passed /\ Posting' = Posting
    BY <1>8 DEF Destroy, vars, Passed, Posting
  <2> QED
    BY <2>1, CountsSame
<1>9. ~CreateFails /\ ~Free /\ \A w \in Workers : ~RunGone(w)
  BY DEF CreateFails, Free, RunGone
<1> QED
  BY <1>1, <1>2, <1>3, <1>4, <1>5, <1>6, <1>7, <1>8, <1>9 DEF Next, Worker, Producer

\* The semaphore accounts for every queued request: no worker is woken in
\* vain, no request is left without a wake-up.
THEOREM SemaphoreCorrect == Spec => []SemaphoreCounts
<1>1. Init => SemaphoreCounts
  <2> SUFFICES ASSUME Init PROVE SemaphoreCounts
    OBVIOUS
  <2>1. Posting = {} /\ Passed = {}
    BY DEF Init, Posting, Passed
  <2> QED
    BY <2>1, FS_EmptySet DEF Init, SemaphoreCounts
<1> QED
  BY <1>1, StepCounts, PoolInvariant, PTL DEF Spec

-----------------------------------------------------------------------------
(* The third layer: the requests.                                          *)

LEMMA AppendElements ==
    ASSUME NEW S, NEW q \in Seq(S), NEW e \in S
    PROVE  LET a == Append(q, e) IN
           /\ {a[k] : k \in DOMAIN a} = {q[k] : k \in DOMAIN q} \cup {e}
           /\ (/\ e \notin {q[k] : k \in DOMAIN q}
               /\ \A k, l \in DOMAIN q : q[k] = q[l] => k = l)
              => \A k, l \in DOMAIN a : a[k] = a[l] => k = l
<1> DEFINE a == Append(q, e)
<1>1. /\ DOMAIN q = 1 .. Len(q) /\ DOMAIN a = 1 .. Len(q) + 1 /\ Len(q) \in Nat
      /\ a[Len(q) + 1] = e /\ \A k \in 1 .. Len(q) : a[k] = q[k]
  OBVIOUS
<1> HIDE DEF a
<1>2. {a[k] : k \in DOMAIN a} = {q[k] : k \in DOMAIN q} \cup {e}
  BY <1>1
<1>3. ASSUME e \notin {q[k] : k \in DOMAIN q},
             \A k, l \in DOMAIN q : q[k] = q[l] => k = l
      PROVE  \A k, l \in DOMAIN a : a[k] = a[l] => k = l
  BY <1>1, <1>3
<1> QED
  BY <1>2, <1>3 DEF a

LEMMA TailElements ==
    ASSUME NEW S, NEW q \in Seq(S), q # <<>>,
           \A k, l \in DOMAIN q : q[k] = q[l] => k = l
    PROVE  LET t == Tail(q) IN
           /\ {t[k] : k \in DOMAIN t} = {q[k] : k \in DOMAIN q} \ {Head(q)}
           /\ Head(q) \in {q[k] : k \in DOMAIN q}
           /\ \A k, l \in DOMAIN t : t[k] = t[l] => k = l
<1> DEFINE t == Tail(q)
<1>1. /\ DOMAIN q = 1 .. Len(q) /\ Len(q) \in Nat /\ Len(q) > 0
      /\ DOMAIN t = 1 .. Len(q) - 1 /\ \A k \in 1 .. Len(q) - 1 : t[k] = q[k + 1]
      /\ Head(q) = q[1]
  OBVIOUS
<1> HIDE DEF t
<1>2. ASSUME NEW k \in DOMAIN q, q[k] # Head(q) PROVE q[k] \in {t[l] : l \in DOMAIN t}
  <2>1. k - 1 \in DOMAIN t /\ t[k - 1] = q[k]
    BY <1>1, <1>2
  <2> QED
    BY <2>1
<1>3. ASSUME NEW k \in DOMAIN t
      PROVE  t[k] \in {q[l] : l \in DOMAIN q} /\ t[k] # Head(q)
  <2>1. k + 1 \in DOMAIN q /\ t[k] = q[k + 1] /\ 1 \in DOMAIN q /\ k + 1 # 1
    BY <1>1
  <2> QED
    BY <1>1, <2>1
<1>4. {t[k] : k \in DOMAIN t} = {q[k] : k \in DOMAIN q} \ {Head(q)}
  BY <1>2, <1>3
<1>5. Head(q) \in {q[k] : k \in DOMAIN q}
  BY <1>1
<1>6. \A k, l \in DOMAIN t : t[k] = t[l] => k = l
  <2> SUFFICES ASSUME NEW k \in DOMAIN t, NEW l \in DOMAIN t, t[k] = t[l] PROVE k = l
    OBVIOUS
  <2>1. k + 1 \in DOMAIN q /\ l + 1 \in DOMAIN q /\ q[k + 1] = q[l + 1]
    BY <1>1
  <2>2. k + 1 = l + 1
    BY <2>1
  <2> QED
    BY <2>2, <1>1
<1> QED
  BY <1>4, <1>5, <1>6 DEF t

\* A request that is not pushed yet is new, and nobody else's; the request
\* that a worker is about to pop is the head of the queue.
Bringing == {p \in Producers : ppc[p] \in {"lock", "check", "refuse", "push"}}
RequestInv ==
    /\ \A p \in Bringing : preq[p] <= appended /\ preq[p] \notin accepted
    /\ \A p, q \in Bringing : preq[p] = preq[q] => p = q
    /\ \A r \in accepted : r <= appended
    /\ pool # "gone" =>
         \A w \in Workers : wpc[w] = "pop" => wreq[w] = Head(m_workqueue)

LEMMA StepRequest == PoolInv /\ RequestInv /\ [Next]_vars => RequestInv'
<1> SUFFICES ASSUME PoolInv, RequestInv, [Next]_vars PROVE RequestInv'
  OBVIOUS
<1> USE DEF poolVars, prodVars, workVars
<1>t. TypeOK
  BY DEF PoolInv
<1>1. ASSUME NEW p \in Producers, AppendCall(p) PROVE RequestInv'
  <2>1. /\ Bringing' = Bringing \cup {p} /\ p \notin Bringing
        /\ appended' = appended + 1 /\ preq'[p] = appended + 1 /\ appended \in Nat
        /\ \A q \in Producers : q # p => preq'[q] = preq[q]
        /\ \A q \in Producers : preq[q] \in Nat
        /\ accepted' = accepted /\ \A r \in accepted : r \in Nat
    BY <1>1, <1>t DEF AppendCall, PStep, Bringing, TypeOK, Requests
  <2>2. Bringing \subseteq Producers
    BY DEF Bringing
  <2>3. \A w \in Workers : wpc'[w] = "pop" => wreq'[w] = Head(m_workqueue')
    BY <1>1 DEF AppendCall, RequestInv
  <2>4. \A q \in Bringing' : preq'[q] <= appended' /\ preq'[q] \notin accepted'
    BY <2>1, <2>2 DEF RequestInv
  <2>5. \A q, r \in Bringing' : preq'[q] = preq'[r] => q = r
    BY <2>1, <2>2 DEF RequestInv
  <2>6. \A r \in accepted' : r <= appended'
    BY <2>1 DEF RequestInv
  <2> QED
    BY <2>3, <2>4, <2>5, <2>6 DEF RequestInv
<1>2. ASSUME NEW p \in Producers, AppendPush(p) PROVE RequestInv'
  <2>1. Bringing' = Bringing \ {p} /\ p \in Bringing
    BY <1>2, <1>t DEF AppendPush, PStep, Bringing, TypeOK
  <2>2. \A w \in Workers : wpc[w] = "pop" => pool = "gone"
    BY <1>2 DEF AppendPush, PStep, PoolInv, OwnerInv
  <2> QED
    BY <1>2, <2>1, <2>2 DEF AppendPush, RequestInv
<1>3. ASSUME NEW p \in Producers,
             AppendLock(p) \/ AppendCheck(p) \/ AppendUnlock(p) \/ AppendPost(p)
      PROVE  RequestInv'
  <2>1. Bringing' \subseteq Bringing
    BY <1>3, <1>t DEF AppendLock, AppendCheck, AppendUnlock, AppendPost, PStep, Bringing, TypeOK
  <2>2. UNCHANGED <<pool, m_workqueue, preq, appended, accepted, wpc, wreq>>
    BY <1>3 DEF AppendLock, AppendCheck, AppendUnlock, AppendPost
  <2> QED
    BY <2>1, <2>2 DEF RequestInv
<1>4. ASSUME NEW w \in Workers, RunFront(w) \/ RunPop(w) PROVE RequestInv'
  <2>1. /\ Bringing' = Bringing
        /\ UNCHANGED <<pool, preq, appended, accepted>>
    BY <1>4 DEF RunFront, RunPop, Bringing
  <2>2. ASSUME NEW v \in Workers, wpc'[v] = "pop" PROVE v = w /\ RunFront(w)
    BY <1>4, <1>t, <2>2 DEF RunFront, RunPop, WStep, PoolInv, OwnerInv, TypeOK
  <2>3. ASSUME NEW v \in Workers, wpc'[v] = "pop" PROVE wreq'[v] = Head(m_workqueue')
    BY <1>t, <2>2, <2>3 DEF RunFront, TypeOK
  <2> QED
    BY <2>1, <2>3 DEF RequestInv
<1>5. ASSUME NEW w \in Workers,
             Create(w) \/ RunLoop(w) \/ RunWait(w) \/ RunLock(w) \/ RunCheck(w)
               \/ RunUnlock(w) \/ RunProcess(w) \/ RunGone(w)
      PROVE  RequestInv'
  <2>1. /\ Bringing' = Bringing /\ (pool = "gone" => pool' = "gone")
        /\ UNCHANGED <<m_workqueue, preq, appended, accepted, wreq>>
    BY <1>5 DEF Create, RunLoop, RunWait, RunLock, RunCheck, RunUnlock, RunProcess,
                RunGone, Bringing
  <2>2. \A v \in Workers : wpc'[v] = "pop" => wpc[v] = "pop"
    BY <1>5, <1>t DEF Create, RunLoop, RunWait, RunLock, RunCheck, RunUnlock, RunProcess,
                RunGone, WStep, TypeOK
  <2> QED
    BY <2>1, <2>2 DEF RequestInv
<1>6. CASE CreateFails \/ Destroy \/ Free \/ UNCHANGED vars
  BY <1>6 DEF CreateFails, Destroy, Free, vars, RequestInv, Bringing
<1> QED
  BY <1>1, <1>2, <1>3, <1>4, <1>5, <1>6 DEF Next, Worker, Producer

\* A step that leaves every request where it is.
LEMMA HandedSame ==
    ASSUME HandedOnce, pool # "gone", m_workqueue' = m_workqueue,
           accepted' = accepted, done' = done, Holding' = Holding,
           \A v \in Holding : wreq'[v] = wreq[v]
    PROVE  HandedOnce'
<1>1. Queued' = Queued /\ InHand' = InHand
  BY DEF Queued, InHand
<1> QED
  BY <1>1 DEF HandedOnce

\* Worker w, one of those that hold a request, is done with it.
LEMMA HandedDone ==
    ASSUME HandedOnce, pool # "gone", m_workqueue' = m_workqueue,
           accepted' = accepted, wreq' = wreq,
           NEW w \in Holding, Holding' = Holding \ {w},
           done' = done \cup {wreq[w]}
    PROVE  HandedOnce'
<1>1. Queued' = Queued
  BY DEF Queued
<1>2. InHand' = InHand \ {wreq[w]} /\ wreq[w] \in InHand
  BY DEF InHand, HandedOnce
<1> QED
  BY <1>1, <1>2 DEF HandedOnce

LEMMA StepHanded ==
    PoolInv /\ RequestInv /\ HandedOnce /\ [Next]_vars => HandedOnce'
<1> SUFFICES ASSUME PoolInv, RequestInv, HandedOnce, [Next]_vars, pool' # "gone"
             PROVE  HandedOnce'
  BY DEF HandedOnce
<1> USE DEF poolVars, prodVars, workVars
<1>t. TypeOK
  BY DEF PoolInv
<1>1. ASSUME NEW p \in Producers, AppendPush(p) PROVE HandedOnce'
  <2>1. /\ pool # "gone" /\ preq[p] \notin accepted /\ preq[p] \in Requests
        /\ m_workqueue \in Seq(Requests) /\ m_workqueue' = Append(m_workqueue, preq[p])
        /\ accepted' = accepted \cup {preq[p]} /\ done' = done /\ wreq' = wreq
    BY <1>1, <1>t DEF AppendPush, PStep, RequestInv, Bringing, TypeOK
  <2>2. Holding' = Holding /\ InHand' = InHand
    BY <1>1 DEF AppendPush, Holding, InHand
  <2>3. preq[p] \notin Queued /\ preq[p] \notin InHand /\ preq[p] \notin done
    BY <2>1 DEF HandedOnce
  <2>4. /\ Queued' = Queued \cup {preq[p]}
        /\ \A k, l \in DOMAIN m_workqueue' : m_workqueue'[k] = m_workqueue'[l] => k = l
    BY <2>1, <2>3, AppendElements DEF Queued, HandedOnce
  <2> QED
    BY <2>1, <2>2, <2>3, <2>4 DEF HandedOnce
<1>2. ASSUME NEW w \in Workers, RunPop(w) PROVE HandedOnce'
  <2>1. /\ pool # "gone" /\ m_workqueue # <<>> /\ wreq[w] = Head(m_workqueue)
        /\ m_workqueue \in Seq(Requests) /\ m_workqueue' = Tail(m_workqueue)
        /\ accepted' = accepted /\ done' = done /\ wreq' = wreq
    BY <1>2, <1>t DEF RunPop, WStep, PoolInv, ChecksHold, RequestInv, TypeOK
  <2>2. Holding' = Holding \cup {w} /\ w \notin Holding
    BY <1>2, <1>t DEF RunPop, WStep, Holding, TypeOK
  <2>3. InHand' = InHand \cup {wreq[w]}
    BY <2>1, <2>2 DEF InHand
  <2>4. /\ Queued' = Queued \ {wreq[w]} /\ wreq[w] \in Queued
        /\ \A k, l \in DOMAIN m_workqueue' : m_workqueue'[k] = m_workqueue'[l] => k = l
    <3>1. \A k, l \in DOMAIN m_workqueue : m_workqueue[k] = m_workqueue[l] => k = l
      BY <2>1 DEF HandedOnce
    <3> DEFINE t == Tail(m_workqueue)
    <3>2. /\ {t[k] : k \in DOMAIN t} = Queued \ {Head(m_workqueue)}
          /\ Head(m_workqueue) \in Queued
          /\ \A k, l \in DOMAIN t : t[k] = t[l] => k = l
      BY <2>1, <3>1, TailElements DEF Queued
    <3>3. m_workqueue' = t
      BY <2>1
    <3> HIDE DEF t
    <3>4. Queued' = {t[k] : k \in DOMAIN t}
      BY <3>3 DEF Queued
    <3> QED
      BY <2>1, <3>2, <3>3, <3>4
  <2>5. wreq[w] \notin InHand /\ wreq[w] \notin done
    BY <2>1, <2>4 DEF HandedOnce
  <2>6. \A u, v \in Holding' : wreq[u] = wreq[v] => u = v
    BY <2>1, <2>2, <2>5 DEF HandedOnce, InHand
  <2>7. /\ accepted' = Queued' \cup InHand' \cup done'
        /\ Queued' \cap InHand' = {} /\ (Queued' \cup InHand') \cap done' = {}
    BY <2>1, <2>3, <2>4, <2>5 DEF HandedOnce
  <2> QED
    BY <2>1, <2>4, <2>6, <2>7 DEF HandedOnce
<1>3. ASSUME NEW w \in Workers, RunUnlock(w) PROVE HandedOnce'
  <2>1. /\ pool # "gone" /\ m_workqueue' = m_workqueue /\ accepted' = accepted
        /\ wreq' = wreq /\ \A v \in Workers : v # w => wpc'[v] = wpc[v]
    BY <1>3, <1>t DEF RunUnlock, WStep, TypeOK
  <2>2. CASE wpc[w] = "again" \/ wpc'[w] = "process"
    <3>1. Holding' = Holding /\ done' = done
      BY <1>3, <1>t, <2>2 DEF RunUnlock, WStep, Holding, TypeOK
    <3> QED
      BY <2>1, <3>1, HandedSame
  <2>3. CASE wpc[w] = "unlock" /\ wpc'[w] = "loop"
    <3>1. w \in Holding /\ Holding' = Holding \ {w} /\ done' = done \cup {wreq[w]}
      BY <1>3, <1>t, <2>3 DEF RunUnlock, WStep, Holding, TypeOK
    <3> QED
      BY <2>1, <3>1, HandedDone
  <2> QED
    BY <1>3, <1>t, <2>2, <2>3 DEF RunUnlock, WStep, TypeOK
<1>4. ASSUME NEW w \in Workers, RunProcess(w) PROVE HandedOnce'
  <2>1. w \in Holding /\ Holding' = Holding \ {w}
    BY <1>4, <1>t DEF RunProcess, WStep, Holding, TypeOK
  <2> QED
    BY <1>4, <2>1, HandedDone DEF RunProcess, WStep
<1>5. ASSUME NEW w \in Workers,
             Create(w) \/ RunLoop(w) \/ RunWait(w) \/ RunLock(w) \/ RunCheck(w)
               \/ RunFront(w)
      PROVE  HandedOnce'
  <2>1. /\ pool # "gone"
        /\ UNCHANGED <<m_workqueue, accepted, done>>
    BY <1>5 DEF Create, RunLoop, RunWait, RunLock, RunCheck, RunFront, WStep
  <2>2. /\ Holding' = Holding /\ w \notin Holding
        /\ \A v \in Workers : v # w => wreq'[v] = wreq[v]
    BY <1>5, <1>t DEF Create, RunLoop, RunWait, RunLock, RunCheck, RunFront, WStep,
                Holding, TypeOK
  <2>3. \A v \in Holding : wreq'[v] = wreq[v]
    BY <2>2 DEF Holding
  <2> QED
    BY <2>1, <2>2, <2>3, HandedSame
<1>6. ASSUME NEW p \in Producers,
             AppendCall(p) \/ AppendLock(p) \/ AppendCheck(p) \/ AppendUnlock(p)
               \/ AppendPost(p)
      PROVE  HandedOnce'
  <2>1. /\ pool # "gone" /\ Holding' = Holding
        /\ UNCHANGED <<m_workqueue, accepted, done, wreq>>
    BY <1>6 DEF AppendCall, AppendLock, AppendCheck, AppendUnlock, AppendPost, Holding
  <2> QED
    BY <2>1, HandedSame
<1>7. CASE Destroy \/ UNCHANGED vars
  <2>1. /\ pool # "gone" /\ Holding' = Holding
        /\ UNCHANGED <<m_workqueue, accepted, done, wreq>>
    BY <1>7 DEF Destroy, vars, Holding
  <2> QED
    BY <2>1, HandedSame
<1>8. ~CreateFails /\ ~Free /\ \A w \in Workers : ~RunGone(w)
  BY DEF CreateFails, Free, RunGone
<1> QED
  BY <1>1, <1>2, <1>3, <1>4, <1>5, <1>6, <1>7, <1>8 DEF Next, Worker, Producer

\* Every request that append accepted is in exactly one place: none is lost,
\* none is taken by two workers.
THEOREM RequestsHandedOnce == Spec => []HandedOnce
<1>1. Init => RequestInv /\ HandedOnce
  BY DEF Init, RequestInv, Bringing, HandedOnce, Queued, InHand, Holding
<1> QED
  BY <1>1, StepRequest, StepHanded, PoolInvariant, PTL DEF Spec
=============================================================================
