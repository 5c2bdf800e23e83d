--------------------------- MODULE TimeWheelProofs ---------------------------
(***************************************************************************)
(* Proofs about TimeWheel, for every set of timers, every size of the      *)
(* wheel, every interval between two ticks and every choice of timeouts.   *)
(*                                                                         *)
(* A slot is unordered, but its list still has an order: a timer is put    *)
(* before all others and never moves.  The invariant says that some order  *)
(* exists with which the links agree; each step shows its order.  The      *)
(* second part of the invariant tells from the place of the hand, the slot *)
(* and the turns to wait when a timer is due, also in the middle of tick,  *)
(* which has then counted down some timers of the slot and not the others. *)
(***************************************************************************)
EXTENDS TimeWheel, FiniteSetTheorems, TLAPS

USE TimersAssumption, WheelAssumption, InputAssumption

-----------------------------------------------------------------------------
(* The inductive invariant.                                                *)

\* The members of a slot.
Members(s) == {t \in alloc : time_slot[t] = s}

Orders == [Timers -> SUBSET Timers]

\* ah is a strict order of the timers: ah[t] is the set of those before t.
OrderInv(ah) ==
    \A t \in alloc : /\ ah[t] \subseteq alloc /\ t \notin ah[t]
                     /\ \A u \in ah[t] : ah[u] \subseteq ah[t]

\* slots[s] is a member of the slot, with nothing before it.  (The destructor
\* leaves prev as it is.)
HeadInv ==
    \A s \in Slots : slots[s] # NULL =>
        /\ slots[s] \in Members(s)
        /\ pc # "destroy" => prev[slots[s]] = NULL

\* A successor is a member of the same slot, not its head, and points back.
NextInv ==
    \A t \in alloc : next[t] # NULL =>
        /\ next[t] \in Members(time_slot[t]) \ {slots[time_slot[t]]}
        /\ prev[next[t]] = t

\* Every timer but the head has a predecessor in the slot, before it.
PrevInv(ah) ==
    \A t \in alloc : t # slots[time_slot[t]] =>
        /\ prev[t] \in ah[t] \cap Members(time_slot[t])
        /\ next[prev[t]] = t

Linked(ah) == OrderInv(ah) /\ HeadInv /\ NextInv /\ PrevInv(ah)

LinkInv == pc # "undefined" => \E ah \in Orders : Linked(ah)

\* How many slots the hand is away from the slot of a timer.
Away(t) == IF time_slot[t] >= cur_slot THEN time_slot[t] - cur_slot
           ELSE time_slot[t] - cur_slot + N

\* The call of tick that is to fire a timer, told from where it hangs: before
\* the current call of tick has come to it, and after.
Coming(t) == due[t] = ticks + 1 + rotation[t] * N + Away(t)
Passed(t) == time_slot[t] = cur_slot /\ due[t] = ticks + 1 + rotation[t] * N + N

\* todo is what is left of the current slot from tmp on.
Walk(todo) ==
    /\ todo \subseteq Members(cur_slot)
    /\ tmp = NULL => todo = {}
    /\ tmp # NULL => tmp \in todo /\ prev[tmp] \notin todo
    /\ \A t \in todo : /\ next[t] # NULL => next[t] \in todo
                       /\ t # tmp => prev[t] \in todo

ClockInv ==
    /\ pc = "idle" => \A t \in alloc : Coming(t)
    /\ pc = "tick" => \E todo \in SUBSET Timers :
          /\ Walk(todo)
          /\ \A t \in alloc : IF time_slot[t] # cur_slot \/ t \in todo
                              THEN Coming(t) ELSE Passed(t)

FiniteInv == IsFiniteSet(alloc)

IInv == TypeOK /\ FiniteInv /\ LinkInv /\ ClockInv

-----------------------------------------------------------------------------
(* Finite sets of timers and their order.                                  *)

\* Among finitely many timers one comes first.
LEMMA FirstOf ==
    ASSUME FiniteInv, NEW ah, OrderInv(ah), NEW D \in SUBSET alloc, D # {}
    PROVE  \E m \in D : \A v \in D : v \notin ah[m]
<1> DEFINE T == {ah[u] : u \in D}
<1>1. T # {} /\ T \subseteq FiniteSubsetsOf(alloc)
  BY FS_Subset DEF FiniteSubsetsOf, OrderInv, FiniteInv
<1>2. \E x \in T : \A y \in T : <<y, x>> \notin StrictSubsetOrdering(alloc)
  <2> HIDE DEF T
  <2> QED
    BY <1>1, FS_StrictSubsetOrderingWellFounded, WFMin
<1>3. PICK m \in D : \A v \in D : <<ah[v], ah[m]>> \notin StrictSubsetOrdering(alloc)
  BY <1>2
<1>4. ASSUME NEW v \in D, v \in ah[m] PROVE FALSE
  <2>1. ah[v] \in SUBSET alloc /\ ah[m] \in SUBSET alloc
    BY DEF OrderInv
  <2>2. ah[v] \subseteq ah[m] /\ ah[v] # ah[m]
    BY <1>4 DEF OrderInv
  <2> QED
    BY <1>3, <2>1, <2>2 DEF StrictSubsetOrdering
<1> QED
  BY <1>4

\* Timers of a slot among which no predecessor is: there are none, or the head
\* is one of them.
LEMMA HeadOf ==
    ASSUME TypeOK, FiniteInv, NEW ah, Linked(ah),
           NEW s \in Slots, NEW D \in SUBSET Members(s), D # {},
           \A t \in D : t # slots[s] => prev[t] \in D
    PROVE  slots[s] \in D
<1>1. D \in SUBSET alloc
  BY DEF Members
<1>2. PICK m \in D : \A v \in D : v \notin ah[m]
  BY <1>1, FirstOf DEF Linked
<1>3. m # slots[s] => prev[m] \in ah[m]
  BY <1>1 DEF Linked, PrevInv, Members
<1> QED
  BY <1>2, <1>3

\* A set with the head of a slot that no next pointer leaves has the slot.
LEMMA SlotReached ==
    ASSUME TypeOK, FiniteInv, NEW ah, Linked(ah), NEW s \in Slots,
           NEW S, slots[s] # NULL => slots[s] \in S, Followed(S)
    PROVE  Members(s) \subseteq S
<1>1. SUFFICES ASSUME Members(s) \ S # {} PROVE FALSE
  OBVIOUS
<1> DEFINE D == Members(s) \ S
<1>2. ASSUME NEW t \in D, t # slots[s] PROVE prev[t] \in D
  <2>1. t \in alloc /\ time_slot[t] = s /\ next[t] \in Timers \cup {NULL} /\ t \in Timers
    BY DEF Members, TypeOK
  <2>2. prev[t] \in Members(s) /\ next[prev[t]] = t
    BY <1>2, <2>1 DEF Linked, PrevInv
  <2> QED
    BY <2>1, <2>2 DEF Followed
<1>3. slots[s] \in D
  <2> HIDE DEF D
  <2>1. D \in SUBSET Members(s) /\ D # {}
    BY <1>1 DEF D
  <2> QED
    BY <1>2, <2>1, HeadOf
<1>4. slots[s] \in Timers
  BY <1>3 DEF Members, TypeOK
<1> QED
  BY <1>3, <1>4

-----------------------------------------------------------------------------
(* What the pointer operations do to the links.                            *)

Without(ah, t) == [u \in Timers |-> ah[u] \ {t}]
First(ah, t) == [u \in Timers |-> IF u = t THEN {} ELSE ah[u] \cup {t}]

LEMMA WithoutType ==
    ASSUME NEW ah \in Orders, NEW t
    PROVE  /\ Without(ah, t) \in Orders
           /\ \A u \in Timers : Without(ah, t)[u] = ah[u] \ {t}
BY DEF Without, Orders

LEMMA FirstType ==
    ASSUME NEW ah \in Orders, NEW t \in Timers
    PROVE  /\ First(ah, t) \in Orders
           /\ \A u \in Timers :
                 First(ah, t)[u] = IF u = t THEN {} ELSE ah[u] \cup {t}
BY DEF First, Orders

\* Taking t out leaves an order.
LEMMA OrderWithout ==
    ASSUME TypeOK, NEW ah \in Orders, OrderInv(ah), NEW t, alloc' = alloc \ {t},
           NEW b, \A u \in Timers : b[u] = ah[u] \ {t}
    PROVE  OrderInv(b)'
BY DEF OrderInv, TypeOK

\* The head of a slot is unlinked: by del_timer, by tick and, with the prev
\* of the next one left as it is, by the destructor.
HeadGoes(s, t, n) ==
    /\ t = slots[s] /\ t # NULL /\ n = next[t]
    /\ alloc' = alloc \ {t} /\ slots' = [slots EXCEPT ![s] = n]
    /\ \A u \in Timers : u # n => prev'[u] = prev[u]
    /\ n # NULL /\ pc # "destroy" => prev'[n] = NULL
    /\ UNCHANGED <<next, time_slot, pc>>

LEMMA HeadUnlinked ==
    ASSUME TypeOK, NEW ah \in Orders, Linked(ah),
           NEW s \in Slots, NEW t, NEW n, HeadGoes(s, t, n)
    PROVE  \E b \in Orders : Linked(b)'
<1> USE DEF HeadGoes
<1>1. t \in Members(s) /\ t \in Timers /\ t \in alloc /\ time_slot[t] = s
  BY DEF Linked, HeadInv, Members, TypeOK
<1>2. n # NULL => n \in alloc /\ time_slot[n] = s /\ n # t /\ prev[n] = t
  BY <1>1 DEF Linked, NextInv, Members
<1> DEFINE b == Without(ah, t)
           P == prev'
           M == alloc \ {t}
<1>3. b \in Orders /\ \A u \in Timers : b[u] = ah[u] \ {t}
  BY WithoutType
<1> HIDE DEF b
<1>4. OrderInv(b)'
  BY <1>3, OrderWithout DEF Linked
<1>5. /\ \A r \in Slots : slots'[r] = IF r = s THEN n ELSE slots[r]
      /\ alloc \subseteq Timers /\ \A u \in Timers : time_slot[u] \in Slots
  BY DEF TypeOK
<1>6. HeadInv'
  <2> SUFFICES ASSUME NEW r \in Slots, slots'[r] # NULL
               PROVE  /\ slots'[r] \in alloc' /\ time_slot'[slots'[r]] = r
                      /\ pc' # "destroy" => prev'[slots'[r]] = NULL
    BY DEF HeadInv, Members
  <2>1. CASE r = s
    BY <1>1, <1>2, <1>5, <2>1
  <2>2. CASE r # s
    <3>1. /\ slots[r] \in alloc /\ time_slot[slots[r]] = r
          /\ pc # "destroy" => prev[slots[r]] = NULL
      BY <1>5, <2>2 DEF Linked, HeadInv, Members
    <3> QED
      BY <1>1, <1>2, <1>5, <2>2, <3>1
  <2> QED
    BY <2>1, <2>2
<1>7. NextInv'
  <2> SUFFICES ASSUME NEW u \in M, next[u] # NULL
               PROVE  /\ next[u] \in M /\ time_slot[next[u]] = time_slot[u]
                      /\ next[u] # slots'[time_slot[u]]
                      /\ P[next[u]] = u
    BY DEF NextInv, Members
  <2>1. /\ next[u] \in alloc /\ time_slot[next[u]] = time_slot[u]
        /\ next[u] # slots[time_slot[u]] /\ prev[next[u]] = u
    BY DEF Linked, NextInv, Members
  <2>2. next[u] # t
    BY <1>1, <2>1
  <2>3. next[u] # n
    BY <1>2, <2>1
  <2> QED
    BY <1>5, <2>1, <2>2, <2>3
<1>8. PrevInv(b)'
  <2> SUFFICES ASSUME NEW u \in M, u # slots'[time_slot[u]]
               PROVE  /\ P[u] \in b[u] \cap M
                      /\ time_slot[P[u]] = time_slot[u] /\ next[P[u]] = u
    BY DEF PrevInv, Members
  <2>1. u # n /\ u # slots[time_slot[u]]
    BY <1>1, <1>2, <1>5
  <2>2. /\ prev[u] \in ah[u] \cap alloc /\ time_slot[prev[u]] = time_slot[u]
        /\ next[prev[u]] = u
    BY <2>1 DEF Linked, PrevInv, Members
  <2>3. prev[u] # t
    BY <2>1, <2>2
  <2> QED
    BY <1>3, <1>5, <2>1, <2>2, <2>3
<1> QED
  BY <1>3, <1>4, <1>6, <1>7, <1>8 DEF Linked

\* A timer is unlinked that is not the head.
LEMMA MiddleUnlinked ==
    ASSUME TypeOK, NEW ah \in Orders, Linked(ah),
           NEW t \in alloc, t # slots[time_slot[t]], UnlinkMiddle(t),
           alloc' = alloc \ {t}, UNCHANGED time_slot,
           pc # "destroy", pc' # "destroy"
    PROVE  \E b \in Orders : Linked(b)'
<1> DEFINE n == next[t]
           p == prev[t]
           s == time_slot[t]
           b == Without(ah, t)
           M == alloc \ {t}
           P == prev'
           X == next'
<1>1. /\ p \in ah[t] /\ p \in alloc /\ time_slot[p] = s /\ next[p] = t
      /\ t \in Timers /\ p \in Timers /\ s \in Slots
  BY DEF Linked, PrevInv, Members, TypeOK
<1>2. n # NULL => /\ n \in alloc /\ n \in Timers /\ time_slot[n] = s
                  /\ n # slots[s] /\ prev[n] = t
  BY DEF Linked, NextInv, Members, TypeOK
<1>3. p # t /\ n # t /\ (n # NULL => n # p)
  BY <1>1, <1>2 DEF Linked, PrevInv, OrderInv, Members
<1>4. /\ \A u \in Timers : X[u] = IF u = p THEN n ELSE next[u]
      /\ \A u \in Timers : P[u] = IF u = n THEN p ELSE prev[u]
      /\ slots' = slots
  BY <1>1, <1>2 DEF UnlinkMiddle, Set, TypeOK
<1>5. b \in Orders /\ \A u \in Timers : b[u] = ah[u] \ {t}
  BY WithoutType
<1>6. alloc \subseteq Timers /\ \A u \in Timers : time_slot[u] \in Slots
  BY DEF TypeOK
<1> HIDE DEF b, n, p, s, X, P
<1>7. OrderInv(b)'
  BY <1>5, OrderWithout DEF Linked
<1>8. HeadInv'
  <2> SUFFICES ASSUME NEW r \in Slots, slots[r] # NULL
               PROVE  slots[r] \in M /\ time_slot[slots[r]] = r /\ P[slots[r]] = NULL
    BY <1>4 DEF HeadInv, Members, P
  <2>1. slots[r] \in alloc /\ time_slot[slots[r]] = r /\ prev[slots[r]] = NULL
    BY DEF Linked, HeadInv, Members
  <2>2. slots[r] # t
    BY <2>1
  <2>3. slots[r] # n
    BY <1>2, <2>1 DEF n
  <2> QED
    BY <1>4, <1>6, <2>1, <2>2, <2>3
<1>9. NextInv'
  <2> SUFFICES ASSUME NEW u \in M, X[u] # NULL
               PROVE  /\ X[u] \in M /\ time_slot[X[u]] = time_slot[u]
                      /\ X[u] # slots[time_slot[u]] /\ P[X[u]] = u
    BY <1>4 DEF NextInv, Members, P, X
  <2>1. CASE u = p
    BY <1>1, <1>2, <1>3, <1>4, <2>1
  <2>2. CASE u # p
    <3>1. X[u] = next[u]
      BY <1>4, <1>6, <2>2
    <3>2. /\ next[u] \in alloc /\ time_slot[next[u]] = time_slot[u]
          /\ next[u] # slots[time_slot[u]] /\ prev[next[u]] = u
      BY <3>1 DEF Linked, NextInv, Members
    <3>3. next[u] # t
      BY <2>2, <3>2 DEF p
    <3>4. next[u] # n
      BY <1>2, <3>1, <3>2
    <3> QED
      BY <1>4, <1>6, <3>1, <3>2, <3>3, <3>4
  <2> QED
    BY <2>1, <2>2
<1>10. PrevInv(b)'
  <2> SUFFICES ASSUME NEW u \in M, u # slots[time_slot[u]]
               PROVE  /\ P[u] \in b[u] \cap M
                      /\ time_slot[P[u]] = time_slot[u] /\ X[P[u]] = u
    BY <1>4 DEF PrevInv, Members, P, X
  <2>1. /\ prev[u] \in ah[u] \cap alloc /\ time_slot[prev[u]] = time_slot[u]
        /\ next[prev[u]] = u
    BY DEF Linked, PrevInv, Members
  <2>2. CASE u = n
    <3>1. n # NULL /\ P[u] = p
      BY <1>4, <1>6, <2>2
    <3>2. t \in ah[u]
      BY <1>2, <2>1, <2>2, <3>1
    <3>3. p \in ah[u]
      BY <1>1, <3>2 DEF Linked, OrderInv
    <3> QED
      BY <1>1, <1>2, <1>3, <1>4, <1>5, <1>6, <2>2, <3>1, <3>3
  <2>3. CASE u # n
    <3>1. P[u] = prev[u]
      BY <1>4, <1>6, <2>3
    <3>2. prev[u] # t /\ prev[u] # p
      BY <1>1, <2>1, <2>3 DEF n
    <3> QED
      BY <1>4, <1>5, <1>6, <2>1, <3>1, <3>2
  <2> QED
    BY <2>2, <2>3
<1> QED
  BY <1>5, <1>7, <1>8, <1>9, <1>10 DEF Linked

\* A new timer becomes the head of its slot.
LEMMA HeadPushed ==
    ASSUME TypeOK, NEW ah \in Orders, Linked(ah), pc # "destroy",
           NEW t \in Timers \ alloc, NEW s \in Slots, pc' = pc,
           alloc' = alloc \cup {t}, time_slot' = [time_slot EXCEPT ![t] = s],
           next' = [next EXCEPT ![t] = slots[s]],
           prev' = Set([prev EXCEPT ![t] = NULL], slots[s], t),
           slots' = [slots EXCEPT ![s] = t]
    PROVE  \E b \in Orders : Linked(b)'
<1> DEFINE h == slots[s]
           b == First(ah, t)
           M == alloc \cup {t}
           P == prev'
           X == next'
           S == slots'
           Q == time_slot'
<1>1. /\ h # NULL => h \in alloc /\ time_slot[h] = s /\ prev[h] = NULL
      /\ h # t /\ t # NULL
  BY DEF Linked, HeadInv, Members, TypeOK
<1>2. alloc \subseteq Timers /\ \A u \in Timers : time_slot[u] \in Slots
  BY DEF TypeOK
<1>3. /\ \A u \in Timers : X[u] = IF u = t THEN h ELSE next[u]
      /\ \A u \in Timers : P[u] = IF u = t THEN NULL ELSE IF u = h THEN t ELSE prev[u]
      /\ \A r \in Slots : S[r] = IF r = s THEN t ELSE slots[r]
      /\ \A u \in Timers : Q[u] = IF u = t THEN s ELSE time_slot[u]
  BY <1>1, <1>2 DEF Set, TypeOK
<1>4. b \in Orders /\ b[t] = {} /\ \A u \in alloc : b[u] = ah[u] \cup {t}
  BY <1>2, FirstType
<1>5. \A u \in alloc : /\ ah[u] \subseteq alloc /\ u \notin ah[u]
                       /\ \A v \in ah[u] : ah[v] \subseteq ah[u]
  BY DEF Linked, OrderInv
<1> HIDE DEF b, h, X, P, S, Q
<1>6. OrderInv(b)'
  <2>1. \A u \in M : b[u] \subseteq M /\ u \notin b[u]
    BY <1>4, <1>5
  <2>2. ASSUME NEW u \in M, NEW v \in b[u] PROVE b[v] \subseteq b[u]
    <3>1. u \in alloc
      BY <1>4, <2>2
    <3>2. CASE v = t
      BY <1>4, <3>2
    <3>3. CASE v # t
      BY <1>4, <1>5, <3>1, <3>3, <2>2
    <3> QED
      BY <3>2, <3>3
  <2> QED
    BY <2>1, <2>2 DEF OrderInv
<1>7. HeadInv'
  <2> SUFFICES ASSUME NEW r \in Slots, S[r] # NULL
               PROVE  S[r] \in M /\ Q[S[r]] = r /\ P[S[r]] = NULL
    <3>1. HeadInv' <=> \A r \in Slots : S[r] # NULL =>
              S[r] \in {v \in M : Q[v] = r} /\ (pc # "destroy" => P[S[r]] = NULL)
      BY Zenon DEF HeadInv, Members, P, S, Q
    <3> QED
      BY <3>1
  <2>1. CASE r = s
    BY <1>3, <2>1
  <2>2. CASE r # s
    <3>0. S[r] = slots[r]
      BY <1>3, <2>2
    <3>1. /\ slots[r] \in alloc /\ time_slot[slots[r]] = r /\ prev[slots[r]] = NULL
          /\ S[r] = slots[r]
      BY <3>0 DEF Linked, HeadInv, Members
    <3>2. slots[r] # t /\ slots[r] # h
      BY <1>1, <2>2, <3>1
    <3> QED
      BY <1>2, <1>3, <3>1, <3>2
  <2> QED
    BY <2>1, <2>2
<1>8. NextInv'
  <2> SUFFICES ASSUME NEW u \in M, X[u] # NULL
               PROVE  /\ X[u] \in M /\ Q[X[u]] = Q[u]
                      /\ X[u] # S[Q[u]] /\ P[X[u]] = u
    <3>1. NextInv' <=> \A u \in M : X[u] # NULL =>
              X[u] \in {v \in M : Q[v] = Q[u]} \ {S[Q[u]]} /\ P[X[u]] = u
      BY Zenon DEF NextInv, Members, P, X, S, Q
    <3> QED
      BY <3>1
  <2>1. CASE u = t
    BY <1>1, <1>2, <1>3, <2>1
  <2>2. CASE u # t
    <3>1. u \in alloc /\ X[u] = next[u] /\ Q[u] = time_slot[u]
      BY <1>2, <1>3, <2>2
    <3>2. /\ next[u] \in alloc /\ time_slot[next[u]] = time_slot[u]
          /\ next[u] # slots[time_slot[u]] /\ prev[next[u]] = u
      BY <3>1 DEF Linked, NextInv, Members
    <3>3. next[u] # t /\ next[u] # h
      BY <1>1, <3>1, <3>2 DEF h
    <3> QED
      BY <1>2, <1>3, <3>1, <3>2, <3>3
  <2> QED
    BY <2>1, <2>2
<1>9. PrevInv(b)'
  <2> SUFFICES ASSUME NEW u \in M, u # S[Q[u]]
               PROVE  P[u] \in b[u] \cap M /\ Q[P[u]] = Q[u] /\ X[P[u]] = u
    BY DEF PrevInv, Members, P, X, S, Q
  <2>1. u # t
    BY <1>3
  <2>2. u \in alloc /\ Q[u] = time_slot[u]
    BY <1>2, <1>3, <2>1
  <2>3. CASE u = h
    BY <1>1, <1>2, <1>3, <1>4, <2>1, <2>2, <2>3
  <2>4. CASE u # h
    <3>1. u # slots[time_slot[u]]
      BY <1>2, <1>3, <2>2, <2>4 DEF h
    <3>2. /\ prev[u] \in ah[u] \cap alloc /\ time_slot[prev[u]] = time_slot[u]
          /\ next[prev[u]] = u
      BY <2>2, <3>1 DEF Linked, PrevInv, Members
    <3> QED
      BY <1>2, <1>3, <1>4, <2>1, <2>2, <2>4, <3>2
  <2> QED
    BY <2>3, <2>4
<1> QED
  BY <1>4, <1>6, <1>7, <1>8, <1>9 DEF Linked

-----------------------------------------------------------------------------
(* What tick has still to handle.                                          *)

\* At the start of tick that is the whole slot.
LEMMA WalkBegins ==
    ASSUME TypeOK, FiniteInv, NEW ah, Linked(ah), pc # "destroy",
           tmp' = slots[cur_slot],
           UNCHANGED <<slots, prev, next, alloc, time_slot, cur_slot>>,
           NEW D, D = Members(cur_slot)
    PROVE  Walk(D)'
<1> DEFINE h == slots[cur_slot]
<1>1. cur_slot \in Slots /\ alloc \subseteq Timers
  BY DEF TypeOK
<1>2. h # NULL => h \in D /\ prev[h] = NULL
  BY <1>1 DEF Linked, HeadInv
<1>3. \A t \in D : /\ next[t] # NULL => next[t] \in D
                   /\ t # h => prev[t] \in D
  BY DEF Linked, NextInv, PrevInv, Members
<1>4. D # {} => h \in D
  BY <1>1, <1>3, HeadOf
<1>5. NULL \notin D
  BY <1>1 DEF Members
<1>6. /\ tmp' = h /\ next' = next /\ prev' = prev
      /\ Members(cur_slot)' = D
  BY DEF Members
<1> QED
  BY <1>2, <1>3, <1>4, <1>5, <1>6 DEF Walk

\* With every iteration that is one timer less, whether the timer stays or is
\* unlinked.
LEMMA WalkGoesOn ==
    ASSUME TypeOK, FiniteInv, NEW ah, Linked(ah), pc = "tick",
           NEW todo, Walk(todo), NEW m, m = tmp, m # NULL, tmp' = next[m],
           NEW D, D = todo \ {m}, D \subseteq Members(cur_slot)',
           \A u \in D : next'[u] = next[u] /\ (u # next[m] => prev'[u] = prev[u]),
           next[m] # NULL => prev'[next[m]] \notin D
    PROVE  Walk(D)'
<1> DEFINE n == next[m]
           h == slots[cur_slot]
<1>1. /\ m \in todo /\ prev[m] \notin todo /\ todo \subseteq Members(cur_slot)
      /\ \A t \in todo : /\ next[t] # NULL => next[t] \in todo
                         /\ t # m => prev[t] \in todo
  BY DEF Walk
<1>2. cur_slot \in Slots /\ NULL \notin todo /\ D \subseteq alloc /\ m \in alloc
  BY <1>1 DEF TypeOK, Members
<1>3. h \notin D
  BY <1>1, <1>2 DEF Linked, HeadInv
<1>4. \A t \in D : next[prev[t]] = t
  BY <1>1, <1>2, <1>3 DEF Linked, PrevInv, Members
<1>5. \A t \in todo : next[t] # NULL => prev[next[t]] = t
  BY <1>1 DEF Linked, NextInv, Members
<1>6. \A t \in D : t # n => prev[t] \in D
  BY <1>1, <1>4
<1>7. n = NULL => D = {}
  <2> SUFFICES ASSUME n = NULL, D # {} PROVE FALSE
    OBVIOUS
  <2>1. \A t \in D : t # h => prev[t] \in D
    BY <1>2, <1>6
  <2> QED
    BY <1>1, <1>2, <1>3, <2>1, HeadOf
<1>8. n # NULL => n \in D
  BY <1>1, <1>5
<1>9. \A t \in D : next[t] # NULL => next[t] \in D
  BY <1>1, <1>5
<1> DEFINE X == next'
           P == prev'
<1>10. /\ \A t \in D : X[t] = next[t] /\ (t # n => P[t] = prev[t])
       /\ n # NULL => P[n] \notin D
       /\ tmp' = n
  OBVIOUS
<1> HIDE DEF X, P, n
<1>11. /\ tmp' = NULL => D = {}
       /\ tmp' # NULL => tmp' \in D /\ P[tmp'] \notin D
  BY <1>7, <1>8, <1>10
<1>12. \A t \in D : /\ X[t] # NULL => X[t] \in D
                    /\ t # tmp' => P[t] \in D
  BY <1>6, <1>9, <1>10
<1> QED
  BY <1>11, <1>12 DEF Walk, X, P

-----------------------------------------------------------------------------
(* The arithmetic of the wheel.                                            *)

LEMMA Division ==
    ASSUME NEW k \in Nat
    PROVE  /\ k \div N \in Nat /\ k % N \in 0 .. N - 1
           /\ k = (k \div N) * N + (k % N)
<1>1. k = N * (k \div N) + (k % N)
  OBVIOUS
<1>2. k \div N \in Nat /\ k % N \in 0 .. N - 1
  OBVIOUS
<1>3. \A q \in Nat : N * q = q * N
  OBVIOUS
<1> QED
  BY <1>1, <1>2, <1>3

LEMMA Turns ==
    ASSUME NEW r \in Nat
    PROVE  r * N \in Nat /\ (r > 0 => r - 1 \in Nat /\ (r - 1) * N = r * N - N)
OBVIOUS

\* Which slot is r slots behind slot c.
LEMMA SlotBehind ==
    ASSUME NEW c \in Slots, NEW r \in 0 .. N - 1, NEW s, s = (c + r) % N
    PROVE  s \in Slots /\ s = IF c + r < N THEN c + r ELSE c + r - N
<1>1. CASE c + r < N
  BY <1>1 DEF Slots
<1>2. CASE c + r >= N
  BY <1>2 DEF Slots
<1> QED
  BY <1>1, <1>2 DEF Slots

LEMMA AwayType ==
    ASSUME TypeOK, NEW t \in Timers
    PROVE  Away(t) \in 0 .. N - 1 /\ (Away(t) = 0 <=> time_slot[t] = cur_slot)
<1>1. time_slot[t] \in Slots /\ cur_slot \in Slots
  BY DEF TypeOK
<1> QED
  BY <1>1 DEF Away, Slots

\* Nobody is due before the tick to come.
LEMMA DueLater ==
    ASSUME TypeOK, NEW t \in Timers, Coming(t) \/ Passed(t)
    PROVE  /\ due[t] >= ticks + 1
           /\ Coming(t) /\ rotation[t] = 0 /\ time_slot[t] = cur_slot
                => due[t] = ticks + 1
<1>1. /\ Away(t) \in Nat /\ rotation[t] \in Nat /\ ticks \in Nat
      /\ time_slot[t] = cur_slot => Away(t) = 0
  BY AwayType DEF TypeOK
<1>2. rotation[t] * N \in Nat /\ (rotation[t] = 0 => rotation[t] * N = 0)
  BY <1>1, Turns
<1> QED
  BY <1>1, <1>2 DEF Coming, Passed

LEMMA Unmoved ==
    ASSUME NEW t, due'[t] = due[t], rotation'[t] = rotation[t],
           time_slot'[t] = time_slot[t], cur_slot' = cur_slot, ticks' = ticks
    PROVE  Coming(t)' = Coming(t) /\ Passed(t)' = Passed(t)
BY DEF Coming, Passed, Away

-----------------------------------------------------------------------------
(* Types.                                                                  *)

LEMMA TypeInit == Init => TypeOK
BY DEF Init, TypeOK, Slots

LEMMA SetType ==
    ASSUME NEW f \in [Timers -> Timers \cup {NULL}], NEW p \in Timers \cup {NULL},
           NEW v \in Timers \cup {NULL}
    PROVE  Set(f, p, v) \in [Timers -> Timers \cup {NULL}]
BY DEF Set

LEMMA TicksType ==
    ASSUME NEW timeout \in Timeouts
    PROVE  TicksOf(timeout) \in Nat
<1>1. timeout \in Nat /\ SI \in Nat /\ SI > 0
  OBVIOUS
<1> QED
  BY <1>1 DEF TicksOf

LEMMA AddType ==
    ASSUME TypeOK, NEW timeout \in Timeouts, NEW k, k = TicksOf(timeout)
    PROVE  k \in Nat /\ RotationOf(k) \in Nat /\ SlotOf(k) \in Slots
<1>1. k \in Nat
  BY TicksType
<1>2. cur_slot \in Slots /\ k % N \in 0 .. N - 1
  BY <1>1, Division DEF TypeOK
<1> QED
  BY <1>1, <1>2, Division, SlotBehind DEF RotationOf, SlotOf

LEMMA TypeStep == TypeOK /\ [Next]_vars => TypeOK'
<1> SUFFICES ASSUME TypeOK, [Next]_vars PROVE TypeOK'
  OBVIOUS
<1> USE DEF TypeOK, links
<1>1. ASSUME NEW t \in Timers, NEW timeout \in Timeouts, AddTimer(t, timeout)
      PROVE  TypeOK'
  <2> DEFINE k == TicksOf(timeout)
             ts == SlotOf(k)
  <2>1. k \in Nat /\ RotationOf(k) \in Nat /\ ts \in Slots
    BY AddType
  <2>2. /\ alloc' = alloc \cup {t} /\ fired' = fired \ {t}
        /\ rotation' = [rotation EXCEPT ![t] = RotationOf(k)]
        /\ time_slot' = [time_slot EXCEPT ![t] = ts]
        /\ next' = [next EXCEPT ![t] = slots[ts]]
        /\ prev' = Set([prev EXCEPT ![t] = NULL], slots[ts], t)
        /\ slots' = [slots EXCEPT ![ts] = t]
        /\ due' = [due EXCEPT ![t] = ticks + k + 1]
        /\ UNCHANGED <<cur_slot, pc, tmp, ticks>>
    BY <1>1 DEF AddTimer
  <2> HIDE DEF k, ts
  <2>3. slots[ts] \in Timers \cup {NULL}
    BY <2>1
  <2>4. prev' \in [Timers -> Timers \cup {NULL}]
    BY <2>2, <2>3, SetType
  <2>5. due' \in [Timers -> Nat]
    BY <2>1, <2>2
  <2> QED
    BY <2>1, <2>2, <2>3, <2>4, <2>5
<1>2. ASSUME NEW s \in Slots, UnlinkHead(s), slots[s] # NULL
      PROVE  /\ slots' \in [Slots -> Timers \cup {NULL}]
             /\ prev' \in [Timers -> Timers \cup {NULL}]
             /\ next' = next
  <2>1. next[slots[s]] \in Timers \cup {NULL}
    BY <1>2
  <2> QED
    BY <1>2, <2>1, SetType DEF UnlinkHead
<1>3. ASSUME NEW t \in Timers, UnlinkMiddle(t)
      PROVE  /\ next' \in [Timers -> Timers \cup {NULL}]
             /\ prev' \in [Timers -> Timers \cup {NULL}]
             /\ slots' = slots
  BY <1>3, SetType DEF UnlinkMiddle
<1>4. ASSUME NEW t \in Timers, DelHead(t) PROVE TypeOK'
  <2>1. time_slot[t] \in Slots /\ slots[time_slot[t]] # NULL
    BY <1>4 DEF DelHead
  <2> QED
    BY <1>2, <1>4, <2>1 DEF DelHead
<1>5. ASSUME NEW t \in Timers, DelMiddle(t) PROVE TypeOK'
  BY <1>3, <1>5 DEF DelMiddle
<1>6. CASE TickStart \/ DestroyStart \/ DestroyEnd
  BY <1>6 DEF TickStart, DestroyStart, DestroyEnd
<1>7. CASE TickTurn
  <2>1. tmp \in Timers /\ rotation[tmp] \in Nat /\ rotation[tmp] > 0
    BY <1>7 DEF TickTurn, Waits
  <2>2. rotation[tmp] - 1 \in Nat
    BY <2>1
  <2> QED
    BY <1>7, <2>1, <2>2 DEF TickTurn
<1>8. CASE TickHead
  BY <1>2, <1>8 DEF TickHead, Expire
<1>9. CASE TickMiddle \/ TickFrees
  <2>1. tmp \in Timers
    BY <1>9 DEF TickMiddle, TickFrees, Expire
  <2> QED
    BY <1>3, <1>9, <2>1 DEF TickMiddle, TickFrees, Expire
<1>10. CASE TickEnd
  <2>1. (cur_slot + 1) % N \in Slots
    BY DEF Slots
  <2> QED
    BY <1>10, <2>1 DEF TickEnd
<1>11. ASSUME NEW s \in Slots, DestroyStep(s) PROVE TypeOK'
  <2>1. slots[s] \in Timers /\ next[slots[s]] \in Timers \cup {NULL}
    BY <1>11 DEF DestroyStep
  <2> QED
    BY <1>11, <2>1 DEF DestroyStep
<1>12. CASE UNCHANGED vars
  BY <1>12 DEF vars
<1> QED
  BY <1>1, <1>4, <1>5, <1>6, <1>7, <1>8, <1>9, <1>10, <1>11, <1>12
     DEF Next, Loop

-----------------------------------------------------------------------------
(* Every step keeps the invariant.                                         *)

LEMMA InvInit == Init => IInv
<1> SUFFICES ASSUME Init PROVE IInv
  OBVIOUS
<1>1. TypeOK
  BY TypeInit
<1>2. FiniteInv
  BY FS_EmptySet DEF Init, FiniteInv
<1> DEFINE ah == [t \in Timers |-> {}]
<1>3. ah \in Orders /\ Linked(ah)
  BY DEF Init, Linked, OrderInv, HeadInv, NextInv, PrevInv, Orders
<1>4. LinkInv
  BY <1>3 DEF LinkInv
<1>5. ClockInv
  BY DEF Init, ClockInv
<1> QED
  BY <1>1, <1>2, <1>4, <1>5 DEF IInv

LEMMA FiniteStep == FiniteInv /\ [Next]_vars => FiniteInv'
<1> SUFFICES ASSUME FiniteInv, [Next]_vars PROVE FiniteInv'
  OBVIOUS
<1>1. \/ alloc' = alloc
      \/ \E t \in Timers : alloc' = alloc \cup {t}
      \/ \E t : alloc' = alloc \ {t}
  BY DEF Next, Loop, AddTimer, DelHead, DelMiddle, TickStart, DestroyStart,
         TickTurn, TickHead, TickMiddle, TickFrees, Expire, TickEnd, DestroyStep,
         DestroyEnd, vars
<1> QED
  BY <1>1, FS_AddElement, FS_RemoveElement DEF FiniteInv

\* The links change only when a timer is added or goes.
LEMMA LinkSame ==
    ASSUME LinkInv, UNCHANGED <<slots, prev, next, alloc, time_slot>>,
           pc' # "undefined" => pc # "undefined" /\ (pc = "destroy" => pc' = "destroy")
    PROVE  LinkInv'
<1> SUFFICES ASSUME pc' # "undefined" PROVE \E ah \in Orders : Linked(ah)'
  BY DEF LinkInv
<1>1. PICK ah \in Orders : Linked(ah)
  BY DEF LinkInv
<1>2. Linked(ah)'
  BY <1>1 DEF Linked, OrderInv, HeadInv, NextInv, PrevInv, Members
<1> QED
  BY <1>2

\* When the timers that stay keep their turns and the hand does not move,
\* nobody's call of tick changes.
LEMMA ClockSame ==
    ASSUME TypeOK, pc = "idle", pc' # "tick", ClockInv, alloc' \subseteq alloc,
           UNCHANGED <<due, rotation, time_slot, cur_slot, ticks>>
    PROVE  ClockInv'
<1>1. ASSUME NEW t \in alloc' PROVE Coming(t)'
  BY Unmoved DEF ClockInv
<1> QED
  BY <1>1 DEF ClockInv

\* add_timer: the slot and the turns are those of a timer that fires k calls
\* of tick after the one to come.
LEMMA AddStep ==
    ASSUME IInv, NEW t \in Timers, NEW timeout \in Timeouts, AddTimer(t, timeout)
    PROVE  LinkInv' /\ ClockInv'
<1> DEFINE k == TicksOf(timeout)
           ts == SlotOf(k)
<1>1. TypeOK /\ FiniteInv /\ LinkInv /\ ClockInv
  BY DEF IInv
<1>2. k \in Nat /\ RotationOf(k) \in Nat /\ ts \in Slots
  BY <1>1, AddType
<1>3. /\ pc = "idle" /\ t \notin alloc
      /\ alloc' = alloc \cup {t}
      /\ rotation' = [rotation EXCEPT ![t] = RotationOf(k)]
      /\ time_slot' = [time_slot EXCEPT ![t] = ts]
      /\ next' = [next EXCEPT ![t] = slots[ts]]
      /\ prev' = Set([prev EXCEPT ![t] = NULL], slots[ts], t)
      /\ slots' = [slots EXCEPT ![ts] = t]
      /\ due' = [due EXCEPT ![t] = ticks + k + 1]
      /\ UNCHANGED <<cur_slot, pc, ticks>>
  BY DEF AddTimer
<1>4. ts = (cur_slot + (k % N)) % N /\ RotationOf(k) = k \div N
  BY DEF SlotOf, RotationOf
<1> HIDE DEF k, ts
<1>5. LinkInv'
  <2>1. PICK ah \in Orders : Linked(ah)
    BY <1>1, <1>3 DEF LinkInv
  <2>2. pc # "destroy" /\ pc' = pc
    BY <1>3
  <2>3. \E b \in Orders : Linked(b)'
    BY <1>1, <1>2, <1>3, <2>1, <2>2, HeadPushed
  <2> QED
    BY <2>3 DEF LinkInv
<1>6. ASSUME NEW u \in alloc PROVE Coming(u)'
  <2>1. u \in Timers /\ u # t /\ Coming(u)
    BY <1>1, <1>3 DEF ClockInv, TypeOK
  <2>2. /\ due'[u] = due[u] /\ rotation'[u] = rotation[u]
        /\ time_slot'[u] = time_slot[u]
    BY <1>1, <1>3, <2>1 DEF TypeOK
  <2> QED
    BY <1>3, <2>1, <2>2, Unmoved
<1>7. Coming(t)'
  <2>1. /\ due'[t] = ticks + k + 1 /\ rotation'[t] = k \div N /\ time_slot'[t] = ts
        /\ ticks' = ticks /\ cur_slot' = cur_slot
    BY <1>1, <1>2, <1>3, <1>4 DEF TypeOK
  <2>2. cur_slot \in Slots /\ cur_slot \in 0 .. N - 1 /\ ticks \in Nat
    BY <1>1 DEF TypeOK, Slots
  <2> DEFINE r == k % N
             q == k \div N
             c == cur_slot
  <2>3. q \in Nat /\ r \in 0 .. N - 1 /\ k = q * N + r
    BY <1>2, Division
  <2>4. ts = IF c + r < N THEN c + r ELSE c + r - N
    BY <1>4, <2>2, <2>3, SlotBehind
  <2> HIDE DEF r, q
  <2>5. r = IF ts >= c THEN ts - c ELSE ts - c + N
    BY <2>2, <2>3, <2>4
  <2>6. Away(t)' = r
    BY <2>1, <2>5 DEF Away
  <2>7. q * N \in Nat
    BY <2>3, Turns
  <2>8. ticks + k + 1 = ticks + 1 + q * N + r
    <3> DEFINE x == q * N
    <3>1. x \in Nat /\ k = x + r
      BY <2>3, <2>7
    <3> HIDE DEF x
    <3>2. ticks + k + 1 = ticks + 1 + x + r
      BY <2>2, <2>3, <3>1
    <3> QED
      BY <3>2 DEF x
  <2> QED
    BY <2>1, <2>6, <2>8 DEF Coming, q
<1> QED
  BY <1>3, <1>5, <1>6, <1>7 DEF ClockInv

\* del_timer.
LEMMA DelStep ==
    ASSUME IInv, NEW t \in Timers, DelHead(t) \/ DelMiddle(t)
    PROVE  LinkInv' /\ ClockInv'
<1>1. /\ TypeOK /\ FiniteInv /\ LinkInv /\ ClockInv
      /\ pc = "idle" /\ pc' = pc /\ t \in alloc /\ alloc' = alloc \ {t}
      /\ UNCHANGED <<due, rotation, time_slot, cur_slot, ticks>>
      /\ time_slot[t] \in Slots
  BY DEF IInv, DelHead, DelMiddle, TypeOK
<1>2. ClockInv'
  BY <1>1, ClockSame
<1>3. PICK ah \in Orders : Linked(ah)
  BY <1>1 DEF LinkInv
<1>4. CASE DelHead(t)
  <2> DEFINE s == time_slot[t]
             n == next[t]
  <2>1. /\ t = slots[s] /\ t # NULL /\ s \in Slots
        /\ slots' = [slots EXCEPT ![s] = n]
        /\ prev' = Set(prev, n, NULL) /\ next' = next
    BY <1>1, <1>4 DEF DelHead, UnlinkHead
  <2>2. /\ \A u \in Timers : u # n => prev'[u] = prev[u]
        /\ n # NULL => prev'[n] = NULL
    BY <1>1, <2>1 DEF Set, TypeOK
  <2>3. HeadGoes(s, t, n)
    BY <1>1, <2>1, <2>2 DEF HeadGoes
  <2> HIDE DEF s, n
  <2>4. \E b \in Orders : Linked(b)'
    BY <1>1, <1>3, <2>1, <2>3, HeadUnlinked
  <2> QED
    BY <1>2, <2>4 DEF LinkInv
<1>5. CASE DelMiddle(t)
  <2>1. t # slots[time_slot[t]] /\ UnlinkMiddle(t)
    BY <1>5 DEF DelMiddle
  <2>2. \E b \in Orders : Linked(b)'
    BY <1>1, <1>3, <2>1, MiddleUnlinked
  <2> QED
    BY <1>2, <2>2 DEF LinkInv
<1> QED
  BY <1>4, <1>5

\* tick begins.
LEMMA TickStartStep ==
    ASSUME IInv, TickStart
    PROVE  LinkInv' /\ ClockInv'
<1>1. /\ TypeOK /\ FiniteInv /\ LinkInv /\ ClockInv
      /\ pc = "idle" /\ pc' = "tick" /\ tmp' = slots[cur_slot]
      /\ UNCHANGED <<slots, prev, next, alloc, time_slot, cur_slot, rotation,
                     ticks, due>>
  BY DEF IInv, TickStart, links
<1>2. LinkInv'
  BY <1>1, LinkSame
<1>0. PICK D : D = Members(cur_slot)
  OBVIOUS
<1>3. PICK ah \in Orders : Linked(ah)
  BY <1>1 DEF LinkInv
<1>4. Walk(D)'
  <2>1. pc # "destroy"
    BY <1>1
  <2> QED
    BY <1>0, <1>1, <1>3, <2>1, WalkBegins
<1>5. D \in SUBSET Timers
  BY <1>0, <1>1 DEF Members, TypeOK
<1>6. \A t \in alloc : Coming(t)'
  BY <1>1, Unmoved DEF ClockInv
<1>7. \A t \in alloc' : IF time_slot'[t] # cur_slot' \/ t \in D
                        THEN Coming(t)' ELSE Passed(t)'
  BY <1>0, <1>1, <1>6 DEF Members
<1>8. \E d \in SUBSET Timers :
         /\ Walk(d)'
         /\ \A t \in alloc' : IF time_slot'[t] # cur_slot' \/ t \in d
                              THEN Coming(t)' ELSE Passed(t)'
  BY <1>4, <1>5, <1>7
<1> QED
  BY <1>1, <1>2, <1>8 DEF ClockInv

\* What tick knows in each iteration.
LEMMA InTick ==
    ASSUME IInv, pc = "tick"
    PROVE  /\ TypeOK /\ FiniteInv
           /\ \E ah \in Orders : Linked(ah)
           /\ \E todo \in SUBSET Timers :
                 /\ Walk(todo)
                 /\ \A t \in alloc : IF time_slot[t] # cur_slot \/ t \in todo
                                     THEN Coming(t) ELSE Passed(t)
BY DEF IInv, LinkInv, ClockInv

\* An iteration of tick that lets a timer wait.
LEMMA TickTurnStep ==
    ASSUME IInv, TickTurn
    PROVE  LinkInv' /\ ClockInv'
<1>1. PICK m : m = tmp
  OBVIOUS
<1>2. /\ pc = "tick" /\ m # NULL /\ rotation[m] > 0
      /\ rotation' = [rotation EXCEPT ![m] = rotation[m] - 1] /\ tmp' = next[m]
      /\ UNCHANGED <<slots, prev, next, cur_slot, time_slot, alloc, pc, ticks, due>>
  BY <1>1 DEF TickTurn, Waits, links
<1>3. TypeOK /\ FiniteInv /\ LinkInv /\ LinkInv'
  BY <1>2, LinkSame DEF IInv
<1>4. PICK ah \in Orders : Linked(ah)
  BY <1>2, InTick
<1>5. PICK todo \in SUBSET Timers :
         /\ Walk(todo)
         /\ \A t \in alloc : IF time_slot[t] # cur_slot \/ t \in todo
                             THEN Coming(t) ELSE Passed(t)
  BY <1>2, InTick
<1>6. PICK D : D = todo \ {m}
  OBVIOUS
<1>7. /\ m \in todo /\ m \in alloc /\ time_slot[m] = cur_slot /\ m \in Timers
      /\ prev[m] \notin todo /\ todo \subseteq Members(cur_slot)
      /\ next[m] # NULL => prev[next[m]] = m
  BY <1>1, <1>2, <1>3, <1>4, <1>5 DEF Walk, Members, Linked, NextInv
<1>8. Walk(D)'
  <2>1. D \subseteq Members(cur_slot)'
    BY <1>2, <1>6, <1>7 DEF Members
  <2>2. /\ \A u \in D : next'[u] = next[u] /\ (u # next[m] => prev'[u] = prev[u])
        /\ next[m] # NULL => prev'[next[m]] \notin D
    BY <1>2, <1>6, <1>7
  <2> QED
    BY <1>1, <1>2, <1>3, <1>4, <1>5, <1>6, <2>1, <2>2, WalkGoesOn
<1>9. Passed(m)'
  <2>1. Coming(m) /\ Away(m) = 0
    BY <1>3, <1>5, <1>7, AwayType
  <2>2. rotation[m] \in Nat /\ ticks \in Nat
    BY <1>3, <1>7 DEF TypeOK
  <2> DEFINE x == rotation[m] * N
             y == (rotation[m] - 1) * N
  <2>3. x \in Nat /\ y = x - N
    BY <1>2, <2>2, Turns
  <2>4. due[m] = ticks + 1 + x + 0
    BY <2>1 DEF Coming
  <2> HIDE DEF x, y
  <2>5. due[m] = ticks + 1 + y + N
    BY <2>2, <2>3, <2>4
  <2>6. /\ due'[m] = due[m] /\ ticks' = ticks /\ rotation'[m] = rotation[m] - 1
        /\ time_slot'[m] = cur_slot'
    BY <1>2, <1>3, <1>7 DEF TypeOK
  <2> QED
    BY <2>5, <2>6 DEF Passed, y
<1>10. ASSUME NEW t \in alloc, t # m
       PROVE  IF time_slot[t] # cur_slot \/ t \in D THEN Coming(t)' ELSE Passed(t)'
  <2>1. t \in Timers /\ rotation'[t] = rotation[t]
    BY <1>2, <1>3, <1>10 DEF TypeOK
  <2>2. Coming(t)' = Coming(t) /\ Passed(t)' = Passed(t)
    BY <1>2, <2>1, Unmoved
  <2>3. t \in D <=> t \in todo
    BY <1>6, <1>10
  <2> QED
    BY <1>5, <2>2, <2>3
<1>11. \A t \in alloc' : IF time_slot'[t] # cur_slot' \/ t \in D
                         THEN Coming(t)' ELSE Passed(t)'
  BY <1>2, <1>6, <1>7, <1>9, <1>10
<1>12. D \in SUBSET Timers
  BY <1>6
<1> QED
  BY <1>2, <1>3, <1>8, <1>11, <1>12 DEF ClockInv

\* The timers that stay when an expired one is deleted.
LEMMA ExpireClock ==
    ASSUME IInv, Expire, pc = "tick", pc' = "tick",
           NEW ah \in Orders, Linked(ah), NEW m, m = tmp,
           \A u \in Timers : /\ u # prev[m] => next'[u] = next[u]
                             /\ u # next[m] => prev'[u] = prev[u],
           next[m] # NULL => prev'[next[m]] \in {prev[m], NULL}
    PROVE  ClockInv'
<1>1. /\ m # NULL /\ tmp' = next[m] /\ alloc' = alloc \ {m}
      /\ UNCHANGED <<cur_slot, rotation, time_slot, ticks, due>>
  BY DEF Expire
<1>2. TypeOK /\ FiniteInv
  BY InTick
<1>3. PICK todo \in SUBSET Timers :
         /\ Walk(todo)
         /\ \A t \in alloc : IF time_slot[t] # cur_slot \/ t \in todo
                             THEN Coming(t) ELSE Passed(t)
  BY InTick
<1>4. PICK D : D = todo \ {m}
  OBVIOUS
<1>5. /\ m \in todo /\ prev[m] \notin todo /\ NULL \notin todo
      /\ \A t \in todo : t \in alloc /\ time_slot[t] = cur_slot
  BY <1>1, <1>3 DEF Walk, Members
<1>6. Walk(D)'
  <2>1. D \subseteq Members(cur_slot)'
    BY <1>1, <1>4, <1>5 DEF Members
  <2>2. /\ \A u \in D : next'[u] = next[u] /\ (u # next[m] => prev'[u] = prev[u])
        /\ next[m] # NULL => prev'[next[m]] \notin D
    BY <1>3, <1>4, <1>5
  <2> QED
    BY <1>1, <1>2, <1>3, <1>4, <2>1, <2>2, WalkGoesOn
<1>7. \A t \in alloc' : IF time_slot'[t] # cur_slot' \/ t \in D
                        THEN Coming(t)' ELSE Passed(t)'
  <2> SUFFICES ASSUME NEW t \in alloc, t # m
               PROVE  IF time_slot[t] # cur_slot \/ t \in D
                      THEN Coming(t)' ELSE Passed(t)'
    BY <1>1
  <2>1. Coming(t)' = Coming(t) /\ Passed(t)' = Passed(t)
    BY <1>1, Unmoved
  <2> QED
    BY <1>3, <1>4, <2>1
<1>8. D \in SUBSET Timers
  BY <1>4
<1> QED
  BY <1>6, <1>7, <1>8 DEF ClockInv

\* An iteration of tick in which a timer fires, at the head of its slot or
\* behind it.
LEMMA TickFireStep ==
    ASSUME IInv, TickHead \/ TickMiddle
    PROVE  LinkInv' /\ ClockInv'
<1>1. PICK m : m = tmp
  OBVIOUS
<1>2. /\ Expire /\ pc = "tick" /\ pc' = pc /\ m # NULL
      /\ alloc' = alloc \ {m} /\ UNCHANGED <<time_slot, cur_slot>>
  BY <1>1 DEF TickHead, TickMiddle, Expire
<1>3. TypeOK /\ FiniteInv
  BY <1>2, InTick
<1>4. PICK ah \in Orders : Linked(ah)
  BY <1>2, InTick
<1>5. m \in alloc /\ m \in Timers /\ time_slot[m] = cur_slot /\ cur_slot \in Slots
  BY <1>1, <1>2, <1>3, InTick DEF Walk, Members, TypeOK
<1>6. CASE TickHead
  <2> DEFINE n == next[m]
  <2>1. /\ m = slots[cur_slot]
        /\ slots' = [slots EXCEPT ![cur_slot] = n]
        /\ prev' = Set(prev, n, NULL) /\ next' = next
    BY <1>1, <1>6 DEF TickHead, UnlinkHead
  <2>2. /\ \A u \in Timers : u # n => prev'[u] = prev[u]
        /\ n # NULL => prev'[n] = NULL
    BY <1>3, <1>5, <2>1 DEF Set, TypeOK
  <2>3. HeadGoes(cur_slot, m, n)
    BY <1>2, <2>1, <2>2 DEF HeadGoes
  <2>4. \E b \in Orders : Linked(b)'
    <3> HIDE DEF n
    <3> QED
      BY <1>3, <1>4, <1>5, <2>3, HeadUnlinked
  <2>5. ClockInv'
    BY <1>1, <1>2, <1>4, <2>1, <2>2, ExpireClock
  <2> QED
    BY <2>4, <2>5 DEF LinkInv
<1>7. CASE TickMiddle
  <2>1. m # slots[time_slot[m]] /\ UnlinkMiddle(m)
    BY <1>1, <1>5, <1>7 DEF TickMiddle
  <2>2. \E b \in Orders : Linked(b)'
    BY <1>2, <1>3, <1>4, <1>5, <2>1, MiddleUnlinked
  <2>3. /\ \A u \in Timers : /\ u # prev[m] => next'[u] = next[u]
                             /\ u # next[m] => prev'[u] = prev[u]
        /\ next[m] # NULL => prev'[next[m]] \in {prev[m], NULL}
    BY <1>3, <1>5, <2>1 DEF UnlinkMiddle, Set, TypeOK
  <2>4. ClockInv'
    BY <1>1, <1>2, <1>4, <2>3, ExpireClock
  <2> QED
    BY <2>2, <2>4 DEF LinkInv
<1> QED
  BY <1>6, <1>7

\* tick returns: the hand goes on, and everybody is one slot nearer.
LEMMA TickEndStep ==
    ASSUME IInv, TickEnd
    PROVE  LinkInv' /\ ClockInv'
<1>1. /\ pc = "tick" /\ tmp = NULL /\ cur_slot' = (cur_slot + 1) % N
      /\ ticks' = ticks + 1 /\ pc' = "idle"
      /\ UNCHANGED <<slots, prev, next, rotation, time_slot, alloc, due>>
  BY DEF TickEnd, links
<1>2. TypeOK /\ FiniteInv /\ LinkInv /\ LinkInv'
  BY <1>1, LinkSame DEF IInv
<1>3. \A t \in alloc : IF time_slot[t] # cur_slot THEN Coming(t) ELSE Passed(t)
  BY <1>1, InTick DEF Walk
<1>4. ASSUME NEW t \in alloc PROVE Coming(t)'
  <2> DEFINE c == cur_slot
             d == cur_slot'
             s == time_slot[t]
             x == rotation[t] * N
  <2>1. t \in Timers /\ c \in 0 .. N - 1 /\ s \in 0 .. N - 1 /\ ticks \in Nat
    BY <1>2, <1>4 DEF TypeOK, Slots
  <2>2. rotation[t] \in Nat /\ x \in Nat
    BY <1>2, <2>1, Turns DEF TypeOK
  <2>3. d = IF c + 1 < N THEN c + 1 ELSE c + 1 - N
    BY <1>1, <2>1
  <2>4. Away(t)' = IF s >= d THEN s - d ELSE s - d + N
    BY <1>1 DEF Away
  <2>5. s = c => due[t] = ticks + 1 + x + N
    BY <1>3, <1>4 DEF Passed
  <2>6. s # c => due[t] = ticks + 1 + x + (IF s >= c THEN s - c ELSE s - c + N)
    BY <1>3, <1>4 DEF Coming, Away
  <2>7. /\ due'[t] = due[t] /\ rotation'[t] * N = x /\ ticks' = ticks + 1
    BY <1>1
  <2> HIDE DEF c, d, s, x
  <2>8. due[t] = ticks + 1 + 1 + x + (IF s >= d THEN s - d ELSE s - d + N)
    BY <2>1, <2>2, <2>3, <2>5, <2>6
  <2> QED
    BY <2>4, <2>7, <2>8 DEF Coming
<1> QED
  BY <1>1, <1>2, <1>4 DEF ClockInv

\* The destructor.
LEMMA DestroyStepStep ==
    ASSUME IInv, NEW s \in Slots, DestroyStep(s)
    PROVE  LinkInv' /\ ClockInv'
<1> DEFINE t == slots[s]
           n == next[t]
<1>1. /\ pc = "destroy" /\ pc' = pc /\ t # NULL
      /\ slots' = [slots EXCEPT ![s] = n] /\ alloc' = alloc \ {t}
      /\ UNCHANGED <<prev, next, time_slot>>
  BY DEF DestroyStep
<1>2. TypeOK
  BY DEF IInv
<1>3. PICK ah \in Orders : Linked(ah)
  BY <1>1 DEF IInv, LinkInv
<1>4. HeadGoes(s, t, n)
  BY <1>1 DEF HeadGoes
<1> HIDE DEF t, n
<1>5. \E b \in Orders : Linked(b)'
  BY <1>2, <1>3, <1>4, HeadUnlinked
<1> QED
  BY <1>1, <1>5 DEF LinkInv, ClockInv

LEMMA ClockOver ==
    ASSUME pc' # "idle", pc' # "tick"
    PROVE  ClockInv'
BY DEF ClockInv

LEMMA InvStep == IInv /\ [Next]_vars => IInv'
<1> SUFFICES ASSUME IInv, [Next]_vars PROVE IInv'
  OBVIOUS
<1>1. TypeOK' /\ FiniteInv'
  BY TypeStep, FiniteStep DEF IInv
<1>2. ASSUME NEW t \in Timers, NEW timeout \in Timeouts, AddTimer(t, timeout)
      PROVE  LinkInv' /\ ClockInv'
  BY <1>2, AddStep
<1>3. ASSUME NEW t \in Timers, DelHead(t) \/ DelMiddle(t)
      PROVE  LinkInv' /\ ClockInv'
  BY <1>3, DelStep
<1>4. CASE DestroyStart \/ DestroyEnd
  <2>1. /\ UNCHANGED <<slots, prev, next, alloc, time_slot>>
        /\ pc \in {"idle", "destroy"} /\ pc' \in {"destroy", "gone"}
    BY <1>4 DEF DestroyStart, DestroyEnd, links
  <2>2. CASE DestroyStart
    <3>1. pc = "idle" /\ pc' = "destroy"
      BY <2>2 DEF DestroyStart
    <3>2. LinkInv /\ LinkInv'
      BY <2>1, <3>1, LinkSame DEF IInv
    <3> QED
      BY <1>1, <3>1, <3>2, ClockOver DEF IInv
  <2>3. CASE DestroyEnd
    <3>1. LinkInv /\ \A s \in Slots : slots[s] = NULL
      BY <2>3 DEF IInv, DestroyEnd
    <3>2. PICK ah \in Orders : Linked(ah)
      BY <2>1, <3>1 DEF LinkInv
    <3>3. Linked(ah)'
      BY <2>1, <3>1, <3>2 DEF Linked, OrderInv, HeadInv, NextInv, PrevInv, Members
    <3>4. pc' = "gone"
      BY <2>3 DEF DestroyEnd
    <3>5. LinkInv'
      BY <3>3 DEF LinkInv
    <3> QED
      BY <1>1, <3>4, <3>5, ClockOver DEF IInv
  <2> QED
    BY <1>4, <2>2, <2>3
<1>5. CASE TickFrees
  <2>1. pc' = "undefined"
    BY <1>5 DEF TickFrees
  <2> QED
    BY <1>1, <2>1, ClockOver DEF IInv, LinkInv
<1>6. ASSUME NEW s \in Slots, DestroyStep(s) PROVE LinkInv' /\ ClockInv'
  BY <1>6, DestroyStepStep
<1>7. CASE UNCHANGED vars
  <2>1. LinkInv'
    BY <1>7, LinkSame DEF vars, IInv
  <2>2. ClockInv'
    <3>1. \A t : Coming(t)' = Coming(t) /\ Passed(t)' = Passed(t)
      BY <1>7 DEF vars, Coming, Passed, Away
    <3>2. \A d : Walk(d)' = Walk(d)
      BY <1>7 DEF vars, Walk, Members
    <3>3. UNCHANGED <<pc, alloc, time_slot, cur_slot>>
      BY <1>7 DEF vars
    <3>4. CASE pc = "idle"
      BY <3>1, <3>3, <3>4 DEF IInv, ClockInv
    <3>5. CASE pc = "tick"
      <4>1. PICK todo \in SUBSET Timers :
               /\ Walk(todo)
               /\ \A t \in alloc : IF time_slot[t] # cur_slot \/ t \in todo
                                   THEN Coming(t) ELSE Passed(t)
        BY <3>5, InTick
      <4> QED
        BY <3>1, <3>2, <3>3, <3>5, <4>1 DEF ClockInv
    <3> QED
      BY <3>3, <3>4, <3>5, ClockOver
  <2> QED
    BY <1>1, <2>1, <2>2 DEF IInv
<1> QED
  BY <1>1, <1>2, <1>3, <1>4, <1>5, <1>6, <1>7, TickStartStep, TickTurnStep,
     TickFireStep, TickEndStep DEF IInv, Next, Loop

LEMMA Invariant == Spec => []IInv
BY InvInit, InvStep, PTL DEF Spec

-----------------------------------------------------------------------------
(* The theorems.                                                           *)

\* Type correctness of TimeWheel.
THEOREM TypeCorrect == Spec => []TypeOK
<1>1. IInv => TypeOK
  BY DEF IInv
<1> QED
  BY <1>1, Invariant, PTL

\* Every slot's list holds exactly the live timers that name the slot, with
\* the right neighbours, through every add_timer, del_timer, tick and the
\* destructor (until the statement of line 200 has freed a timer).
THEOREM SlotsStayExact == Spec => []SlotsExact
<1>1. IInv => SlotsExact
  <2> SUFFICES ASSUME IInv, pc # "undefined" PROVE SlotsExact
    BY DEF SlotsExact
  <2>1. TypeOK /\ FiniteInv
    BY DEF IInv
  <2>2. PICK ah \in Orders : Linked(ah)
    BY DEF IInv, LinkInv
  <2>3. ASSUME NEW s \in Slots PROVE Reached(slots[s]) = Members(s)
    <3>1. /\ slots[s] # NULL => slots[s] \in Members(s)
          /\ Followed(Members(s)) /\ Members(s) \subseteq Timers
      BY <2>1, <2>2 DEF Linked, HeadInv, NextInv, Members, Followed, TypeOK
    <3>2. Reached(slots[s]) \subseteq Members(s)
      BY <3>1 DEF Reached
    <3>3. ASSUME NEW S \in SUBSET Timers, slots[s] # NULL => slots[s] \in S,
                 Followed(S)
          PROVE  Members(s) \subseteq S
      BY <2>1, <2>2, <3>3, SlotReached
    <3>4. Members(s) \subseteq Reached(slots[s])
      BY <3>1, <3>3 DEF Reached
    <3> QED
      BY <3>2, <3>4
  <2>4. ASSUME pc # "destroy", NEW t \in alloc
        PROVE  /\ next[t] # NULL => prev[next[t]] = t
               /\ prev[t] = NULL <=> slots[time_slot[t]] = t
    <3>1. t \in Timers /\ time_slot[t] \in Slots /\ alloc \subseteq Timers
      BY <2>1 DEF TypeOK
    <3>2. t # slots[time_slot[t]] => prev[t] \in alloc
      BY <2>2 DEF Linked, PrevInv, Members
    <3>3. t = slots[time_slot[t]] => prev[t] = NULL
      BY <2>2, <2>4, <3>1 DEF Linked, HeadInv
    <3>4. next[t] # NULL => prev[next[t]] = t
      BY <2>2 DEF Linked, NextInv
    <3> QED
      BY <3>1, <3>2, <3>3, <3>4
  <2> QED
    BY <2>3, <2>4 DEF SlotsExact, Members
<1> QED
  BY <1>1, Invariant, PTL

\* When tick has returned, no timer that was to fire by then is left.
THEOREM TickHandlesAll == Spec => []TickComplete
<1>1. IInv => TickComplete
  <2> SUFFICES ASSUME IInv, pc = "idle", NEW t \in alloc PROVE due[t] > ticks
    BY DEF TickComplete
  <2>1. TypeOK /\ t \in Timers /\ Coming(t) /\ ticks \in Nat /\ due[t] \in Nat
    BY DEF IInv, ClockInv, TypeOK
  <2> QED
    BY <2>1, DueLater
<1> QED
  BY <1>1, Invariant, PTL

\* In tick, the timer at hand that need not wait is the first that is due.
LEMMA FiresInTime ==
    ASSUME IInv, Expire, pc = "tick", pc' \in {"tick", "undefined"}
    PROVE  Queue!Fire(tmp)
<1>1. PICK todo \in SUBSET Timers :
         /\ Walk(todo)
         /\ \A t \in alloc : IF time_slot[t] # cur_slot \/ t \in todo
                             THEN Coming(t) ELSE Passed(t)
  BY InTick
<1>2. /\ TypeOK /\ tmp # NULL /\ ~(rotation[tmp] > 0)
      /\ alloc' = alloc \ {tmp} /\ fired' = fired \cup {tmp}
      /\ UNCHANGED <<ticks, due>>
  BY DEF IInv, Expire, Waits
<1>3. tmp \in alloc /\ tmp \in Timers /\ time_slot[tmp] = cur_slot /\ Coming(tmp)
  BY <1>1, <1>2 DEF Walk, Members, TypeOK
<1>4. rotation[tmp] = 0
  BY <1>2, <1>3 DEF TypeOK
<1>5. due[tmp] = ticks + 1
  BY <1>2, <1>3, <1>4, DueLater
<1>6. \A u \in alloc : due[u] >= ticks + 1
  BY <1>1, <1>2, DueLater DEF TypeOK
<1>7. ticks \in Nat
  BY <1>2 DEF TypeOK
<1>8. \A u \in alloc : due[tmp] <= due[u]
  BY <1>5, <1>6
<1>9. due[tmp] <= ticks + 1
  BY <1>5, <1>7
<1> QED
  BY <1>2, <1>3, <1>8, <1>9 DEF Queue!Fire

\* The wheel implements the queue that fires pending timers in the order of
\* their deadlines and never early, with the calls of tick as its clock.
THEOREM WheelImplementsQueue == Spec => ImplementsQueue
<1> DEFINE clk == IF pc \in {"tick", "undefined"} THEN ticks + 1 ELSE ticks
<1>1. Init => Queue!Init
  BY DEF Init, Queue!Init
<1>2. ASSUME IInv, [Next]_vars
      PROVE  [Queue!Next]_<<alloc, due, fired, clk>>
  <2> USE DEF Queue!Next
  <2>0. TypeOK
    BY <1>2 DEF IInv
  <2>1. ASSUME NEW t \in Timers, NEW timeout \in Timeouts, AddTimer(t, timeout)
        PROVE  Queue!Start(t)
    <3> DEFINE k == TicksOf(timeout)
    <3>1. k \in Nat /\ ticks \in Nat /\ ticks + k + 1 \in Nat
      BY <2>0, TicksType DEF TypeOK
    <3>2. /\ t \notin alloc /\ alloc' = alloc \cup {t} /\ fired' = fired \ {t}
          /\ due' = [due EXCEPT ![t] = ticks + k + 1]
          /\ UNCHANGED <<pc, ticks>>
      BY <2>1 DEF AddTimer
    <3> HIDE DEF k
    <3>3. due'[t] = ticks + k + 1
      BY <2>0, <3>2 DEF TypeOK
    <3> QED
      BY <3>1, <3>2, <3>3 DEF Queue!Start, Queue!NewDeadline
  <2>2. ASSUME NEW t \in Timers, DelHead(t) \/ DelMiddle(t)
        PROVE  Queue!Cancel(t)
    BY <2>2 DEF DelHead, DelMiddle, Queue!Cancel
  <2>3. ASSUME NEW s \in Slots, DestroyStep(s)
        PROVE  slots[s] \in Timers /\ Queue!Cancel(slots[s])
    <3>1. pc = "destroy" /\ slots[s] # NULL
      BY <2>3 DEF DestroyStep
    <3>2. slots[s] \in alloc /\ slots[s] \in Timers
      BY <1>2, <2>0, <3>1 DEF IInv, LinkInv, Linked, HeadInv, Members, TypeOK
    <3> QED
      BY <2>3, <3>2 DEF DestroyStep, Queue!Cancel
  <2>4. CASE TickHead \/ TickMiddle \/ TickFrees
    <3>1. Expire /\ pc = "tick" /\ pc' \in {"tick", "undefined"} /\ tmp # NULL
      BY <2>4 DEF TickHead, TickMiddle, TickFrees, Expire
    <3>2. tmp \in Timers
      BY <2>0, <3>1 DEF TypeOK
    <3> QED
      BY <1>2, <3>1, <3>2, FiresInTime
  <2>5. CASE TickStart
    <3>1. pc = "idle" /\ pc' = "tick" /\ UNCHANGED <<alloc, due, fired, ticks>>
      BY <2>5 DEF TickStart
    <3> QED
      BY <3>1 DEF Queue!TimePasses
  <2>6. CASE TickEnd
    <3>1. /\ pc = "tick" /\ pc' = "idle" /\ ticks' = ticks + 1
          /\ UNCHANGED <<alloc, due, fired>>
      BY <2>6 DEF TickEnd
    <3> QED
      BY <3>1
  <2>7. CASE TickTurn \/ DestroyStart \/ DestroyEnd \/ UNCHANGED vars
    <3>1. UNCHANGED <<alloc, due, fired, ticks>>
      BY <2>7 DEF TickTurn, DestroyStart, DestroyEnd, vars
    <3>2. \/ pc' = pc
          \/ pc \notin {"tick", "undefined"} /\ pc' \notin {"tick", "undefined"}
      BY <2>7 DEF TickTurn, DestroyStart, DestroyEnd, vars
    <3> QED
      BY <3>1, <3>2
  <2> QED
    BY <1>2, <2>1, <2>2, <2>3, <2>4, <2>5, <2>6, <2>7 DEF Next, Loop
<1> QED
  BY <1>1, <1>2, Invariant, PTL
     DEF Spec, ImplementsQueue, Queue!Spec, Queue!queueVars
=============================================================================
