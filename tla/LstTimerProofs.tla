---------------------------- MODULE LstTimerProofs ----------------------------
(***************************************************************************)
(* Proofs about LstTimer, for every set of timers, every choice of delays  *)
(* and every bound of the clock.                                           *)
(*                                                                         *)
(* That the head of a linked list is its minimum is no local property of   *)
(* the links.  The history variable ahead names the order of the list; the *)
(* invariant says that it is a total order, that next and prev are its     *)
(* successor and predecessor, and that expire grows along it.  What one    *)
(* pointer operation does to such a list is a lemma about constants, used  *)
(* for every member function that performs it.                             *)
(*                                                                         *)
(* At the end of the module: proofs about NonactiveConnect.                *)
(***************************************************************************)
EXTENDS LstTimer, Sequences, FiniteSetTheorems, WellFoundedInduction, TLAPS

USE TimersAssumption, TimeAssumption

-----------------------------------------------------------------------------
(* A doubly linked list over the set L in the order ah.                    *)

\* ah is a strict total order: ah[t] is the set of elements before t.
Order(L, ah) ==
    /\ \A t \in L : ah[t] \subseteq L /\ t \notin ah[t]
    /\ \A t, u \in L : t = u \/ t \in ah[u] \/ u \in ah[t]
    /\ \A t, u \in L : u \in ah[t] => ah[u] \subseteq ah[t]

Sorted(L, ah, ex) == \A t \in L : \A u \in ah[t] : ex[u] <= ex[t]

Forward(L, nx, ah) ==
    \A t \in L : IF nx[t] = NULL THEN \A u \in L : t \notin ah[u]
                 ELSE nx[t] \in L /\ ah[nx[t]] = ah[t] \cup {t}

Backward(L, hd, pv, ah) ==
    \A t \in L : t # hd => pv[t] \in L /\ ah[t] = ah[pv[t]] \cup {pv[t]}

Ends(L, hd, tl, nx, ah) ==
    /\ L = {} => hd = NULL
    /\ L # {} => hd \in L /\ ah[hd] = {} /\ tl \in L /\ nx[tl] = NULL

List(L, hd, tl, pv, nx, ex, ah) ==
    /\ Order(L, ah) /\ Sorted(L, ah, ex)
    /\ Forward(L, nx, ah) /\ Backward(L, hd, pv, ah)
    /\ Ends(L, hd, tl, nx, ah)

Links == [Timers -> Timers \cup {NULL}]
Orders == [Timers -> SUBSET Timers]

\* The orders of the model, with the old order as a parameter.
Behind(ah, t, p) ==
    [u \in Timers |-> IF u = t THEN ah[p] \cup {p}
                      ELSE IF p \in ah[u] THEN ah[u] \cup {t} ELSE ah[u]]
Without(ah, t) == [u \in Timers |-> ah[u] \ {t}]

\* Whatever lies behind p lies behind p's successor, or is it.
LEMMA Successor ==
    ASSUME NEW L \in SUBSET Timers, NEW ah \in Orders, NEW nx \in Links,
           Order(L, ah), Forward(L, nx, ah),
           NEW p \in L, nx[p] # NULL, NEW v \in L
    PROVE  p \in ah[v] <=> (v = nx[p] \/ nx[p] \in ah[v])
<1>1. nx[p] \in L /\ ah[nx[p]] = ah[p] \cup {p}
  BY DEF Forward
<1>2. ASSUME p \in ah[v] PROVE v = nx[p] \/ nx[p] \in ah[v]
  BY <1>1, <1>2 DEF Order
<1>3. ASSUME v = nx[p] \/ nx[p] \in ah[v] PROVE p \in ah[v]
  BY <1>1, <1>3 DEF Order
<1> QED
  BY <1>2, <1>3

\* Two elements do not have the same successor.
LEMMA SuccessorUnique ==
    ASSUME NEW L \in SUBSET Timers, NEW ah \in Orders,
           Order(L, ah), NEW p \in L, NEW u \in L,
           ah[p] \cup {p} = ah[u] \cup {u}
    PROVE  p = u
BY DEF Order

\* If p is last of a part of the list and not after t, the part is not after t.
LEMMA NotAfter ==
    ASSUME NEW ex \in [Timers -> Nat], NEW S \in SUBSET Timers,
           NEW p \in Timers, NEW t \in Timers,
           \A u \in S : ex[u] <= ex[p], ex[p] <= ex[t]
    PROVE  \A u \in S \cup {p} : ex[u] <= ex[t]
<1> SUFFICES ASSUME NEW u \in S PROVE ex[u] <= ex[t]
  OBVIOUS
<1>1. ex[u] \in Nat /\ ex[p] \in Nat /\ ex[t] \in Nat
  OBVIOUS
<1>2. ex[u] <= ex[p]
  OBVIOUS
<1> QED
  BY <1>1, <1>2

\* If n is first of a part of the list and t is not after n, t is not after the
\* part.
LEMMA NotBefore ==
    ASSUME NEW ex \in [Timers -> Nat], NEW S \in SUBSET Timers,
           NEW n \in Timers, NEW t \in Timers,
           \A u \in S : ex[n] <= ex[u], ex[t] <= ex[n]
    PROVE  \A u \in S : ex[t] <= ex[u]
<1> SUFFICES ASSUME NEW u \in S PROVE ex[t] <= ex[u]
  OBVIOUS
<1>1. ex[u] \in Nat /\ ex[n] \in Nat /\ ex[t] \in Nat
  OBVIOUS
<1>2. ex[n] <= ex[u]
  OBVIOUS
<1> QED
  BY <1>1, <1>2

\* Inserting t behind p gives a total order.
LEMMA InsertOrder ==
    ASSUME NEW L \in SUBSET Timers, NEW ah \in Orders, Order(L, ah),
           NEW t \in Timers \ L, NEW p \in L
    PROVE  /\ Order(L \cup {t}, Behind(ah, t, p))
           /\ Behind(ah, t, p) \in Orders
<1> DEFINE b == Behind(ah, t, p)
           M == L \cup {t}
<1>1. b[t] = ah[p] \cup {p}
  BY DEF Behind
<1>2. \A u \in L : b[u] = IF p \in ah[u] THEN ah[u] \cup {t} ELSE ah[u]
  BY DEF Behind
<1>3. \A u \in L : ah[u] \subseteq L /\ u \notin ah[u] /\ t \notin ah[u]
  BY DEF Order
<1> HIDE DEF b
<1>4. \A u \in M : b[u] \subseteq M /\ u \notin b[u]
  <2>1. b[t] \subseteq M /\ t \notin b[t]
    BY <1>1, <1>3
  <2>2. \A u \in L : b[u] \subseteq M /\ u \notin b[u]
    BY <1>2, <1>3
  <2> QED
    BY <2>1, <2>2
<1>5. \A u, v \in M : u = v \/ u \in b[v] \/ v \in b[u]
  <2>1. \A v \in L : t \in b[v] \/ v \in b[t]
    BY <1>1, <1>2 DEF Order
  <2>2. \A u, v \in L : u = v \/ u \in b[v] \/ v \in b[u]
    <3>1. \A u, v \in L : u = v \/ u \in ah[v] \/ v \in ah[u]
      BY DEF Order
    <3>2. \A v \in L : ah[v] \subseteq b[v]
      BY <1>2
    <3> QED
      BY <3>1, <3>2
  <2> QED
    BY <2>1, <2>2
<1>6. \A u, v \in M : v \in b[u] => b[v] \subseteq b[u]
  <2> SUFFICES ASSUME NEW u \in M, NEW v \in M, v \in b[u], NEW x \in b[v]
               PROVE  x \in b[u]
    OBVIOUS
  <2>1. CASE u = t
    <3>1. v \in L /\ (v = p \/ v \in ah[p])
      BY <1>1, <1>3, <2>1
    <3>2. v # p => ah[v] \subseteq ah[p]
      BY <3>1 DEF Order
    <3>3. p \notin ah[v]
      BY <3>1, <3>2, <1>3
    <3>4. b[v] = ah[v]
      BY <1>2, <3>1, <3>3
    <3> QED
      BY <1>1, <2>1, <3>1, <3>2, <3>4
  <2>2. CASE u # t /\ v = t
    <3>1. p \in ah[u] /\ u \in L
      BY <1>2, <1>3, <2>2
    <3>2. ah[p] \subseteq ah[u]
      BY <3>1 DEF Order
    <3>3. b[v] = ah[p] \cup {p} /\ b[u] = ah[u] \cup {t}
      BY <1>1, <1>2, <2>2, <3>1
    <3> QED
      BY <3>1, <3>2, <3>3
  <2>3. CASE u # t /\ v # t
    <3>1. u \in L /\ v \in L /\ v \in ah[u]
      BY <1>2, <2>3
    <3>2. ah[v] \subseteq ah[u]
      BY <3>1 DEF Order
    <3> QED
      BY <1>2, <3>1, <3>2
  <2> QED
    BY <2>1, <2>2, <2>3
<1>7. b \in Orders
  BY DEF b, Behind, Orders
<1> QED
  BY <1>4, <1>5, <1>6, <1>7 DEF Order, b

\* Taking t out leaves a total order.
LEMMA RemoveOrder ==
    ASSUME NEW L \in SUBSET Timers, NEW ah \in Orders, Order(L, ah),
           NEW t \in L
    PROVE  /\ Order(L \ {t}, Without(ah, t))
           /\ Without(ah, t) \in Orders
<1>1. \A u \in L : Without(ah, t)[u] = ah[u] \ {t}
  BY DEF Without
<1>2. Without(ah, t) \in Orders
  BY DEF Without, Orders
<1> QED
  BY <1>1, <1>2 DEF Order

-----------------------------------------------------------------------------
(* What the pointer operations do to a list.                               *)

\* Insertion between p and its successor n.
LEMMA ListInsert ==
    ASSUME NEW L \in SUBSET Timers, NEW hd, NEW tl, NEW pv \in Links,
           NEW nx \in Links, NEW ex \in [Timers -> Nat], NEW ah \in Orders,
           List(L, hd, tl, pv, nx, ex, ah),
           NEW t \in Timers \ L, NEW p \in L, NEW n, n = nx[p], n # NULL,
           ex[p] <= ex[t], ex[t] < ex[n]
    PROVE  List(L \cup {t}, hd, tl,
                [pv EXCEPT ![n] = t, ![t] = p], [nx EXCEPT ![p] = t, ![t] = n],
                ex, Behind(ah, t, p))
<1> DEFINE b == Behind(ah, t, p)
           M == L \cup {t}
           nx2 == [nx EXCEPT ![p] = t, ![t] = n]
           pv2 == [pv EXCEPT ![n] = t, ![t] = p]
<1> USE DEF List
<1>1. /\ b[t] = ah[p] \cup {p}
      /\ \A u \in L : b[u] = IF p \in ah[u] THEN ah[u] \cup {t} ELSE ah[u]
  BY DEF Behind
<1>2. /\ n \in L /\ ah[n] = ah[p] \cup {p}
      /\ \A v \in L : p \in ah[v] <=> (v = n \/ n \in ah[v])
      /\ \A u \in L : ah[u] \subseteq L /\ u \notin ah[u] /\ t \notin ah[u]
  BY Successor DEF Forward, Order
<1>3. /\ \A u \in L : nx2[u] = IF u = p THEN t ELSE nx[u]
      /\ nx2[t] = n
      /\ \A u \in L : pv2[u] = IF u = n THEN t ELSE pv[u]
      /\ pv2[t] = p
  BY <1>2 DEF Links
<1>4. t # NULL /\ hd # t /\ n # t /\ hd \in L
  BY <1>2 DEF Ends
<1> HIDE DEF b, nx2, pv2
<1>5. Order(M, b)
  BY InsertOrder DEF b
<1>6. Sorted(M, b, ex)
  <2>1. \A u \in ah[p] \cup {p} : ex[u] <= ex[t]
    <3>1. \A u \in ah[p] : ex[u] <= ex[p]
      BY DEF Sorted
    <3>2. ah[p] \in SUBSET Timers
      BY <1>2
    <3> HIDE DEF List
    <3> QED
      BY <3>1, <3>2, NotAfter
  <2>2. \A v \in L : p \in ah[v] => ex[t] <= ex[v]
    <3> DEFINE S == {v \in L : p \in ah[v]}
    <3>1. \A v \in L : n \in ah[v] => ex[n] <= ex[v]
      BY DEF Sorted
    <3> HIDE DEF List
    <3>2. ex[t] \in Nat /\ ex[n] \in Nat /\ n \in Timers
      BY <1>2
    <3>3. \A v \in S : ex[n] <= ex[v]
      BY <1>2, <3>1, <3>2
    <3>4. ex[t] <= ex[n] /\ S \in SUBSET Timers
      BY <3>2
    <3> HIDE DEF S
    <3>5. \A v \in S : ex[t] <= ex[v]
      BY <3>2, <3>3, <3>4, NotBefore
    <3> QED
      BY <3>5 DEF S
  <2> QED
    BY <1>1, <2>1, <2>2 DEF Sorted
<1>7. Forward(M, nx2, b)
  <2>1. nx2[t] \in M /\ b[nx2[t]] = b[t] \cup {t} /\ nx2[t] # NULL
    BY <1>1, <1>2, <1>3
  <2>2. nx2[p] \in M /\ b[nx2[p]] = b[p] \cup {p} /\ nx2[p] # NULL
    BY <1>1, <1>2, <1>3, <1>4
  <2>3. ASSUME NEW u \in L, u # p, nx[u] = NULL
        PROVE  nx2[u] = NULL /\ \A v \in M : u \notin b[v]
    <3>1. \A v \in L : u \notin ah[v]
      BY <2>3 DEF Forward
    <3>2. u \notin b[t]
      BY <1>1, <2>3, <3>1
    <3>3. \A v \in L : u \notin b[v]
      BY <1>1, <3>1
    <3> QED
      BY <1>3, <2>3, <3>2, <3>3
  <2>4. ASSUME NEW u \in L, u # p, nx[u] # NULL
        PROVE  nx2[u] # NULL /\ nx2[u] \in M /\ b[nx2[u]] = b[u] \cup {u}
    <3>1. nx[u] \in L /\ ah[nx[u]] = ah[u] \cup {u}
      BY <2>4 DEF Forward
    <3>2. p \in ah[nx[u]] <=> p \in ah[u]
      BY <2>4, <3>1
    <3> HIDE DEF List
    <3>3. nx2[u] = nx[u]
      BY <1>3, <2>4
    <3> QED
      BY <1>1, <2>4, <3>1, <3>2, <3>3
  <2> QED
    BY <2>1, <2>2, <2>3, <2>4 DEF Forward
<1>8. Backward(M, hd, pv2, b)
  <2>1. pv2[t] \in M /\ b[t] = b[pv2[t]] \cup {pv2[t]}
    BY <1>1, <1>2, <1>3
  <2>2. pv2[n] \in M /\ b[n] = b[pv2[n]] \cup {pv2[n]}
    BY <1>1, <1>2, <1>3
  <2>3. ASSUME NEW u \in L, u # n, u # hd
        PROVE  pv2[u] \in M /\ b[u] = b[pv2[u]] \cup {pv2[u]}
    <3>1. pv[u] \in L /\ ah[u] = ah[pv[u]] \cup {pv[u]}
      BY <2>3 DEF Backward
    <3>2. pv[u] # p
      <4>1. ASSUME pv[u] = p PROVE FALSE
        <5>1. ah[u] = ah[n]
          BY <1>2, <3>1, <4>1
        <5> QED
          BY <1>2, <2>3, <5>1 DEF Order
      <4> QED
        BY <4>1
    <3>3. p \in ah[u] <=> p \in ah[pv[u]]
      BY <3>1, <3>2
    <3> HIDE DEF List
    <3>4. pv2[u] = pv[u]
      BY <1>3, <2>3
    <3> QED
      BY <1>1, <3>1, <3>3, <3>4
  <2> QED
    BY <2>1, <2>2, <2>3 DEF Backward
<1>9. Ends(M, hd, tl, nx2, b)
  BY <1>1, <1>2, <1>3, <1>4 DEF Ends
<1> QED
  BY <1>5, <1>6, <1>7, <1>8, <1>9 DEF b, nx2, pv2

\* Insertion behind the last element.
LEMMA ListAppend ==
    ASSUME NEW L \in SUBSET Timers, NEW hd, NEW tl, NEW pv \in Links,
           NEW nx \in Links, NEW ex \in [Timers -> Nat], NEW ah \in Orders,
           List(L, hd, tl, pv, nx, ex, ah),
           NEW t \in Timers \ L, NEW p \in L, nx[p] = NULL, ex[p] <= ex[t]
    PROVE  List(L \cup {t}, hd, t,
                [pv EXCEPT ![t] = p], [nx EXCEPT ![p] = t, ![t] = NULL],
                ex, Behind(ah, t, p))
<1> DEFINE b == Behind(ah, t, p)
           M == L \cup {t}
           nx2 == [nx EXCEPT ![p] = t, ![t] = NULL]
           pv2 == [pv EXCEPT ![t] = p]
<1> USE DEF List
<1>1. \A u \in L : p \notin ah[u]
  BY DEF Forward
<1>2. \A u \in L : ah[u] \subseteq L /\ u \notin ah[u] /\ t \notin ah[u]
  BY DEF Order
<1>3. b[t] = ah[p] \cup {p} /\ \A u \in L : b[u] = ah[u]
  BY <1>1 DEF Behind
<1>4. /\ \A u \in L : nx2[u] = IF u = p THEN t ELSE nx[u]
      /\ nx2[t] = NULL
      /\ \A u \in L : pv2[u] = pv[u]
      /\ pv2[t] = p
  BY DEF Links
<1>5. t # NULL /\ hd # t /\ hd \in L
  BY DEF Ends
<1> HIDE DEF b, nx2, pv2
<1>6. Order(M, b)
  BY InsertOrder DEF b
<1>7. Sorted(M, b, ex)
  <2>1. \A u \in ah[p] : ex[u] <= ex[p]
    BY DEF Sorted
  <2>2. ah[p] \in SUBSET Timers
    BY <1>2
  <2>3. \A u \in ah[p] \cup {p} : ex[u] <= ex[t]
    <3> HIDE DEF List
    <3> QED
      BY <2>1, <2>2, NotAfter
  <2> QED
    BY <1>3, <2>3 DEF Sorted
<1>8. Forward(M, nx2, b)
  <2>1. nx2[t] = NULL /\ \A v \in M : t \notin b[v]
    BY <1>2, <1>3, <1>4
  <2>2. nx2[p] # NULL /\ nx2[p] \in M /\ b[nx2[p]] = b[p] \cup {p}
    BY <1>3, <1>4, <1>5
  <2>3. \A u \in L : u = p \/ u \in ah[p]
    BY <1>1 DEF Order
  <2>4. ASSUME NEW u \in L, u # p
        PROVE  nx2[u] # NULL /\ nx2[u] \in M /\ b[nx2[u]] = b[u] \cup {u}
    <3>1. nx[u] # NULL /\ nx[u] \in L /\ ah[nx[u]] = ah[u] \cup {u}
      BY <2>3, <2>4 DEF Forward
    <3> QED
      BY <1>3, <1>4, <2>4, <3>1
  <2>5. ASSUME NEW u \in M
        PROVE  IF nx2[u] = NULL THEN \A v \in M : u \notin b[v]
               ELSE nx2[u] \in M /\ b[nx2[u]] = b[u] \cup {u}
    <3>1. CASE u = t
      BY <2>1, <3>1
    <3>2. CASE u = p
      BY <2>2, <3>2
    <3>3. CASE u # t /\ u # p
      BY <2>4, <3>3
    <3> QED
      BY <3>1, <3>2, <3>3
  <2> QED
    BY <2>5 DEF Forward
<1>9. Backward(M, hd, pv2, b)
  BY <1>3, <1>4 DEF Backward
<1>10. Ends(M, hd, t, nx2, b)
  BY <1>3, <1>4, <1>5 DEF Ends
<1> QED
  BY <1>6, <1>7, <1>8, <1>9, <1>10 DEF b, nx2, pv2

\* The first element comes before all others, the last one after them.
LEMMA FirstLast ==
    ASSUME NEW L \in SUBSET Timers, NEW hd, NEW tl, NEW nx, NEW ah \in Orders,
           Order(L, ah), Forward(L, nx, ah), Ends(L, hd, tl, nx, ah), L # {}
    PROVE  /\ \A u \in L : u # hd => hd \in ah[u]
           /\ \A u \in L : u # tl => u \in ah[tl]
           /\ \A u \in L : nx[u] = NULL <=> u = tl
           /\ \A u \in L : tl \notin ah[u]
<1>1. \A u \in L : tl \notin ah[u]
  BY DEF Forward, Ends
<1>2. \A u \in L : u # tl => u \in ah[tl]
  BY <1>1 DEF Order, Ends
<1>3. \A u \in L : u # hd => hd \in ah[u]
  BY DEF Order, Ends
<1>4. \A u \in L : nx[u] = NULL => u = tl
  BY <1>2 DEF Forward, Ends
<1> QED
  BY <1>1, <1>2, <1>3, <1>4 DEF Ends

\* A single element is a list.
LEMMA ListFirst ==
    ASSUME NEW t \in Timers, NEW pv, NEW nx, NEW ex \in [Timers -> Nat],
           NEW ah \in Orders, nx[t] = NULL, ah[t] = {}
    PROVE  List({t}, t, t, pv, nx, ex, ah)
BY DEF List, Order, Sorted, Forward, Backward, Ends

\* Insertion before the head.
LEMMA ListPush ==
    ASSUME NEW L \in SUBSET Timers, NEW hd, NEW tl, NEW pv \in Links,
           NEW nx \in Links, NEW ex \in [Timers -> Nat], NEW ah \in Orders,
           List(L, hd, tl, pv, nx, ex, ah), L # {},
           NEW t \in Timers \ L, ex[t] <= ex[hd],
           NEW b, b = [u \in Timers |-> IF u = t THEN {} ELSE ah[u] \cup {t}]
    PROVE  List(L \cup {t}, t, tl, [pv EXCEPT ![t] = NULL, ![hd] = t],
                [nx EXCEPT ![t] = hd], ex, b)
<1> DEFINE M == L \cup {t}
           nx2 == [nx EXCEPT ![t] = hd]
           pv2 == [pv EXCEPT ![t] = NULL, ![hd] = t]
<1> USE DEF List
<1>1. b[t] = {} /\ \A u \in L : b[u] = ah[u] \cup {t}
  OBVIOUS
<1>2. \A u \in L : ah[u] \subseteq L /\ u \notin ah[u] /\ t \notin ah[u]
  BY DEF Order
<1>3. hd \in L /\ tl \in L /\ ah[hd] = {} /\ nx[tl] = NULL /\ hd # NULL /\ t # NULL
  BY DEF Ends
<1>4. /\ \A u \in L : nx2[u] = nx[u]
      /\ nx2[t] = hd
      /\ \A u \in L : pv2[u] = IF u = hd THEN t ELSE pv[u]
  BY <1>3 DEF Links
<1>5. \A u \in L : u # hd => hd \in ah[u]
  BY <1>3 DEF Order
<1> HIDE DEF nx2, pv2
<1>6. Order(M, b)
  <2>1. \A u \in M : b[u] \subseteq M /\ u \notin b[u]
    BY <1>1, <1>2
  <2>2. \A u, v \in L : u = v \/ u \in b[v] \/ v \in b[u]
    BY <1>1 DEF Order
  <2>3. \A u, v \in L : v \in b[u] => b[v] \subseteq b[u]
    BY <1>1 DEF Order
  <2>4. \A u, v \in M : u = v \/ u \in b[v] \/ v \in b[u]
    BY <1>1, <2>2
  <2>5. \A u, v \in M : v \in b[u] => b[v] \subseteq b[u]
    BY <1>1, <2>3
  <2> QED
    BY <2>1, <2>4, <2>5 DEF Order
<1>7. Sorted(M, b, ex)
  <2>1. \A u \in L : ex[hd] <= ex[u]
    <3>1. ex[hd] <= ex[hd]
      BY <1>3
    <3>2. \A u \in L : u # hd => ex[hd] <= ex[u]
      BY <1>5 DEF Sorted
    <3> QED
      BY <3>1, <3>2
  <2>2. \A u \in L : ex[t] <= ex[u]
    <3> HIDE DEF List
    <3> QED
      BY <1>3, <2>1, NotBefore
  <2> QED
    BY <1>1, <2>2 DEF Sorted
<1>8. Forward(M, nx2, b)
  <2>1. nx2[t] # NULL /\ nx2[t] \in M /\ b[nx2[t]] = b[t] \cup {t}
    BY <1>1, <1>3, <1>4
  <2>2. ASSUME NEW u \in L, nx[u] = NULL
        PROVE  nx2[u] = NULL /\ \A v \in M : u \notin b[v]
    <3>1. \A v \in L : u \notin ah[v]
      BY <2>2 DEF Forward
    <3> HIDE DEF List
    <3> QED
      BY <1>1, <1>4, <2>2, <3>1
  <2>3. ASSUME NEW u \in L, nx[u] # NULL
        PROVE  nx2[u] # NULL /\ nx2[u] \in M /\ b[nx2[u]] = b[u] \cup {u}
    <3>1. nx[u] \in L /\ ah[nx[u]] = ah[u] \cup {u}
      BY <2>3 DEF Forward
    <3> HIDE DEF List
    <3> QED
      BY <1>1, <1>4, <2>3, <3>1
  <2> HIDE DEF List
  <2> QED
    BY <2>1, <2>2, <2>3 DEF Forward
<1>9. Backward(M, t, pv2, b)
  <2>1. pv2[hd] \in M /\ b[hd] = b[pv2[hd]] \cup {pv2[hd]}
    BY <1>1, <1>3, <1>4
  <2>2. \A u \in L : u # hd => pv2[u] \in M /\ b[u] = b[pv2[u]] \cup {pv2[u]}
    BY <1>1, <1>4 DEF Backward
  <2> QED
    BY <2>1, <2>2 DEF Backward
<1>10. Ends(M, t, tl, nx2, b)
  BY <1>1, <1>3, <1>4 DEF Ends
<1> QED
  BY <1>6, <1>7, <1>8, <1>9, <1>10 DEF nx2, pv2

\* Removal of the head; the link fields of t itself and the prev of the new
\* head do not matter.
LEMMA ListRemoveHead ==
    ASSUME NEW L \in SUBSET Timers, NEW hd, NEW tl, NEW pv \in Links,
           NEW nx \in Links, NEW ex \in [Timers -> Nat], NEW ah \in Orders,
           List(L, hd, tl, pv, nx, ex, ah), L # {},
           NEW tl2, nx[hd] # NULL => tl2 = tl,
           NEW pv2, \A u \in L : u # hd /\ u # nx[hd] => pv2[u] = pv[u],
           NEW nx2, \A u \in L : u # hd => nx2[u] = nx[u]
    PROVE  List(L \ {hd}, nx[hd], tl2, pv2, nx2, ex, Without(ah, hd))
<1> DEFINE b == Without(ah, hd)
           M == L \ {hd}
           n == nx[hd]
<1> USE DEF List
<1>1. hd \in L /\ ah[hd] = {} /\ tl \in L /\ nx[tl] = NULL
  BY DEF Ends
<1>2. \A u \in L : b[u] = ah[u] \ {hd}
  BY DEF Without
<1>3. \A u \in L : u # hd => hd \in ah[u]
  BY <1>1 DEF Order
<1> HIDE DEF b
<1>4. Order(M, b)
  BY <1>1, RemoveOrder DEF b
<1>5. Sorted(M, b, ex)
  BY <1>2 DEF Sorted
<1>6. Forward(M, nx2, b)
  <2>1. ASSUME NEW u \in M, nx[u] = NULL
        PROVE  \A v \in M : u \notin b[v]
    BY <1>2, <2>1 DEF Forward
  <2>2. ASSUME NEW u \in M, nx[u] # NULL
        PROVE  nx[u] \in M /\ b[nx[u]] = b[u] \cup {u}
    <3>1. nx[u] \in L /\ ah[nx[u]] = ah[u] \cup {u}
      BY <2>2 DEF Forward
    <3> QED
      BY <1>1, <1>2, <3>1
  <2> QED
    BY <2>1, <2>2 DEF Forward
<1>7. Backward(M, n, pv2, b)
  <2> SUFFICES ASSUME NEW u \in M, u # n
               PROVE  pv2[u] \in M /\ b[u] = b[pv2[u]] \cup {pv2[u]}
    BY DEF Backward
  <2>1. pv[u] \in L /\ ah[u] = ah[pv[u]] \cup {pv[u]}
    BY DEF Backward
  <2>2. pv[u] # hd
    <3>1. ASSUME pv[u] = hd PROVE FALSE
      <4>1. ah[u] = {hd}
        BY <1>1, <2>1, <3>1
      <4>2. n # NULL
        BY <1>1, <4>1 DEF Forward
      <4>3. n \in L /\ ah[n] = {hd}
        BY <1>1, <4>2 DEF Forward
      <4>4. n \in ah[u] \/ u \in ah[n]
        BY <4>3 DEF Order
      <4> QED
        BY <4>1, <4>3, <4>4 DEF Order
    <3> QED
      BY <3>1
  <2> QED
    BY <1>2, <2>1, <2>2
<1>8. Ends(M, n, tl2, nx2, b)
  <2>1. CASE n = NULL
    <3>1. M = {}
      BY <1>1, <1>3, <2>1 DEF Forward
    <3> QED
      BY <2>1, <3>1 DEF Ends
  <2>2. CASE n # NULL
    <3>1. n \in L /\ ah[n] = {hd}
      BY <1>1, <2>2 DEF Forward
    <3>2. n # hd /\ tl # hd
      BY <1>1, <2>2, <3>1
    <3> QED
      BY <1>1, <1>2, <2>2, <3>1, <3>2 DEF Ends
  <2> QED
    BY <2>1, <2>2
<1> QED
  BY <1>4, <1>5, <1>6, <1>7, <1>8 DEF b

\* Removal of the tail, which is not the head.
LEMMA ListRemoveTail ==
    ASSUME NEW L \in SUBSET Timers, NEW hd, NEW tl, NEW pv \in Links,
           NEW nx \in Links, NEW ex \in [Timers -> Nat], NEW ah \in Orders,
           List(L, hd, tl, pv, nx, ex, ah), L # {}, tl # hd
    PROVE  List(L \ {tl}, hd, pv[tl], pv, [nx EXCEPT ![pv[tl]] = NULL], ex,
                Without(ah, tl))
<1> DEFINE b == Without(ah, tl)
           M == L \ {tl}
           p == pv[tl]
           nx2 == [nx EXCEPT ![p] = NULL]
<1> USE DEF List
<1>1. hd \in L /\ ah[hd] = {} /\ tl \in L /\ nx[tl] = NULL
  BY DEF Ends
<1>2. p \in L /\ ah[tl] = ah[p] \cup {p}
  BY <1>1 DEF Backward
<1>3. \A u \in L : tl \notin ah[u]
  BY <1>1 DEF Forward
<1>4. \A u \in L : b[u] = ah[u]
  BY <1>3 DEF Without
<1>5. \A u \in L : nx2[u] = IF u = p THEN NULL ELSE nx[u]
  BY <1>2 DEF Links
<1>6. p # tl
  BY <1>1, <1>2, <1>3
<1> HIDE DEF b, nx2
<1>7. Order(M, b)
  BY <1>1, RemoveOrder DEF b
<1>8. Sorted(M, b, ex)
  BY <1>4 DEF Sorted
<1>9. Forward(M, nx2, b)
  <2>1. \A u \in M : p \notin b[u]
    <3>1. ASSUME NEW u \in M, p \in ah[u] PROVE FALSE
      <4>1. u \in ah[tl]
        BY <1>1, <1>3 DEF Order
      <4>2. u \in ah[p] \/ u = p
        BY <1>2, <4>1
      <4> QED
        BY <1>2, <3>1, <4>2 DEF Order
    <3> QED
      BY <1>4, <3>1
  <2>2. ASSUME NEW u \in M, u # p
        PROVE  nx2[u] # NULL /\ nx2[u] \in M /\ b[nx2[u]] = b[u] \cup {u}
    <3>1. u \in ah[tl]
      BY <1>1, <1>3 DEF Order
    <3>2. nx[u] # NULL
      BY <1>1, <3>1 DEF Forward
    <3>3. nx[u] \in L /\ ah[nx[u]] = ah[u] \cup {u}
      BY <3>2 DEF Forward
    <3>4. nx[u] # tl
      <4>1. nx[u] = tl => p = u
        BY <1>2, <3>3, SuccessorUnique
      <4> QED
        BY <2>2, <4>1
    <3> QED
      BY <1>4, <1>5, <2>2, <3>2, <3>3, <3>4
  <2> QED
    BY <1>5, <2>1, <2>2 DEF Forward
<1>10. Backward(M, hd, pv, b)
  <2> SUFFICES ASSUME NEW u \in M, u # hd
               PROVE  pv[u] \in M /\ b[u] = b[pv[u]] \cup {pv[u]}
    BY DEF Backward
  <2>1. pv[u] \in L /\ ah[u] = ah[pv[u]] \cup {pv[u]}
    BY DEF Backward
  <2> QED
    BY <1>3, <1>4, <2>1
<1>11. Ends(M, hd, p, nx2, b)
  BY <1>1, <1>2, <1>4, <1>5, <1>6 DEF Ends
<1> QED
  BY <1>7, <1>8, <1>9, <1>10, <1>11 DEF b, nx2

\* Removal of a timer that is neither the head nor the tail.
LEMMA ListRemoveMiddle ==
    ASSUME NEW L \in SUBSET Timers, NEW hd, NEW tl, NEW pv \in Links,
           NEW nx \in Links, NEW ex \in [Timers -> Nat], NEW ah \in Orders,
           List(L, hd, tl, pv, nx, ex, ah),
           NEW t \in L, t # hd, nx[t] # NULL
    PROVE  List(L \ {t}, hd, tl, [pv EXCEPT ![nx[t]] = pv[t]],
                [nx EXCEPT ![pv[t]] = nx[t]], ex, Without(ah, t))
<1> DEFINE b == Without(ah, t)
           M == L \ {t}
           p == pv[t]
           n == nx[t]
           nx2 == [nx EXCEPT ![p] = n]
           pv2 == [pv EXCEPT ![n] = p]
<1> USE DEF List
<1>1. hd \in L /\ ah[hd] = {} /\ tl \in L /\ nx[tl] = NULL
  BY DEF Ends
<1>2. p \in L /\ ah[t] = ah[p] \cup {p}
  BY DEF Backward
<1>3. n \in L /\ ah[n] = ah[t] \cup {t}
  BY DEF Forward
<1>4. \A u \in L : b[u] = ah[u] \ {t}
  BY DEF Without
<1>5. \A u \in L : /\ nx2[u] = IF u = p THEN n ELSE nx[u]
                   /\ pv2[u] = IF u = n THEN p ELSE pv[u]
  BY <1>2, <1>3 DEF Links
<1>6. \A u \in L : ah[u] \subseteq L /\ u \notin ah[u]
  BY DEF Order
<1>7. p # t /\ n # t /\ t \notin ah[p]
  BY <1>2, <1>3, <1>6
<1> HIDE DEF b, nx2, pv2
<1>8. Order(M, b)
  BY RemoveOrder DEF b
<1>9. Sorted(M, b, ex)
  BY <1>4 DEF Sorted
<1>10. Forward(M, nx2, b)
  <2>1. nx2[p] \in M /\ b[nx2[p]] = b[p] \cup {p} /\ nx2[p] # NULL
    BY <1>2, <1>3, <1>4, <1>5, <1>7
  <2>2. ASSUME NEW u \in M, u # p, nx[u] = NULL
        PROVE  nx2[u] = NULL /\ \A v \in M : u \notin b[v]
    BY <1>4, <1>5, <2>2 DEF Forward
  <2>3. ASSUME NEW u \in M, u # p, nx[u] # NULL
        PROVE  nx2[u] # NULL /\ nx2[u] \in M /\ b[nx2[u]] = b[u] \cup {u}
    <3>1. nx[u] \in L /\ ah[nx[u]] = ah[u] \cup {u}
      BY <2>3 DEF Forward
    <3>2. nx[u] # t
      <4>1. nx[u] = t => p = u
        BY <1>2, <3>1, SuccessorUnique
      <4> QED
        BY <2>3, <4>1
    <3> QED
      BY <1>4, <1>5, <2>3, <3>1, <3>2
  <2>4. ASSUME NEW u \in M
        PROVE  IF nx2[u] = NULL THEN \A v \in M : u \notin b[v]
               ELSE nx2[u] \in M /\ b[nx2[u]] = b[u] \cup {u}
    BY <2>1, <2>2, <2>3
  <2> QED
    BY <2>4 DEF Forward
<1>11. Backward(M, hd, pv2, b)
  <2> SUFFICES ASSUME NEW u \in M, u # hd
               PROVE  pv2[u] \in M /\ b[u] = b[pv2[u]] \cup {pv2[u]}
    BY DEF Backward
  <2>1. CASE u = n
    BY <1>2, <1>3, <1>4, <1>5, <1>7, <2>1
  <2>2. CASE u # n
    <3>1. pv[u] \in L /\ ah[u] = ah[pv[u]] \cup {pv[u]}
      BY DEF Backward
    <3>2. pv[u] # t
      <4>1. ASSUME pv[u] = t PROVE FALSE
        <5>1. ah[u] = ah[n]
          BY <1>3, <3>1, <4>1
        <5>2. u \in ah[n] \/ n \in ah[u]
          BY <1>3, <2>2 DEF Order
        <5> QED
          BY <1>3, <1>6, <5>1, <5>2
      <4> QED
        BY <4>1
    <3> QED
      BY <1>4, <1>5, <2>2, <3>1, <3>2
  <2> QED
    BY <2>1, <2>2
<1>12. Ends(M, hd, tl, nx2, b)
  <2>1. tl # t
    BY <1>1
  <2>2. tl # p
    <3>1. tl \notin ah[t]
      BY <1>1 DEF Forward
    <3> QED
      BY <1>2, <3>1
  <2> QED
    BY <1>1, <1>4, <1>5, <2>1, <2>2 DEF Ends
<1> QED
  BY <1>8, <1>9, <1>10, <1>11, <1>12 DEF b, nx2, pv2

\* A later deadline that stays below the successor's keeps the list sorted.
LEMMA ListExtend ==
    ASSUME NEW L \in SUBSET Timers, NEW hd, NEW tl, NEW pv \in Links,
           NEW nx \in Links, NEW ex \in [Timers -> Nat], NEW ah \in Orders,
           List(L, hd, tl, pv, nx, ex, ah), NEW t \in L,
           NEW e \in Nat, e >= ex[t], nx[t] # NULL => e <= ex[nx[t]]
    PROVE  List(L, hd, tl, pv, nx, [ex EXCEPT ![t] = e], ah)
<1> USE DEF List
<1> SUFFICES Sorted(L, ah, [ex EXCEPT ![t] = e])
  OBVIOUS
<1>1. \A v \in Timers : ex[v] \in Nat
  OBVIOUS
<1>2. ASSUME NEW v \in L, t \in ah[v] PROVE e <= ex[v]
  <2>1. nx[t] # NULL
    BY <1>2 DEF Forward
  <2>2. v = nx[t] \/ nx[t] \in ah[v]
    BY <1>2, <2>1, Successor
  <2>3. v # nx[t] => ex[nx[t]] <= ex[v]
    BY <2>2 DEF Sorted
  <2>4. nx[t] \in L
    BY <2>1 DEF Forward
  <2> QED
    BY <1>1, <2>1, <2>3, <2>4
<1> SUFFICES ASSUME NEW v \in L, NEW u \in ah[v]
             PROVE  [ex EXCEPT ![t] = e][u] <= [ex EXCEPT ![t] = e][v]
  BY DEF Sorted
<1>3. ex[u] <= ex[v] /\ u \in L /\ u # v
  BY DEF Sorted, Order
<1> QED
  BY <1>1, <1>2, <1>3

\* Only the fields of the elements matter.
LEMMA ListSame ==
    ASSUME NEW L, NEW hd, NEW tl, NEW pv, NEW nx, NEW ex, NEW ah,
           List(L, hd, tl, pv, nx, ex, ah),
           NEW pv2, NEW nx2, NEW ex2,
           \A u \in L : pv2[u] = pv[u] /\ nx2[u] = nx[u] /\ ex2[u] = ex[u]
    PROVE  List(L, hd, tl, pv2, nx2, ex2, ah)
<1> USE DEF List
<1>1. Sorted(L, ah, ex2)
  BY DEF Sorted, Order
<1>2. Forward(L, nx2, ah) /\ Backward(L, hd, pv2, ah) /\ Ends(L, hd, tl, nx2, ah)
  BY DEF Forward, Backward, Ends
<1> QED
  BY <1>1, <1>2

\* Among finitely many elements one comes first.
LEMMA FirstOf ==
    ASSUME NEW L, IsFiniteSet(L), NEW ah, Order(L, ah),
           NEW D \in SUBSET L, D # {}
    PROVE  \E m \in D : \A v \in D : v \notin ah[m]
<1> DEFINE T == {ah[u] : u \in D}
<1>1. T # {} /\ T \subseteq FiniteSubsetsOf(L)
  BY FS_Subset DEF FiniteSubsetsOf, Order
<1>2. \E x \in T : \A y \in T : <<y, x>> \notin StrictSubsetOrdering(L)
  <2> HIDE DEF T
  <2> QED
    BY <1>1, FS_StrictSubsetOrderingWellFounded, WFMin
<1>3. PICK m \in D : \A v \in D : <<ah[v], ah[m]>> \notin StrictSubsetOrdering(L)
  BY <1>2
<1>4. ASSUME NEW v \in D, v \in ah[m] PROVE FALSE
  <2>1. ah[v] \in SUBSET L /\ ah[m] \in SUBSET L
    BY DEF Order
  <2>2. ah[v] \subseteq ah[m] /\ ah[v] # ah[m]
    BY <1>4 DEF Order
  <2> QED
    BY <1>3, <2>1, <2>2 DEF StrictSubsetOrdering
<1> QED
  BY <1>4

\* A set that contains the head and that no next pointer leaves contains the
\* whole list: the first element that it lacked would be the successor of one
\* that it has.
LEMMA ListReached ==
    ASSUME NEW L \in SUBSET Timers, IsFiniteSet(L), NEW hd, NEW tl,
           NEW pv \in Links, NEW nx \in Links, NEW ex, NEW ah \in Orders,
           List(L, hd, tl, pv, nx, ex, ah),
           NEW S, L # {} => hd \in S, \A u \in S : nx[u] # NULL => nx[u] \in S
    PROVE  L \subseteq S
<1> USE DEF List
<1>1. SUFFICES ASSUME L \ S # {} PROVE FALSE
  OBVIOUS
<1>2. PICK m \in L \ S : \A v \in L \ S : v \notin ah[m]
  <2> DEFINE D == L \ S
  <2>1. D \in SUBSET L /\ D # {} /\ Order(L, ah)
    BY <1>1
  <2> HIDE DEF D
  <2>2. \E m \in D : \A v \in D : v \notin ah[m]
    BY <2>1, FirstOf
  <2> QED
    BY <2>2 DEF D
<1> DEFINE p == pv[m]
<1>3. p \in L /\ ah[m] = ah[p] \cup {p}
  BY <1>2 DEF Backward
<1> HIDE DEF p
<1>4. p \in S
  BY <1>2, <1>3
<1>5. nx[p] \in L /\ ah[nx[p]] = ah[p] \cup {p} /\ nx[p] # NULL
  BY <1>2, <1>3 DEF Forward
<1>6. nx[p] = m
  BY <1>2, <1>3, <1>5 DEF Order
<1> QED
  BY <1>2, <1>4, <1>5, <1>6

-----------------------------------------------------------------------------
(* Type correctness.                                                       *)

\* The locals of the loops.
LoopInv ==
    /\ pc = "walk" => /\ timer \in alloc /\ wprev \in alloc \ {timer}
                      /\ expire[wprev] <= expire[timer]
    /\ pc = "tick" => cur <= now
    /\ pc = "gone" => alloc = {}

ListInv ==
    /\ List(Linked, head, tail, prev, next, expire, ahead)
    /\ head # NULL /\ pc # "destroy" => prev[head] = NULL

LEMMA TimeType ==
    ASSUME TypeOK, NEW d \in Delays
    PROVE  now + d \in Nat
BY DEF TypeOK

LEMMA TypeStep == TypeOK /\ LoopInv /\ [Next]_vars => TypeOK'
<1> SUFFICES ASSUME TypeOK, LoopInv, [Next]_vars PROVE TypeOK'
  OBVIOUS
<1> USE DEF TypeOK
<1>1. ASSUME NEW t \in Timers, NEW d \in Delays,
             \/ AddFirst(t, now + d) \/ AddHead(t, now + d) \/ AddWalk(t, now + d)
      PROVE  TypeOK'
  <2>1. expire' \in [Timers -> Nat]
    BY <1>1, TimeType DEF AddFirst, AddHead, AddWalk, NewTimer
  <2>2. alloc' \in SUBSET Timers /\ fired' \in SUBSET Timers
    BY <1>1 DEF AddFirst, AddHead, AddWalk, NewTimer
  <2>3. /\ next' \in [Timers -> Timers \cup {NULL}]
        /\ prev' \in [Timers -> Timers \cup {NULL}]
    BY <1>1 DEF AddFirst, AddHead, AddWalk
  <2>4. ahead' \in [Timers -> SUBSET Timers]
    BY <1>1 DEF AddFirst, AddHead, AddWalk, AheadFirst
  <2> QED
    BY <1>1, <2>1, <2>2, <2>3, <2>4
       DEF AddFirst, AddHead, AddWalk, StartWalk, NewTimer, locals
<1>2. ASSUME NEW t \in Timers, NEW d \in Delays,
             \/ AdjustStays(t, now + d) \/ AdjustHead(t, now + d)
             \/ AdjustMiddle(t, now + d)
      PROVE  TypeOK'
  <2>1. expire' \in [Timers -> Nat]
    BY <1>2, TimeType DEF AdjustStays, AdjustHead, AdjustMiddle, Extend
  <2>2. /\ next' \in [Timers -> Timers \cup {NULL}]
        /\ prev' \in [Timers -> Timers \cup {NULL}]
    BY <1>2 DEF AdjustStays, AdjustHead, AdjustMiddle
  <2>3. ahead' \in [Timers -> SUBSET Timers]
    BY <1>2 DEF AdjustStays, AdjustHead, AdjustMiddle, AheadWithout
  <2>4. AdjustHead(t, now + d) \/ AdjustMiddle(t, now + d) => next[t] \in Timers
    BY DEF AdjustHead, AdjustMiddle, Stays
  <2> QED
    BY <1>2, <2>1, <2>2, <2>3, <2>4
       DEF AdjustStays, AdjustHead, AdjustMiddle, StartWalk, Extend, locals
<1>3. ASSUME NEW t \in Timers,
             DelOnly(t) \/ DelHead(t) \/ DelTail(t) \/ DelMiddle(t)
      PROVE  TypeOK'
  <2>1. ahead' \in [Timers -> SUBSET Timers]
    BY <1>3 DEF DelOnly, DelHead, DelTail, DelMiddle, Delete, AheadWithout
  <2> QED
    BY <1>3, <2>1 DEF DelOnly, DelHead, DelTail, DelMiddle, Delete, locals
<1>4. CASE TickStart \/ TickStop \/ DestroyStart \/ DestroyEnd \/ TimePasses
  BY <1>4 DEF TickStart, TickStop, DestroyStart, DestroyEnd, TimePasses, Return,
              locals
<1>5. CASE WalkInsert \/ WalkAppend
  <2>1. timer \in Timers /\ wprev \in Timers
    BY <1>5 DEF WalkInsert, WalkAppend, LoopInv
  <2>2. ahead' \in [Timers -> SUBSET Timers]
    BY <1>5, <2>1 DEF WalkInsert, WalkAppend, AheadBehind
  <2> QED
    BY <1>5, <2>1, <2>2 DEF WalkInsert, WalkAppend, Return
<1>6. CASE WalkOn
  <2>1. wprev \in Timers
    BY <1>6 DEF WalkOn, LoopInv
  <2> QED
    BY <1>6, <2>1 DEF WalkOn
<1>7. CASE TickFire \/ DestroyStep
  <2>1. head \in Timers /\ next[head] \in Timers \cup {NULL}
    BY <1>7 DEF TickFire, DestroyStep
  <2>2. ahead' \in [Timers -> SUBSET Timers]
    BY <1>7 DEF TickFire, DropHead, DestroyStep, AheadWithout
  <2>3. prev' \in [Timers -> Timers \cup {NULL}]
    BY <1>7, <2>1 DEF TickFire, DropHead, DestroyStep
  <2> QED
    BY <1>7, <2>1, <2>2, <2>3 DEF TickFire, DropHead, DestroyStep, locals
<1>8. CASE UNCHANGED vars
  BY <1>8 DEF vars
<1> QED
  BY <1>1, <1>2, <1>3, <1>4, <1>5, <1>6, <1>7, <1>8 DEF Next, Call, Loop

LEMMA TypeInit == Init => TypeOK
BY DEF Init, TypeOK

-----------------------------------------------------------------------------
(* Every step keeps the list.                                              *)

LEMMA ListInit == Init => LoopInv /\ ListInv
BY DEF Init, LoopInv, ListInv, Linked, List, Order, Sorted, Forward, Backward,
       Ends

\* What the lemmas need to know of the variables.
LEMMA VarTypes ==
    ASSUME TypeOK
    PROVE  /\ prev \in Links /\ next \in Links
           /\ expire \in [Timers -> Nat] /\ ahead \in Orders
           /\ alloc \in SUBSET Timers /\ Linked \in SUBSET Timers
BY DEF TypeOK, Links, Orders, Linked

\* add_timer.
LEMMA AddStep ==
    ASSUME TypeOK, LoopInv, ListInv, NEW t \in Timers, NEW e \in Nat,
           AddFirst(t, e) \/ AddHead(t, e) \/ AddWalk(t, e)
    PROVE  LoopInv' /\ ListInv'
<1> USE VarTypes
<1>1. /\ pc = "idle" /\ Linked = alloc /\ t \in Timers \ alloc
      /\ alloc' = alloc \cup {t} /\ expire' = [expire EXCEPT ![t] = e]
  BY DEF AddFirst, AddHead, AddWalk, NewTimer, Linked
<1>2. List(alloc, head, tail, prev, next, expire, ahead)
  BY <1>1 DEF ListInv
<1>3. (alloc = {} <=> head = NULL) /\ (head # NULL => head \in alloc)
  BY <1>1, <1>2 DEF List, Ends
<1>4. expire' \in [Timers -> Nat] /\ \A u \in alloc : expire'[u] = expire[u]
  BY <1>1
<1>5. CASE AddFirst(t, e)
  <2>1. /\ alloc' = {t} /\ head' = t /\ tail' = t /\ pc' = "idle"
        /\ next'[t] = NULL /\ prev'[t] = NULL /\ ahead'[t] = {}
        /\ ahead' \in Orders
    BY <1>1, <1>3, <1>5 DEF AddFirst, Links, Orders
  <2>2. List({t}, t, t, prev', next', expire', ahead')
    BY <1>4, <2>1, ListFirst
  <2> QED
    BY <2>1, <2>2 DEF ListInv, LoopInv, Linked
<1>6. CASE AddHead(t, e)
  <2>1. List(alloc, head, tail, prev, next, expire', ahead)
    BY <1>2, <1>4, ListSame
  <2>2. /\ head # NULL /\ e < expire[head] /\ head' = t /\ UNCHANGED <<tail, pc>>
        /\ next' = [next EXCEPT ![t] = head]
        /\ prev' = [prev EXCEPT ![t] = NULL, ![head] = t]
        /\ ahead' = [u \in Timers |-> IF u = t THEN {} ELSE ahead[u] \cup {t}]
    BY <1>6 DEF AddHead, AheadFirst
  <2>3. expire'[t] <= expire'[head] /\ alloc # {} /\ head # t /\ head \in Timers
    BY <1>1, <1>3, <2>2
  <2>4. List(alloc \cup {t}, t, tail, prev', next', expire', ahead')
    BY <1>1, <1>4, <2>1, <2>2, <2>3, ListPush
  <2>5. prev'[t] = NULL
    BY <2>2, <2>3 DEF Links
  <2> QED
    BY <1>1, <2>2, <2>4, <2>5 DEF ListInv, LoopInv, Linked
<1>7. CASE AddWalk(t, e)
  <2>1. /\ head # NULL /\ e >= expire[head] /\ pc' = "walk"
        /\ timer' = t /\ wprev' = head
        /\ UNCHANGED <<head, tail, ahead>>
        /\ prev' = [prev EXCEPT ![t] = NULL]
        /\ next' = [next EXCEPT ![t] = NULL]
    BY <1>7 DEF AddWalk, StartWalk
  <2>2. Linked' = alloc
    BY <1>1, <2>1 DEF Linked
  <2>3. List(alloc, head, tail, prev', next', expire', ahead)
    <3>1. \A u \in alloc : prev'[u] = prev[u] /\ next'[u] = next[u]
      BY <1>1, <2>1 DEF Links
    <3> QED
      BY <1>2, <1>4, <3>1, ListSame
  <2>4. prev'[head] = NULL /\ expire'[head] <= expire'[t]
    BY <1>1, <1>3, <2>1 DEF ListInv, Links
  <2> QED
    BY <1>1, <1>3, <2>1, <2>2, <2>3, <2>4 DEF ListInv, LoopInv
<1> QED
  BY <1>5, <1>6, <1>7

\* adjust_timer.
LEMMA AdjustStep ==
    ASSUME TypeOK, LoopInv, ListInv, NEW t \in Timers, NEW e \in Nat,
           AdjustStays(t, e) \/ AdjustHead(t, e) \/ AdjustMiddle(t, e)
    PROVE  LoopInv' /\ ListInv'
<1> USE VarTypes
<1>1. /\ pc = "idle" /\ Linked = alloc /\ t \in alloc /\ alloc' = alloc
      /\ expire' = [expire EXCEPT ![t] = e] /\ e >= expire[t]
  BY DEF AdjustStays, AdjustHead, AdjustMiddle, Extend, Linked
<1>2. List(alloc, head, tail, prev, next, expire, ahead)
  BY <1>1 DEF ListInv
<1>3. head # NULL /\ head \in alloc /\ prev[head] = NULL
  BY <1>1, <1>2 DEF List, Ends, ListInv
<1>4. /\ expire' \in [Timers -> Nat]
      /\ \A u \in alloc \ {t} : expire'[u] = expire[u]
      /\ expire'[t] = e
  BY <1>1
<1>5. CASE AdjustStays(t, e)
  <2>1. UNCHANGED <<head, tail, prev, next, ahead, pc>>
    BY <1>5 DEF AdjustStays
  <2>2. next[t] # NULL => e <= expire[next[t]]
    <3>1. next[t] # NULL => e < expire[next[t]] /\ next[t] \in Timers
      BY <1>5 DEF AdjustStays, Stays, Links
    <3> QED
      BY <3>1
  <2>3. List(alloc, head, tail, prev, next, expire', ahead)
    BY <1>1, <1>2, <2>2, ListExtend
  <2> QED
    BY <1>1, <1>3, <2>1, <2>3 DEF ListInv, LoopInv, Linked
<1>6. ASSUME AdjustHead(t, e) \/ AdjustMiddle(t, e)
      PROVE  /\ next[t] # NULL /\ next[t] \in alloc \ {t}
             /\ pc' = "walk" /\ timer' = t /\ wprev' = next[t]
             /\ expire'[next[t]] <= expire'[t]
             /\ Linked' = alloc \ {t}
             /\ ahead' = Without(ahead, t)
  <2>1. next[t] # NULL /\ e >= expire[next[t]]
    BY <1>6 DEF AdjustHead, AdjustMiddle, Stays, Links
  <2>2. next[t] \in alloc /\ ahead[next[t]] = ahead[t] \cup {t}
    BY <1>1, <1>2, <2>1 DEF List, Forward
  <2>3. next[t] # t
    BY <1>1, <1>2, <2>2 DEF List, Order
  <2>4. pc' = "walk" /\ timer' = t /\ wprev' = next[t]
    BY <1>6 DEF AdjustHead, AdjustMiddle, StartWalk
  <2>5. ahead' = Without(ahead, t)
    BY <1>6 DEF AdjustHead, AdjustMiddle, AheadWithout, Without
  <2>6. expire'[next[t]] <= expire'[t]
    BY <1>4, <2>1, <2>2, <2>3
  <2>7. Linked' = alloc \ {t}
    BY <1>1, <2>4 DEF Linked
  <2> QED
    BY <2>1, <2>2, <2>3, <2>4, <2>5, <2>6, <2>7
<1>7. CASE AdjustHead(t, e)
  <2>1. /\ t = head /\ head' = next[t] /\ tail' = tail
        /\ prev' = [prev EXCEPT ![next[t]] = NULL]
        /\ next' = [next EXCEPT ![t] = NULL]
    BY <1>7 DEF AdjustHead
  <2>2. List(alloc \ {t}, next[t], tail, prev', next', expire, Without(ahead, t))
    <3>1. \A u \in alloc : u # head /\ u # next[head] => prev'[u] = prev[u]
      BY <2>1 DEF Links
    <3>2. \A u \in alloc : u # head => next'[u] = next[u]
      BY <2>1 DEF Links
    <3>3. alloc # {}
      BY <1>1
    <3> DEFINE P == prev'
               N == next'
    <3>4. /\ \A u \in alloc : u # head /\ u # next[head] => P[u] = prev[u]
          /\ \A u \in alloc : u # head => N[u] = next[u]
      BY <3>1, <3>2
    <3> HIDE DEF P, N
    <3>5. List(alloc \ {head}, next[head], tail, P, N, expire, Without(ahead, head))
      BY <1>2, <3>3, <3>4, ListRemoveHead
    <3> QED
      BY <2>1, <3>5 DEF P, N
  <2>3. List(alloc \ {t}, next[t], tail, prev', next', expire', Without(ahead, t))
    BY <1>4, <2>2, ListSame
  <2>4. prev'[head'] = NULL
    BY <1>6, <1>7, <2>1 DEF Links
  <2> QED
    BY <1>1, <1>6, <1>7, <2>1, <2>3, <2>4 DEF ListInv, LoopInv
<1>8. CASE AdjustMiddle(t, e)
  <2>1. /\ t # head /\ head' = head /\ tail' = tail
        /\ prev' = [prev EXCEPT ![next[t]] = prev[t]]
        /\ next' = [next EXCEPT ![prev[t]] = next[t]]
    BY <1>8 DEF AdjustMiddle
  <2>2. List(alloc \ {t}, head, tail, prev', next', expire, Without(ahead, t))
    BY <1>1, <1>2, <1>6, <1>8, <2>1, ListRemoveMiddle
  <2>3. List(alloc \ {t}, head, tail, prev', next', expire', Without(ahead, t))
    BY <1>4, <2>2, ListSame
  <2>4. prev'[head] = NULL
    <3>1. next[t] # head
      BY <1>1, <1>2, <1>6, <1>8 DEF List, Forward, Ends
    <3> QED
      BY <1>3, <2>1, <3>1
  <2> QED
    BY <1>1, <1>6, <1>8, <2>1, <2>3, <2>4 DEF ListInv, LoopInv
<1> QED
  BY <1>5, <1>7, <1>8

\* The head goes: del_timer of the head, tick, the destructor.
LEMMA HeadStep ==
    ASSUME TypeOK, ListInv, head # NULL, Linked = alloc,
           alloc' = alloc \ {head}, Linked' = alloc', head' = next[head],
           ahead' = Without(ahead, head), UNCHANGED <<next, expire>>,
           next[head] # NULL => tail' = tail,
           \A u \in Timers : u # next[head] => prev'[u] = prev[u],
           next[head] # NULL /\ pc' # "destroy" => prev'[next[head]] = NULL
    PROVE  ListInv'
<1> USE VarTypes
<1>1. List(alloc, head, tail, prev, next, expire, ahead)
  BY DEF ListInv
<1>2. alloc # {}
  BY <1>1 DEF List, Ends
<1> DEFINE P == prev'
           T == tail'
<1>3. \A u \in alloc : u # head /\ u # next[head] => P[u] = prev[u]
  OBVIOUS
<1>4. next[head] # NULL => T = tail
  OBVIOUS
<1> HIDE DEF P, T
<1>5. List(alloc \ {head}, next[head], T, P, next, expire, Without(ahead, head))
  BY <1>1, <1>2, <1>3, <1>4, ListRemoveHead
<1> QED
  BY <1>5 DEF P, T, ListInv

\* del_timer.
LEMMA DelStep ==
    ASSUME TypeOK, LoopInv, ListInv, NEW t \in Timers,
           DelOnly(t) \/ DelHead(t) \/ DelTail(t) \/ DelMiddle(t)
    PROVE  LoopInv' /\ ListInv'
<1> USE VarTypes
<1>1. /\ pc = "idle" /\ pc' = "idle" /\ t \in alloc /\ alloc' = alloc \ {t}
      /\ ahead' = Without(ahead, t) /\ expire' = expire
  BY DEF DelOnly, DelHead, DelTail, DelMiddle, Delete, AheadWithout, Without
<1>2. Linked = alloc /\ Linked' = alloc'
  BY <1>1 DEF Linked
<1>3. LoopInv'
  BY <1>1 DEF LoopInv
<1>4. List(alloc, head, tail, prev, next, expire, ahead)
  BY <1>2 DEF ListInv
<1>5. /\ head # NULL /\ head \in alloc /\ prev[head] = NULL /\ tail \in alloc
      /\ next[tail] = NULL /\ ahead[head] = {}
  BY <1>1, <1>2, <1>4 DEF List, Ends, ListInv
<1>6. \A u \in alloc : next[u] = NULL => u = tail
  <2>1. Order(alloc, ahead) /\ Forward(alloc, next, ahead)
    BY <1>4 DEF List
  <2> QED
    BY <1>5, <2>1 DEF Order, Forward
<1>7. CASE DelOnly(t)
  <2>1. t = head /\ t = tail /\ head' = NULL /\ UNCHANGED <<prev, next>>
    BY <1>7 DEF DelOnly
  <2> QED
    BY <1>1, <1>2, <1>3, <1>5, <2>1, HeadStep
<1>8. CASE DelHead(t)
  <2>1. /\ t = head /\ t # tail /\ head' = next[head] /\ UNCHANGED <<tail, next>>
        /\ prev' = [prev EXCEPT ![next[head]] = NULL]
    BY <1>8 DEF DelHead
  <2>2. next[head] \in Timers
    BY <1>5, <1>6, <2>1 DEF Links
  <2>3. /\ \A u \in Timers : u # next[head] => prev'[u] = prev[u]
        /\ prev'[next[head]] = NULL
    BY <2>1, <2>2 DEF Links
  <2> QED
    BY <1>1, <1>2, <1>3, <1>5, <2>1, <2>3, HeadStep
<1>9. CASE DelTail(t)
  <2>1. /\ t # head /\ t = tail /\ head' = head /\ tail' = prev[tail]
        /\ next' = [next EXCEPT ![prev[tail]] = NULL] /\ prev' = prev
    BY <1>9 DEF DelTail
  <2>2. List(alloc \ {tail}, head, prev[tail], prev,
             [next EXCEPT ![prev[tail]] = NULL], expire, Without(ahead, tail))
    BY <1>1, <1>4, <2>1, ListRemoveTail
  <2> QED
    BY <1>1, <1>2, <1>3, <1>5, <2>1, <2>2 DEF ListInv
<1>10. CASE DelMiddle(t)
  <2>1. /\ t # head /\ t # tail /\ UNCHANGED <<head, tail>>
        /\ next' = [next EXCEPT ![prev[t]] = next[t]]
        /\ prev' = [prev EXCEPT ![next[t]] = prev[t]]
    BY <1>10 DEF DelMiddle
  <2>2. next[t] # NULL
    BY <1>1, <1>6, <2>1
  <2>3. List(alloc \ {t}, head, tail, [prev EXCEPT ![next[t]] = prev[t]],
             [next EXCEPT ![prev[t]] = next[t]], expire, Without(ahead, t))
    BY <1>1, <1>4, <2>1, <2>2, ListRemoveMiddle
  <2>4. prev'[head] = NULL
    <3>1. next[t] # head
      BY <1>1, <1>4, <1>5, <2>2 DEF List, Forward
    <3> QED
      BY <1>5, <2>1, <3>1
  <2> QED
    BY <1>1, <1>2, <1>3, <2>1, <2>3, <2>4 DEF ListInv
<1> QED
  BY <1>7, <1>8, <1>9, <1>10

\* The walk of the private add_timer.
LEMMA WalkStep ==
    ASSUME TypeOK, LoopInv, ListInv, WalkInsert \/ WalkOn \/ WalkAppend
    PROVE  LoopInv' /\ ListInv'
<1> USE VarTypes
<1> DEFINE L == alloc \ {timer}
<1>1. /\ pc = "walk" /\ timer \in alloc /\ wprev \in L
      /\ expire[wprev] <= expire[timer] /\ Linked = L
  BY DEF WalkInsert, WalkOn, WalkAppend, LoopInv, Linked
<1>2. List(L, head, tail, prev, next, expire, ahead)
  BY <1>1 DEF ListInv
<1>3. head # NULL /\ head \in L /\ prev[head] = NULL
  BY <1>1, <1>2 DEF List, Ends, ListInv
<1>4. timer \in Timers \ L /\ L \in SUBSET Timers /\ L \cup {timer} = alloc
  BY <1>1
<1>5. next[wprev] # NULL => /\ next[wprev] \in L
                            /\ ahead[next[wprev]] = ahead[wprev] \cup {wprev}
  BY <1>1, <1>2 DEF List, Forward
<1>6. CASE WalkInsert
  <2> DEFINE n == next[wprev]
  <2>1. /\ n # NULL /\ expire[timer] < expire[n] /\ pc' = "idle"
        /\ next' = [next EXCEPT ![wprev] = timer, ![timer] = n]
        /\ prev' = [prev EXCEPT ![n] = timer, ![timer] = wprev]
        /\ UNCHANGED <<head, tail, expire, alloc>>
        /\ ahead' = Behind(ahead, timer, wprev)
    BY <1>6 DEF WalkInsert, Return, AheadBehind, Behind
  <2>2. List(L \cup {timer}, head, tail,
             [prev EXCEPT ![n] = timer, ![timer] = wprev],
             [next EXCEPT ![wprev] = timer, ![timer] = n],
             expire, Behind(ahead, timer, wprev))
    BY <1>1, <1>2, <1>4, <2>1, ListInsert
  <2>3. prev'[head] = NULL
    <3>1. n # head /\ timer # head
      BY <1>1, <1>2, <1>3, <1>5, <2>1 DEF List, Ends
    <3>2. head \in Timers
      BY <1>3, <1>4
    <3> HIDE DEF n
    <3> QED
      BY <1>3, <2>1, <3>1, <3>2 DEF Links
  <2>4. Linked' = alloc
    BY <2>1 DEF Linked
  <2> QED
    BY <1>4, <2>1, <2>2, <2>3, <2>4 DEF ListInv, LoopInv
<1>7. CASE WalkOn
  <2>1. /\ next[wprev] # NULL /\ expire[timer] >= expire[next[wprev]]
        /\ wprev' = next[wprev]
        /\ UNCHANGED <<head, tail, prev, next, expire, alloc, pc, timer, ahead>>
    BY <1>7 DEF WalkOn
  <2>2. ListInv'
    BY <2>1 DEF ListInv, Linked
  <2>3. expire[next[wprev]] <= expire[timer]
    BY <1>4, <1>5, <2>1
  <2> QED
    BY <1>1, <1>5, <2>1, <2>2, <2>3 DEF LoopInv
<1>8. CASE WalkAppend
  <2>1. /\ next[wprev] = NULL /\ pc' = "idle"
        /\ next' = [next EXCEPT ![wprev] = timer, ![timer] = NULL]
        /\ prev' = [prev EXCEPT ![timer] = wprev]
        /\ tail' = timer /\ UNCHANGED <<head, expire, alloc>>
        /\ ahead' = Behind(ahead, timer, wprev)
    BY <1>8 DEF WalkAppend, Return, AheadBehind, Behind
  <2>2. List(L \cup {timer}, head, timer, [prev EXCEPT ![timer] = wprev],
             [next EXCEPT ![wprev] = timer, ![timer] = NULL],
             expire, Behind(ahead, timer, wprev))
    BY <1>1, <1>2, <1>4, <2>1, ListAppend
  <2>3. prev'[head] = NULL
    <3>1. timer # head /\ head \in Timers
      BY <1>3, <1>4
    <3> QED
      BY <1>3, <2>1, <3>1 DEF Links
  <2>4. Linked' = alloc
    BY <2>1 DEF Linked
  <2> QED
    BY <1>4, <2>1, <2>2, <2>3, <2>4 DEF ListInv, LoopInv
<1> QED
  BY <1>6, <1>7, <1>8

LEMMA ListStep == TypeOK /\ LoopInv /\ ListInv /\ [Next]_vars => LoopInv' /\ ListInv'
<1> SUFFICES ASSUME TypeOK, LoopInv, ListInv, [Next]_vars
             PROVE  LoopInv' /\ ListInv'
  OBVIOUS
<1>1. ASSUME NEW t \in Timers, NEW d \in Delays,
             \/ AddFirst(t, now + d) \/ AddHead(t, now + d) \/ AddWalk(t, now + d)
             \/ AdjustStays(t, now + d) \/ AdjustHead(t, now + d)
             \/ AdjustMiddle(t, now + d)
      PROVE  LoopInv' /\ ListInv'
  <2>1. now + d \in Nat
    BY TimeType
  <2> QED
    BY <1>1, <2>1, AddStep, AdjustStep
<1>2. ASSUME NEW t \in Timers,
             DelOnly(t) \/ DelHead(t) \/ DelTail(t) \/ DelMiddle(t)
      PROVE  LoopInv' /\ ListInv'
  BY <1>2, DelStep
<1>3. CASE WalkInsert \/ WalkOn \/ WalkAppend
  BY <1>3, WalkStep
<1>4. CASE TickStart
  BY <1>4 DEF TickStart, LoopInv, ListInv, Linked, TypeOK
<1>5. CASE TickStop \/ DestroyStart
  BY <1>5 DEF TickStop, DestroyStart, Return, LoopInv, ListInv, Linked
<1>6. CASE DestroyEnd
  <2>1. alloc = {}
    BY <1>6, VarTypes DEF DestroyEnd, ListInv, List, Ends, Linked
  <2> QED
    BY <1>6, <2>1 DEF DestroyEnd, LoopInv, ListInv, Linked
<1>7. CASE TimePasses
  BY <1>7 DEF TimePasses, LoopInv, ListInv, Linked, TypeOK, locals
<1>8. CASE TickFire \/ DestroyStep
  <2>1. /\ head # NULL /\ Linked = alloc /\ alloc' = alloc \ {head}
        /\ Linked' = alloc' /\ head' = next[head]
        /\ ahead' = Without(ahead, head) /\ UNCHANGED <<next, expire, tail>>
    BY <1>8 DEF TickFire, DropHead, DestroyStep, Linked, AheadWithout, Without
  <2>2. /\ \A u \in Timers : u # next[head] => prev'[u] = prev[u]
        /\ next[head] # NULL /\ pc' # "destroy" => prev'[next[head]] = NULL
    <3>1. next[head] # NULL => next[head] \in Timers
      BY <2>1 DEF TypeOK
    <3> QED
      BY <1>8, <3>1 DEF TickFire, DropHead, DestroyStep, TypeOK
  <2>3. ListInv'
    BY <2>1, <2>2, HeadStep
  <2> QED
    BY <1>8, <2>3 DEF TickFire, DestroyStep, LoopInv, locals
<1>9. CASE UNCHANGED vars
  BY <1>9 DEF vars, LoopInv, ListInv, Linked
<1> QED
  BY <1>1, <1>2, <1>3, <1>4, <1>5, <1>6, <1>7, <1>8, <1>9 DEF Next, Call, Loop

LEMMA Invariant == Spec => [](TypeOK /\ LoopInv /\ ListInv)
BY TypeInit, TypeStep, ListInit, ListStep, PTL DEF Spec

\* The head is due first.
LEMMA HeadIsFirst ==
    ASSUME TypeOK, ListInv
    PROVE  /\ head = NULL => Linked = {}
           /\ head # NULL => /\ head \in Linked
                             /\ \A u \in Linked : expire[head] <= expire[u]
<1> USE VarTypes
<1>1. List(Linked, head, tail, prev, next, expire, ahead)
  BY DEF ListInv
<1>2. /\ head = NULL => Linked = {}
      /\ head # NULL => head \in Linked /\ ahead[head] = {}
  BY <1>1 DEF List, Ends
<1>3. ASSUME head # NULL, NEW u \in Linked PROVE expire[head] <= expire[u]
  <2>1. CASE u = head
    <3>1. expire[u] \in Nat
      BY DEF TypeOK
    <3> QED
      BY <2>1, <3>1
  <2>2. CASE u # head
    <3>1. head \in ahead[u]
      BY <1>1, <1>2, <1>3, <2>2 DEF List, Order
    <3> QED
      BY <1>1, <1>3, <3>1 DEF List, Sorted
  <2> QED
    BY <2>1, <2>2
<1> QED
  BY <1>2, <1>3

-----------------------------------------------------------------------------
(* The theorems.                                                           *)

\* Type correctness of LstTimer.
THEOREM TypeCorrect == Spec => []TypeOK
BY Invariant, PTL

\* The links read pointer by pointer, from the order of the list.
LEMMA LinksFromOrder == TypeOK /\ ListInv => LinksMatch
<1> SUFFICES ASSUME TypeOK, ListInv PROVE LinksMatch
  OBVIOUS
<1> USE VarTypes
<1> DEFINE L == Linked
<1>1. /\ Order(L, ahead) /\ Forward(L, next, ahead)
      /\ Backward(L, head, prev, ahead) /\ Ends(L, head, tail, next, ahead)
  BY DEF ListInv, List
<1>2. /\ head = NULL <=> L = {}
      /\ head # NULL => head \in L /\ (pc # "destroy" => prev[head] = NULL)
  BY <1>1 DEF Ends, ListInv
<1>3. ASSUME NEW t \in L, next[t] # NULL
      PROVE  next[t] \in L /\ prev[next[t]] = t
  <2>1. next[t] \in L /\ ahead[next[t]] = ahead[t] \cup {t}
    BY <1>1, <1>3 DEF Forward
  <2>2. next[t] # head
    BY <1>1, <2>1 DEF Ends
  <2>3. /\ prev[next[t]] \in L
        /\ ahead[next[t]] = ahead[prev[next[t]]] \cup {prev[next[t]]}
    BY <1>1, <2>1, <2>2 DEF Backward
  <2>4. prev[next[t]] = t
    BY <1>1, <2>1, <2>3, SuccessorUnique
  <2> QED
    BY <2>1, <2>4
<1>4. ASSUME NEW t \in L, pc # "destroy" PROVE prev[t] = NULL <=> t = head
  BY <1>1, <1>2, <1>4 DEF Backward
<1>5. ASSUME NEW t \in L PROVE next[t] = NULL <=> t = tail
  BY <1>1, <1>5 DEF Order, Forward, Ends
<1> HIDE DEF L
<1> QED
  BY <1>2, <1>3, <1>4, <1>5 DEF LinksMatch, L

\* The timers reached from the head are those of the list, no more and no
\* fewer.
LEMMA ReachedFromOrder ==
    ASSUME TypeOK, ListInv, IsFiniteSet(alloc)
    PROVE  NothingLost
<1> USE VarTypes
<1>1. List(Linked, head, tail, prev, next, expire, ahead)
  BY DEF ListInv
<1>2. IsFiniteSet(Linked)
  BY FS_Subset DEF Linked
<1>3. /\ head # NULL => head \in Linked
      /\ Linked # {} => head # NULL
      /\ \A u \in Linked : next[u] # NULL => next[u] \in Linked
  BY <1>1 DEF List, Ends, Forward
<1>4. Reached(head) \subseteq Linked
  BY <1>3 DEF Reached, Followed
<1>5. Linked \subseteq Reached(head)
  <2> SUFFICES ASSUME NEW S \in SUBSET Timers, head # NULL => head \in S,
                      \A u \in S : next[u] # NULL => next[u] \in S
               PROVE  Linked \subseteq S
    BY DEF Reached, Followed
  <2> QED
    BY <1>1, <1>2, <1>3, ListReached
<1> QED
  BY <1>4, <1>5 DEF NothingLost

\* Only finitely many timers are allocated at a time, whatever the set of
\* addresses: one new makes one timer.
FiniteInv == IsFiniteSet(alloc)
LEMMA Finite == Spec => []FiniteInv
<1> USE DEF FiniteInv
<1>1. Init => FiniteInv
  BY FS_EmptySet DEF Init
<1>2. FiniteInv /\ [Next]_vars => FiniteInv'
  <2> SUFFICES ASSUME FiniteInv, [Next]_vars PROVE FiniteInv'
    OBVIOUS
  <2>1. alloc' = alloc \/ (\E t \in Timers : alloc' = alloc \cup {t})
           \/ (\E t : alloc' = alloc \ {t})
    BY DEF Next, Call, Loop, TickStop, TickFire, DropHead, WalkInsert,
                WalkOn, WalkAppend, DestroyStep, DestroyEnd, TickStart,
                DestroyStart, TimePasses, AddFirst, AddHead, AddWalk, NewTimer,
                AdjustStays, AdjustHead, AdjustMiddle, Extend, DelOnly, DelHead,
                DelTail, DelMiddle, Delete, vars
  <2> QED
    BY <2>1, FS_AddElement, FS_RemoveElement
<1> HIDE DEF FiniteInv
<1> QED
  BY <1>1, <1>2, PTL DEF Spec

\* sort_timer_lst stays a list through every operation: the link fields are
\* each other's inverse and never lead to a timer that was deleted, and
\* whoever follows next from the head meets every timer that is allocated and
\* not just being moved, and no other.
THEOREM ListStaysExact == Spec => []ListExact
<1>1. TypeOK /\ ListInv /\ FiniteInv => ListExact
  BY LinksFromOrder, ReachedFromOrder DEF ListExact, FiniteInv
<1> QED
  BY <1>1, Invariant, Finite, PTL

\* The list stays ascending.
THEOREM StaysAscending == Spec => []Ascending
<1>1. TypeOK /\ ListInv => Ascending
  <2> SUFFICES ASSUME TypeOK, ListInv, NEW t \in Linked, next[t] # NULL
               PROVE  expire[t] <= expire[next[t]]
    BY DEF Ascending
  <2>1. next[t] \in Linked /\ t \in ahead[next[t]]
    BY DEF ListInv, List, Forward
  <2> QED
    BY <2>1 DEF ListInv, List, Sorted
<1> QED
  BY <1>1, Invariant, PTL

\* The destructor leaves no timer behind.
THEOREM DestructorFreesAll == Spec => []NoLeak
<1>1. LoopInv => NoLeak
  BY DEF LoopInv, NoLeak
<1> QED
  BY <1>1, Invariant, PTL

\* When tick returns, nothing that was due is left in the list.
THEOREM TickHandlesAll == Spec => TickComplete
<1>1. ASSUME TypeOK, ListInv, [Next]_vars, pc = "tick", pc' = "idle"
      PROVE  \A t \in alloc : expire[t] > cur
  <2>1. TickStop
    BY <1>1 DEF Next, Call, Loop, TickStop, TickFire, WalkInsert, WalkOn,
                WalkAppend, DestroyStep, DestroyEnd, TickStart, DestroyStart,
                TimePasses, AddFirst, AddHead, AddWalk, NewTimer, AdjustStays,
                AdjustHead, AdjustMiddle, Extend, DelOnly, DelHead, DelTail,
                DelMiddle, Delete, vars
  <2>2. head = NULL \/ ~ (cur >= expire[head])
    BY <2>1 DEF TickStop, Due
  <2>3. Linked = alloc
    BY <1>1 DEF Linked
  <2>4. cur \in Nat /\ \A u \in Timers : expire[u] \in Nat
    BY <1>1 DEF TypeOK
  <2>5. \A t \in alloc : head # NULL /\ head \in alloc /\ expire[head] <= expire[t]
    BY <1>1, <2>3, HeadIsFirst
  <2>6. alloc \subseteq Timers
    BY <1>1 DEF TypeOK
  <2> QED
    BY <2>2, <2>4, <2>5, <2>6
<1>2. TypeOK /\ ListInv /\ [Next]_vars
        => [pc = "tick" /\ pc' = "idle" => \A t \in alloc : expire[t] > cur]_vars
  BY <1>1
<1> QED
  BY <1>2, Invariant, PTL DEF Spec, TickComplete

\* sort_timer_lst implements the queue that fires pending timers in the
\* order of their deadlines and never early.
THEOREM ListImplementsQueue == Spec => ImplementsQueue
<1>1. Init => Queue!Init
  BY DEF Init, Queue!Init
<1>2. ASSUME TypeOK, LoopInv, ListInv, [Next]_vars
      PROVE  [Queue!Next]_<<alloc, expire, fired, now>>
  <2> USE DEF Queue!Next
  <2>1. ASSUME NEW t \in Timers, NEW d \in Delays,
               \/ AddFirst(t, now + d) \/ AddHead(t, now + d)
               \/ AddWalk(t, now + d)
        PROVE  Queue!Start(t)
    <3>1. NewTimer(t, now + d) /\ now' = now /\ now + d \in Nat
      BY <2>1, <1>2, TimeType DEF AddFirst, AddHead, AddWalk
    <3>2. expire'[t] = now + d
      BY <1>2, <3>1 DEF NewTimer, TypeOK
    <3> QED
      BY <3>1, <3>2 DEF NewTimer, Queue!Start, Queue!NewDeadline
  <2>2. ASSUME NEW t \in Timers, NEW d \in Delays,
               \/ AdjustStays(t, now + d) \/ AdjustHead(t, now + d)
               \/ AdjustMiddle(t, now + d)
        PROVE  Queue!Postpone(t)
    <3>1. Extend(t, now + d) /\ UNCHANGED <<alloc, fired, now>> /\ now + d \in Nat
      BY <2>2, <1>2, TimeType DEF AdjustStays, AdjustHead, AdjustMiddle
    <3>2. expire'[t] = now + d
      BY <1>2, <3>1 DEF Extend, TypeOK
    <3> QED
      BY <3>1, <3>2 DEF Extend, Queue!Postpone, Queue!NewDeadline
  <2>3. ASSUME NEW t \in Timers,
               DelOnly(t) \/ DelHead(t) \/ DelTail(t) \/ DelMiddle(t)
        PROVE  Queue!Cancel(t)
    BY <2>3 DEF DelOnly, DelHead, DelTail, DelMiddle, Delete, Queue!Cancel
  <2>4. CASE DestroyStep
    <3>1. head \in alloc /\ head \in Timers
      BY <1>2, <2>4, HeadIsFirst DEF DestroyStep, Linked, TypeOK
    <3>2. Queue!Cancel(head)
      BY <2>4, <3>1 DEF DestroyStep, Queue!Cancel
    <3> QED
      BY <3>1, <3>2
  <2>5. CASE TickFire
    <3>1. pc = "tick" /\ head # NULL /\ cur >= expire[head] /\ Linked = alloc
      BY <2>5 DEF TickFire, Due, Linked
    <3>2. /\ head \in alloc /\ head \in Timers
          /\ \A u \in alloc : expire[head] <= expire[u]
      BY <1>2, <3>1, HeadIsFirst DEF TypeOK
    <3>3. expire[head] <= now
      BY <1>2, <3>1, <3>2 DEF LoopInv, TypeOK
    <3>4. Queue!Fire(head)
      BY <2>5, <3>2, <3>3 DEF TickFire, DropHead, Queue!Fire
    <3> QED
      BY <3>2, <3>4
  <2>6. CASE TimePasses
    BY <2>6 DEF TimePasses, Queue!TimePasses
  <2>7. CASE \/ WalkInsert \/ WalkOn \/ WalkAppend \/ TickStart \/ TickStop
             \/ DestroyStart \/ DestroyEnd \/ UNCHANGED vars
    BY <2>7 DEF WalkInsert, WalkOn, WalkAppend, TickStart, TickStop,
                DestroyStart, DestroyEnd, vars
  <2> QED
    BY <1>2, <2>1, <2>2, <2>3, <2>4, <2>5, <2>6, <2>7 DEF Next, Call, Loop
<1> QED
  BY <1>1, <1>2, Invariant, PTL
     DEF Spec, ImplementsQueue, Queue!Spec, Queue!queueVars

-----------------------------------------------------------------------------
(* NonactiveConnect, the server that keeps such a list of timers, for      *)
(* every set of descriptors, every TIMESLOT and every capacity of the      *)
(* signal pipe.  Where a name is taken above it has another one here.      *)

CONSTANTS Descriptors, TIMESLOT, SigCap, DeletesAdded, AcceptMayFail, Bounds
VARIABLES loop, events, timeout, stop_server, open, timers, time_left, freed, alarm,
          signals, pipe, backlog, unread, fin, err, edges, left, active

N == INSTANCE NonactiveConnect WITH pc <- loop, expire <- time_left

ServerAssumed == N!DescriptorAssumption /\ N!TimeAssumption

\* Of the signals and of the loop.
SignalType ==
    /\ loop \in {"wait", "events", "stopped", "undefined"}
    /\ timeout \in BOOLEAN /\ stop_server \in BOOLEAN
    /\ alarm \in Nat \cup {N!Off}
    /\ signals \in SUBSET N!Signals /\ pipe \in Seq(N!Signals)

\* Of the connections: each has its timer in the list and the other way round,
\* and what is reported belongs to connections that are open.
ConnectionType ==
    /\ open \in SUBSET Descriptors /\ timers = open /\ freed \in SUBSET open
    /\ fin \in SUBSET open /\ err \in SUBSET open
    /\ edges \in SUBSET (open \cup {N!listenfd, N!pipefd})
    /\ events \in SUBSET (open \cup {N!listenfd, N!pipefd})

\* Of the clocks: a timer has at most 3 * TIMESLOT left.
ClockType ==
    /\ time_left \in [Descriptors -> 0 .. 3 * TIMESLOT]
    /\ active \in [Descriptors -> 0 .. 3 * TIMESLOT]

\* Of the data: a listen event that is still to be handled stands for a client.
DataType ==
    /\ unread \in [Descriptors -> Nat] /\ backlog \in Nat
    /\ N!listenfd \in events => backlog > 0

\* A timer that runs out before the last data of its connection would have it
\* belongs to a connection of which an event is still to be handled.
KeepInv ==
    /\ loop = "wait" => events = {}
    /\ N!Running => \A f \in Descriptors : f \in events \/ active[f] <= time_left[f]

\* A set of numbers that is not empty has a smallest: accept returns what is free.
LEMMA FreeDescriptor ==
    ASSUME N!DescriptorAssumption, Descriptors \ open # {}
    PROVE  N!Min(Descriptors \ open) \in Descriptors \ open
<1> DEFINE T == Descriptors \ open
           R == {ss \in Nat \X Nat : ss[1] < ss[2]}
<1>1. T \subseteq Nat /\ T # {}
  BY DEF N!DescriptorAssumption
<1>2. PICK n \in T : \A m \in T : ~(<<m, n>> \in R)
  <2>1. IsWellFoundedOn(R, Nat)
    BY NatLessThanWellFounded DEF OpToRel
  <2> HIDE DEF R, T
  <2> QED
    BY <1>1, <2>1, WFMin
<1>3. \A m \in T : n <= m
  <2> SUFFICES ASSUME NEW m \in T, m < n PROVE FALSE
    BY <1>1
  <2> QED
    BY <1>1, <1>2
<1> HIDE DEF T
<1> QED
  BY <1>2, <1>3 DEF N!Min, T

\* The numbers of the listening socket and of the pipe are no connection's.
LEMMA OtherNumbers ==
    ASSUME N!DescriptorAssumption
    PROVE  /\ N!listenfd \notin Descriptors /\ N!pipefd \notin Descriptors
           /\ N!listenfd # N!pipefd
BY DEF N!DescriptorAssumption, N!listenfd, N!pipefd

\* What main closes is forgotten together: the connection, its timer and what
\* is reported of it.
LEMMA CloseAllTypes ==
    ASSUME ConnectionType, ClockType, DataType, NEW gone \in SUBSET open, N!CloseAll(gone),
           freed = {},
           events \cap gone = {} \/ (\E f \in gone : gone = {f} /\ events' = events \ {f}),
           events' \subseteq events, N!DescriptorAssumption, N!TimeAssumption
    PROVE  ConnectionType' /\ ClockType' /\ DataType'
<1>1. events' \cap gone = {}
  OBVIOUS
<1>2. N!listenfd \notin gone /\ N!pipefd \notin gone
  BY OtherNumbers DEF ConnectionType
<1>3. ConnectionType'
  <2>1. /\ open' = open \ gone /\ timers' = timers \ gone /\ freed' = freed
        /\ fin' = fin \ gone /\ err' = err \ gone /\ edges' = edges \ gone
    BY DEF N!CloseAll
  <2> QED
    BY <1>1, <1>2, <2>1 DEF ConnectionType
<1>4. ClockType'
  <2>1. 0 \in 0 .. 3 * TIMESLOT
    BY DEF N!TimeAssumption
  <2> QED
    BY <2>1 DEF N!CloseAll, ClockType
<1>5. DataType'
  BY DEF N!CloseAll, DataType
<1> QED
  BY <1>3, <1>4, <1>5

\* Only Rearm, sig_handler and ReadSignals write to what SignalType is about.
LEMMA SignalStep ==
    ASSUME N!TimeAssumption, SignalType, [N!Next]_N!vars
    PROVE  SignalType'
<1>1. N!Off = -1 /\ TIMESLOT \in Nat /\ N!Signals = {"ALRM", "TERM"}
  BY DEF N!Off, N!TimeAssumption, N!Signals
<1>2. CASE N!TimePasses
  <2>1. N!OneLess(alarm) \in Nat \cup {N!Off}
    BY <1>1 DEF N!OneLess, SignalType
  <2> QED
    BY <1>2, <2>1 DEF N!TimePasses, SignalType
<1>3. CASE N!AlarmRings \/ N!Terminate
  BY <1>1, <1>3 DEF N!AlarmRings, N!Terminate, SignalType
<1>4. CASE \E sig \in N!Signals : N!SigHandler(sig)
  <2>1. PICK sig \in N!Signals : N!SigHandler(sig)
    BY <1>4
  <2>2. Append(pipe, sig) \in Seq(N!Signals)
    BY DEF SignalType
  <2> QED
    BY <2>1, <2>2 DEF N!SigHandler, SignalType
<1>5. CASE N!ReadSignals
  BY <1>5 DEF N!ReadSignals, N!Handle, SignalType
<1>6. CASE N!NoTimeout \/ N!timer_handler
  BY <1>1, <1>6 DEF N!NoTimeout, N!timer_handler, N!Return, N!Rearm, SignalType,
                    N!signalling
<1>7. CASE \/ N!Connect \/ N!EpollWait \/ N!AcceptFails \/ N!UseFreed \/ N!Accept
           \/ \E f \in Descriptors : N!Say(f) \/ N!Leave(f) \/ N!ReadData(f) \/ N!ReadEnd(f)
  BY <1>7 DEF N!Connect, N!EpollWait, N!AcceptFails, N!UseFreed, N!Accept, N!Say, N!Leave,
              N!ReadData, N!ReadEnd, N!Handle, SignalType, N!signalling
<1>8. CASE UNCHANGED N!vars
  BY <1>8 DEF N!vars, SignalType
<1> QED
  BY <1>2, <1>3, <1>4, <1>5, <1>6, <1>7, <1>8 DEF N!Next, N!Server

\* A timer is added with the connection and deleted with it.
LEMMA TableStep ==
    ASSUME N!DescriptorAssumption, N!TimeAssumption, ConnectionType, ClockType, DataType,
           KeepInv, [N!Next]_N!vars
    PROVE  ConnectionType' /\ ClockType' /\ DataType'
<1>1. CASE N!Connect
  <2>1. ConnectionType' /\ ClockType'
    BY <1>1 DEF N!Connect, ConnectionType, ClockType, N!table
  <2>2. DataType'
    BY <1>1 DEF N!Connect, DataType
  <2> QED
    BY <2>1, <2>2
<1>2. CASE \E f \in Descriptors : N!Say(f) \/ N!Leave(f)
  <2>1. PICK f \in Descriptors : N!Say(f) \/ N!Leave(f)
    BY <1>2
  <2>2. ConnectionType' /\ ClockType'
    BY <2>1 DEF N!Say, N!Leave, ConnectionType, ClockType, N!table
  <2>3. DataType'
    BY <2>1 DEF N!Say, N!Leave, DataType
  <2> QED
    BY <2>2, <2>3
<1>3. CASE N!TimePasses
  <2>1. \A n \in 0 .. 3 * TIMESLOT : N!OneLess(n) \in 0 .. 3 * TIMESLOT
    BY DEF N!OneLess, N!TimeAssumption
  <2>2. ClockType'
    BY <1>3, <2>1 DEF N!TimePasses, ClockType
  <2> QED
    BY <1>3, <2>2 DEF N!TimePasses, ConnectionType, DataType, N!network
<1>4. CASE N!AlarmRings \/ N!Terminate
  BY <1>4 DEF N!AlarmRings, N!Terminate, ConnectionType, ClockType, DataType, N!table,
              N!network
<1>5. CASE \E sig \in N!Signals : N!SigHandler(sig)
  BY <1>5 DEF N!SigHandler, ConnectionType, ClockType, DataType, N!table, N!network
<1>6. CASE N!EpollWait
  <2>1. ConnectionType'
    <3>1. events' \subseteq edges /\ edges' = {} /\ UNCHANGED <<open, timers, freed, fin, err>>
      BY <1>6 DEF N!EpollWait, N!table, N!network
    <3> QED
      BY <3>1 DEF ConnectionType
  <2>2. ClockType'
    <3>1. 3 * TIMESLOT \in 0 .. 3 * TIMESLOT
      BY DEF N!TimeAssumption
    <3> QED
      BY <1>6, <3>1 DEF N!EpollWait, ClockType, N!table
  <2>3. DataType'
    <3>1. /\ UNCHANGED <<unread, backlog>>
          /\ N!listenfd \in events' => N!Readable(N!listenfd)
      BY <1>6 DEF N!EpollWait, N!network
    <3>2. N!Readable(N!listenfd) => backlog > 0
      BY DEF N!Readable, N!listenfd, N!pipefd
    <3> QED
      BY <3>1, <3>2 DEF DataType
  <2> QED
    BY <2>1, <2>2, <2>3
<1>7. CASE N!AcceptFails \/ N!UseFreed
  BY <1>7 DEF N!AcceptFails, N!UseFreed, N!Handle, ConnectionType, ClockType, DataType,
              N!table, N!network
<1>8. CASE N!ReadSignals \/ N!NoTimeout
  BY <1>8 DEF N!ReadSignals, N!NoTimeout, N!Handle, ConnectionType, ClockType, DataType,
              N!table, N!network
<1>9. CASE N!timer_handler
  <2>1. N!Due \in SUBSET open /\ events = {} /\ events' = events /\ N!CloseAll(N!Due)
        /\ freed = {}
    BY <1>9 DEF N!timer_handler, N!Due, N!LoopOver, ConnectionType
  <2> QED
    BY <2>1, CloseAllTypes
<1>10. CASE N!Accept
  <2> DEFINE connfd == N!Min(Descriptors \ open)
  <2>1. connfd \in Descriptors \ open
    BY <1>10, FreeDescriptor DEF N!Accept
  <2>2. open' = open \cup {connfd} /\ timers' = timers \cup {connfd}
        /\ freed' \in SUBSET {connfd} /\ UNCHANGED <<fin, err, edges>>
        /\ events' = events \ {N!listenfd} /\ backlog' = backlog - 1 /\ N!listenfd \in events
    BY <1>10 DEF N!Accept, N!Handle
  <2>3. /\ time_left' = [time_left EXCEPT ![connfd] = 3 * TIMESLOT]
        /\ unread' = [unread EXCEPT ![connfd] = 0] /\ active' = active
    BY <1>10 DEF N!Accept
  <2> HIDE DEF connfd
  <2>4. ConnectionType'
    BY <2>1, <2>2 DEF ConnectionType
  <2>5. 3 * TIMESLOT \in 0 .. 3 * TIMESLOT
    BY DEF N!TimeAssumption
  <2>6. ClockType' /\ DataType'
    BY <2>1, <2>2, <2>3, <2>5 DEF ClockType, DataType
  <2> QED
    BY <2>4, <2>6
<1>11. CASE \E f \in Descriptors : N!ReadData(f)
  <2>1. PICK f \in Descriptors : N!ReadData(f)
    BY <1>11
  <2>2. ConnectionType'
    BY <2>1 DEF N!ReadData, N!Handle, ConnectionType
  <2>3. 3 * TIMESLOT \in 0 .. 3 * TIMESLOT
    BY DEF N!TimeAssumption
  <2>4. ClockType'
    BY <2>1, <2>3 DEF N!ReadData, ClockType
  <2>5. DataType'
    <3>1. PICK rest \in 0 .. unread[f] - 1 : unread' = [unread EXCEPT ![f] = rest]
      BY <2>1 DEF N!ReadData
    <3> QED
      BY <2>1, <3>1 DEF N!ReadData, N!Handle, DataType
  <2> QED
    BY <2>2, <2>4, <2>5
<1>12. CASE \E f \in Descriptors : N!ReadEnd(f)
  <2>1. PICK f \in Descriptors : N!ReadEnd(f)
    BY <1>12
  <2>2. f \in open /\ events' = events \ {f} /\ N!CloseAll({f}) /\ freed = {}
    BY <2>1, OtherNumbers DEF N!ReadEnd, N!Handle, ConnectionType
  <2> QED
    BY <2>2, CloseAllTypes
<1>13. CASE UNCHANGED N!vars
  BY <1>13 DEF N!vars, ConnectionType, ClockType, DataType
<1> QED
  BY <1>1, <1>2, <1>3, <1>4, <1>5, <1>6, <1>7, <1>8, <1>9, <1>10, <1>11, <1>12, <1>13
     DEF N!Next, N!Server

\* ReadData sets the timer anew before timer_handler is called: it runs behind
\* the loop over the events, when none is left.
LEMMA KeepStep ==
    ASSUME N!DescriptorAssumption, N!TimeAssumption, ConnectionType, ClockType,
           KeepInv, [N!Next]_N!vars
    PROVE  KeepInv'
<1> SUFFICES /\ loop' = "wait" => events' = {}
             /\ N!Running' => \A f \in Descriptors : f \in events' \/ active'[f] <= time_left'[f]
  BY DEF KeepInv
<1>c. /\ \A f \in Descriptors : /\ time_left[f] \in 0 .. 3 * TIMESLOT
                              /\ active[f] \in 0 .. 3 * TIMESLOT
      /\ 3 * TIMESLOT \in Nat
  BY DEF ClockType, N!TimeAssumption
<1>1. CASE \/ N!Connect \/ N!Terminate \/ N!AlarmRings
           \/ \E f \in Descriptors : N!Say(f) \/ N!Leave(f)
           \/ \E sig \in N!Signals : N!SigHandler(sig)
  BY <1>1 DEF N!Connect, N!Terminate, N!AlarmRings, N!Say, N!Leave, N!SigHandler,
              KeepInv, N!Running, N!table
<1>2. CASE N!TimePasses
  <2>1. \A m, n \in 0 .. 3 * TIMESLOT : m <= n => N!OneLess(m) <= N!OneLess(n)
    BY <1>c DEF N!OneLess
  <2>2. ASSUME NEW f \in Descriptors
        PROVE  f \in events \/ N!OneLess(active[f]) <= N!OneLess(time_left[f])
    BY <1>2, <1>c, <2>1 DEF KeepInv, N!TimePasses
  <2> QED
    BY <1>2, <2>2 DEF N!TimePasses, KeepInv
<1>3. CASE N!EpollWait
  <2>1. loop' = "events" /\ time_left' = time_left /\ loop = "wait"
    BY <1>3 DEF N!EpollWait, N!table
  <2>2. ASSUME NEW f \in Descriptors, f \notin events'
        PROVE  active'[f] = active[f]
    BY <1>3, <2>2 DEF N!EpollWait
  <2> QED
    BY <2>1, <2>2 DEF KeepInv, N!Running
<1>4. CASE N!AcceptFails \/ N!UseFreed
  BY <1>4 DEF N!AcceptFails, N!UseFreed, N!Running
<1>5. CASE N!ReadSignals
  <2>1. N!pipefd \notin Descriptors
    BY OtherNumbers
  <2> QED
    BY <1>5, <2>1 DEF N!ReadSignals, N!Handle, KeepInv, N!Running, N!table
<1>6. CASE N!NoTimeout
  BY <1>6 DEF N!NoTimeout, N!LoopOver, KeepInv, N!Running, N!table
<1>7. CASE N!timer_handler
  <2>1. events' = {} /\ N!CloseAll(N!Due) /\ events = {} /\ N!Running
    BY <1>7 DEF N!timer_handler, N!LoopOver, N!Running
  <2>2. ASSUME NEW f \in Descriptors PROVE active'[f] <= time_left'[f]
    BY <1>c, <2>1 DEF N!CloseAll, KeepInv
  <2> QED
    BY <2>1, <2>2
<1>8. CASE N!Accept
  <2> DEFINE connfd == N!Min(Descriptors \ open)
  <2>1. /\ loop = "events" /\ loop' = loop /\ events' = events \ {N!listenfd} /\ active' = active
        /\ time_left' = [time_left EXCEPT ![connfd] = 3 * TIMESLOT]
    BY <1>8 DEF N!Accept, N!Handle
  <2> HIDE DEF connfd
  <2>2. ASSUME NEW f \in Descriptors, f \notin events'
        PROVE  active'[f] <= time_left'[f]
    <3>1. f # N!listenfd /\ time_left'[f] \in {time_left[f], 3 * TIMESLOT}
      BY <2>1, OtherNumbers DEF ClockType
    <3> QED
      BY <1>c, <2>1, <2>2, <3>1 DEF KeepInv, N!Running
  <2> QED
    BY <2>1, <2>2
<1>9. CASE \E g \in Descriptors : N!ReadData(g)
  <2>1. PICK g \in Descriptors : N!ReadData(g)
    BY <1>9
  <2>2. /\ loop = "events" /\ loop' = loop /\ events' = events \ {g} /\ active' = active
        /\ time_left' = [time_left EXCEPT ![g] = 3 * TIMESLOT]
    BY <2>1 DEF N!ReadData, N!Handle
  <2>3. ASSUME NEW f \in Descriptors, f \notin events'
        PROVE  active'[f] <= time_left'[f]
    <3>1. time_left'[f] = IF f = g THEN 3 * TIMESLOT ELSE time_left[f]
      BY <2>2 DEF ClockType
    <3> QED
      BY <1>c, <2>2, <2>3, <3>1 DEF KeepInv, N!Running
  <2> QED
    BY <2>2, <2>3
<1>10. CASE \E g \in Descriptors : N!ReadEnd(g)
  <2>1. PICK g \in Descriptors : N!ReadEnd(g)
    BY <1>10
  <2>2. loop = "events" /\ loop' = loop /\ events' = events \ {g} /\ N!CloseAll({g})
    BY <2>1 DEF N!ReadEnd, N!Handle
  <2>3. ASSUME NEW f \in Descriptors, f \notin events'
        PROVE  active'[f] <= time_left'[f]
    BY <1>c, <2>2, <2>3 DEF N!CloseAll, KeepInv, N!Running
  <2> QED
    BY <2>2, <2>3
<1>11. CASE UNCHANGED N!vars
  BY <1>11 DEF N!vars, KeepInv, N!Running
<1> QED
  BY <1>1, <1>2, <1>3, <1>4, <1>5, <1>6, <1>7, <1>8, <1>9, <1>10, <1>11 DEF N!Next, N!Server

\* The alarm stays somewhere on its way: sig_handler drops it only if the pipe
\* holds a byte already, and main looks at all there is in the pipe.
LEMMA AlarmStep ==
    ASSUME N!TimeAssumption, SignalType, N!AlarmAlive, [N!Next]_N!vars
    PROVE  N!AlarmAlive'
<1>c. N!Off = -1 /\ TIMESLOT \in Nat /\ SigCap \in Nat \ {0} /\ N!Signals = {"ALRM", "TERM"}
  BY DEF N!Off, N!TimeAssumption, N!Signals
<1>1. CASE \/ N!Connect \/ \E f \in Descriptors : N!Say(f) \/ N!Leave(f)
           \/ N!EpollWait \/ N!NoTimeout \/ N!AcceptFails \/ N!UseFreed \/ N!Accept
           \/ \E f \in Descriptors : N!ReadData(f) \/ N!ReadEnd(f)
  <2>1. /\ UNCHANGED <<alarm, signals, pipe, timeout, stop_server>>
        /\ N!Running' => N!Running
    BY <1>1 DEF N!Connect, N!Say, N!Leave, N!EpollWait, N!NoTimeout, N!AcceptFails,
                N!UseFreed,
         N!Accept, N!ReadData, N!ReadEnd, N!Handle, N!LoopOver, N!Running, N!signalling
  <2> QED
    BY <2>1 DEF N!AlarmAlive
<1>2. CASE N!Terminate
  BY <1>2 DEF N!Terminate, N!AlarmAlive, N!Running
<1>3. CASE N!TimePasses
  <2>1. alarm # N!Off => N!OneLess(alarm) # N!Off
    BY <1>c DEF SignalType, N!OneLess
  <2> QED
    BY <1>3, <2>1 DEF N!TimePasses, N!AlarmAlive, N!Running
<1>4. CASE N!AlarmRings
  BY <1>4 DEF N!AlarmRings, N!AlarmAlive
<1>5. CASE \E sig \in N!Signals : N!SigHandler(sig)
  <2>1. PICK sig \in N!Signals : N!SigHandler(sig)
    BY <1>5
  <2>2. \E k \in DOMAIN pipe' : pipe'[k] \in {"ALRM", "TERM"}
    <3>1. CASE Len(pipe) < SigCap
      <4>1. pipe' = Append(pipe, sig) /\ pipe \in Seq(N!Signals)
        BY <2>1, <3>1 DEF N!SigHandler, SignalType
      <4>2. Len(pipe) + 1 \in DOMAIN pipe' /\ pipe'[Len(pipe) + 1] = sig
        BY <4>1
      <4> QED
        BY <1>c, <4>2
    <3>2. CASE ~(Len(pipe) < SigCap)
      <4>1. pipe' = pipe /\ pipe \in Seq(N!Signals)
        BY <2>1, <3>2 DEF N!SigHandler, SignalType
      <4>2. 1 \in DOMAIN pipe /\ pipe[1] \in N!Signals
        BY <1>c, <3>2, <4>1
      <4> QED
        BY <1>c, <4>1, <4>2
    <3> QED
      BY <3>1, <3>2
  <2> QED
    BY <2>2 DEF N!AlarmAlive
<1>6. CASE N!ReadSignals
  <2>1. /\ \A k \in DOMAIN pipe : pipe[k] \in N!Signalled
        /\ timeout' = (timeout \/ "ALRM" \in N!Signalled)
        /\ stop_server' = (stop_server \/ "TERM" \in N!Signalled)
        /\ UNCHANGED <<loop, alarm, signals>>
    BY <1>6 DEF N!ReadSignals, N!Signalled, N!ToSet
  <2> QED
    BY <2>1 DEF N!AlarmAlive, N!Running
<1>7. CASE N!timer_handler
  BY <1>c, <1>7 DEF N!timer_handler, N!Rearm, N!AlarmAlive
<1>8. CASE UNCHANGED N!vars
  BY <1>8 DEF N!vars, N!AlarmAlive, N!Running
<1> QED
  BY <1>1, <1>2, <1>3, <1>4, <1>5, <1>6, <1>7, <1>8 DEF N!Next, N!Server

\* The inductive invariant.
ServerInv == SignalType /\ ConnectionType /\ ClockType /\ DataType /\ KeepInv /\ N!AlarmAlive

\* It holds in every behaviour of the server.
LEMMA NonactiveInvariant == ServerAssumed => (N!Spec => []ServerInv)
<1> SUFFICES ASSUME ServerAssumed PROVE N!Spec => []ServerInv
  OBVIOUS
<1>0. N!DescriptorAssumption /\ N!TimeAssumption
  BY DEF ServerAssumed
<1>1. N!Init => ServerInv
  <2> SUFFICES ASSUME N!Init PROVE ServerInv
    OBVIOUS
  <2>1. SignalType
    <3>1. pipe \in Seq(N!Signals) /\ alarm \in Nat
      BY <1>0 DEF N!Init, N!TimeAssumption
    <3>2. timeout = FALSE /\ stop_server = FALSE /\ loop = "wait" /\ signals = {}
      BY DEF N!Init
    <3> QED
      BY <3>1, <3>2 DEF SignalType
  <2>2. ConnectionType /\ DataType
    BY DEF N!Init, ConnectionType, DataType
  <2>3. ClockType /\ KeepInv
    <3>1. 0 \in 0 .. 3 * TIMESLOT
      BY <1>0 DEF N!TimeAssumption
    <3> QED
      BY <3>1 DEF N!Init, ClockType, KeepInv
  <2>4. N!AlarmAlive
    BY <1>0 DEF N!Init, N!AlarmAlive, N!TimeAssumption, N!Off
  <2> QED
    BY <2>1, <2>2, <2>3, <2>4 DEF ServerInv
<1>2. ServerInv /\ [N!Next]_N!vars => ServerInv'
  BY <1>0, SignalStep, TableStep, KeepStep, AlarmStep DEF ServerInv
<1> QED
  BY <1>1, <1>2, PTL DEF N!Spec

\* AlarmAlive holds of the server: while it runs, the next SIGALRM is set,
\* pending, on its way through the pipe, or known to main, which sets the next.
THEOREM AlarmStaysAlive == ServerAssumed => (N!Spec => []N!AlarmAlive)
<1>1. ServerInv => N!AlarmAlive
  BY DEF ServerInv
<1> QED
  BY <1>1, NonactiveInvariant, PTL

\* ActiveKept holds of the server: timer_handler closes no connection of whose
\* data epoll_wait has reported less than 3 * TIMESLOT ago.
THEOREM ActiveStaysOpen == ServerAssumed => (N!Spec => N!ActiveKept)
<1> DEFINE Kept == timeout /\ ~timeout' => \A f \in open \ open' : active[f] = 0
<1>1. ServerInv /\ [N!Next]_N!vars => [Kept]_N!vars
  <2> SUFFICES ASSUME ServerInv, N!Next, timeout, ~timeout', NEW f \in open \ open'
               PROVE  active[f] = 0
    OBVIOUS
  <2>1. N!timer_handler
    BY DEF N!Next, N!Server, N!Connect, N!Terminate, N!Say, N!Leave, N!TimePasses,
           N!AlarmRings,
           N!SigHandler, N!EpollWait, N!AcceptFails, N!ReadSignals, N!NoTimeout, N!UseFreed,
           N!Accept, N!ReadData, N!ReadEnd
  <2>2. f \in N!Due /\ events = {} /\ N!Running
    BY <2>1 DEF N!timer_handler, N!CloseAll, N!LoopOver, N!Running
  <2>3. /\ time_left[f] = 0 /\ active[f] <= time_left[f] /\ f \in Descriptors
        /\ active[f] \in Nat
    BY <2>2 DEF N!Due, ServerInv, KeepInv, ConnectionType, ClockType
  <2> QED
    BY <2>3
<1> QED
  BY <1>1, NonactiveInvariant, PTL DEF N!Spec, N!ActiveKept
=============================================================================
