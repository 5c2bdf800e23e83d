---------------------------- MODULE TimeHeapProofs ----------------------------
(***************************************************************************)
(* Proofs about TimeHeap, for every set of timers, every capacity, every   *)
(* choice of delays and every bound of the clock.                          *)
(*                                                                         *)
(* HeapOrder says nothing of the states inside a percolation, so it is not *)
(* inductive.  Ordered is: with the hole filled by temp every timer but    *)
(* those at the hole is in order, and the hole may be skipped, that is,    *)
(* its parent is not due after its children.                               *)
(***************************************************************************)
EXTENDS TimeHeap, TLAPS, WellFoundedInduction

USE TimersAssumption, CapAssumption, TimeAssumption, ResizeAssumption

-----------------------------------------------------------------------------
\* What the control states know of hole, temp, i, cur and the callbacks.
Shape ==
    /\ pc \in {"up", "down"} => hole \in 0 .. cur_size - 1 /\ temp \in Timers
    /\ pc = "build" \/ (pc = "down" /\ after = "build") =>
          cur_size > 0 /\ i <= cur_size - 1
    /\ pc = "destroy" => i >= 0
    /\ pc = "tick" \/ (pc = "down" /\ after = "tick") => cur <= now
    /\ pc # "undefined" => cb_func \subseteq alloc

\* The elements below which the constructor has not yet come.
Lowest == IF pc = "build" \/ (pc = "down" /\ after = "build") THEN i + 1 ELSE 0

Open(k) == (pc = "down" /\ Parent(k) = hole) \/ (pc = "up" /\ k = hole)

Ordered ==
    pc \notin {"destroy", "gone", "undefined"} =>
        /\ \A k \in 1 .. cur_size - 1 :
             Parent(k) >= Lowest /\ ~Open(k) =>
                expire[Filled[Parent(k)]] <= expire[Filled[k]]
        /\ pc \in {"up", "down"} /\ hole > 0 /\ Parent(hole) >= Lowest =>
             \A k \in 1 .. cur_size - 1 :
                 Parent(k) = hole => expire[Filled[Parent(hole)]] <= expire[Filled[k]]

IInv == TypeOK /\ Shape /\ EachOnce /\ Ordered

-----------------------------------------------------------------------------
(* Parents and children.                                                   *)

LEMMA ParentOf ==
    ASSUME NEW k \in Nat, k > 0
    PROVE  /\ Parent(k) \in Nat /\ Parent(k) < k
           /\ k = 2 * Parent(k) + 1 \/ k = 2 * Parent(k) + 2
  BY DEF Parent

LEMMA ParentIs ==
    ASSUME NEW k \in Nat, k > 0, NEW h \in Nat
    PROVE  Parent(k) = h <=> k = 2 * h + 1 \/ k = 2 * h + 2
  BY DEF Parent

LEMMA Below ==
    ASSUME NEW k \in Nat, NEW n \in Nat, k + 1 <= n
    PROVE  k \in 0 .. n - 1
  OBVIOUS

\* The child that percolate_down chooses is due before its sibling.
LEMMA ChildIsLeast ==
    ASSUME TypeOK, hole \in 0 .. cur_size - 1, HasChild
    PROVE  /\ Child \in 1 .. cur_size - 1 /\ Parent(Child) = hole /\ Child # hole
           /\ \A k \in 1 .. cur_size - 1 :
                Parent(k) = hole => expire[array[Child]] <= expire[array[k]]
<1>1. cur_size \in Nat /\ hole \in Nat
  BY DEF TypeOK
<1>2. \A k \in 0 .. cur_size - 1 : array[k] \in Timers /\ expire[array[k]] \in Nat
  BY DEF TypeOK
<1>3. \/ Child = hole * 2 + 1
      \/ Child = hole * 2 + 2 /\ Child <= cur_size - 1
  BY <1>1 DEF Child
<1>4. Child \in 1 .. cur_size - 1 /\ Child # hole
  BY <1>1, <1>3 DEF HasChild
<1>5. Parent(Child) = hole
  BY <1>1, <1>3, <1>4, ParentIs
<1>6. ASSUME NEW k \in 1 .. cur_size - 1, Parent(k) = hole
      PROVE  expire[array[Child]] <= expire[array[k]]
  <2>1. k = hole * 2 + 1 \/ k = hole * 2 + 2
    BY <1>1, <1>6, ParentIs
  <2>2. HasChild /\ hole * 2 + 1 \in 0 .. cur_size - 1
    BY <1>1 DEF HasChild
  <2>3. CASE hole * 2 + 1 < cur_size - 1
    <3>1. hole * 2 + 1 + 1 = hole * 2 + 2 /\ hole * 2 + 2 \in 0 .. cur_size - 1
      BY <1>1, <2>3
    <3> QED
      BY <1>2, <2>1, <2>2, <2>3, <3>1 DEF Child
  <2>4. CASE ~(hole * 2 + 1 < cur_size - 1)
    BY <1>1, <1>2, <2>1, <2>2, <2>4 DEF Child
  <2> QED
    BY <2>3, <2>4
<1> QED
  BY <1>4, <1>5, <1>6

-----------------------------------------------------------------------------
(* The steps.                                                              *)

LEMMA HeapInit == Init => IInv
<1> SUFFICES ASSUME Init PROVE IInv
  OBVIOUS
<1>1. /\ cur_size \in Nat /\ cur_size <= Cap /\ capacity = Cap
      /\ \A k \in 0 .. cur_size - 1 : array[k] \in Timers
  BY DEF Init
<1>2. /\ cur_size = 0 => i = -1 /\ pc = "idle"
      /\ cur_size > 0 => i = (cur_size - 1) \div 2 /\ pc = "build"
                            /\ i \in 0 .. cur_size - 1
  BY <1>1 DEF Init
<1>3. alloc \subseteq Timers
  BY <1>1 DEF Init
<1>4. TypeOK
  <2>1. expire \in [Timers -> Nat]
    BY DEF Init
  <2>2. pc \in {"build", "idle"} /\ i \in -1 .. capacity
    BY <1>1, <1>2 DEF Init
  <2> QED
    BY <1>1, <1>3, <2>1, <2>2 DEF Init, TypeOK
<1>5. Shape
  BY <1>1, <1>2 DEF Init, Shape
<1>6. EachOnce
  BY <1>2 DEF Init, EachOnce, Filled
<1>7. Ordered
  <2> SUFFICES ASSUME NEW k \in 1 .. cur_size - 1, Parent(k) >= Lowest PROVE FALSE
    BY <1>1, <1>2 DEF Ordered
  <2>1. pc = "build" /\ Lowest = (cur_size - 1) \div 2 + 1
    BY <1>1, <1>2 DEF Lowest
  <2>2. k \in Nat /\ k > 0 /\ k <= cur_size - 1
    BY <1>1
  <2> QED
    BY <1>1, <2>1, <2>2 DEF Parent
<1> QED
  BY <1>4, <1>5, <1>6, <1>7 DEF IInv

LEMMA BuildStep == IInv /\ Build => IInv'
<1> SUFFICES ASSUME IInv, Build PROVE IInv'
  OBVIOUS
<1>1. /\ cur_size \in Nat /\ cur_size > 0 /\ i \in 0 .. cur_size - 1
      /\ cur_size <= capacity /\ capacity \in Nat /\ array[i] \in Timers
  BY DEF IInv, TypeOK, Shape, Build
<1>2. TypeOK'
  BY <1>1 DEF IInv, TypeOK, Build, StartDown, timers
<1>3. Shape'
  BY <1>1 DEF IInv, Shape, Build, StartDown, timers
<1>4. Filled' = Filled
  BY DEF Build, StartDown, Filled
<1>5. EachOnce'
  BY <1>4 DEF IInv, EachOnce, Build, StartDown, timers
<1>6. Ordered'
  <2>1. Lowest' = i /\ Lowest = i + 1 /\ hole' = i
    BY <1>1 DEF Build, StartDown, Lowest
  <2>2. ~(Parent(hole') >= Lowest' /\ hole' > 0)
    BY <1>1, <2>1, ParentOf
  <2>3. ASSUME NEW k \in 1 .. cur_size - 1, Parent(k) >= i, Parent(k) # i
        PROVE  expire[Filled[Parent(k)]] <= expire[Filled[k]]
    <3>1. Parent(k) >= Lowest /\ ~Open(k)
      BY <1>1, <2>1, <2>3, ParentOf DEF Open, Build
    <3> QED
      BY <3>1 DEF IInv, Ordered, Build
  <2> QED
    BY <1>4, <2>1, <2>2, <2>3 DEF Ordered, Open, Build, StartDown, timers
<1> QED
  BY <1>2, <1>3, <1>5, <1>6 DEF IInv

LEMMA BuildEndStep == IInv /\ BuildEnd => IInv'
<1> SUFFICES ASSUME IInv, BuildEnd PROVE IInv'
  OBVIOUS
<1>1. i = -1
  BY DEF IInv, TypeOK, BuildEnd
<1>2. TypeOK' /\ Shape'
  BY DEF IInv, TypeOK, Shape, BuildEnd, heap, timers, locals
<1>3. Filled' = Filled
  BY DEF BuildEnd, Filled, heap, locals
<1>4. EachOnce'
  BY <1>3 DEF IInv, EachOnce, BuildEnd, heap, timers
<1>5. Ordered'
  BY <1>1, <1>3 DEF IInv, Ordered, Lowest, Open, BuildEnd, heap, timers, locals
<1> QED
  BY <1>2, <1>4, <1>5 DEF IInv

-----------------------------------------------------------------------------
(* The percolations: a step of the hole exchanges two elements, the last   *)
(* one leaves all where they are.                                          *)

\* hole and k change places.
Exchanged(k) ==
    /\ cur_size' = cur_size /\ hole' = k /\ temp' = temp /\ pc' = pc
    /\ array' = [array EXCEPT ![hole] = array[k]]

LEMMA ExchangeFills ==
    ASSUME TypeOK, Shape, pc \in {"up", "down"},
           NEW p \in 0 .. cur_size - 1, p # hole, Exchanged(p)
    PROVE  Filled' = [Filled EXCEPT ![hole] = Filled[p], ![p] = Filled[hole]]
<1>1. hole \in 0 .. cur_size - 1
  BY DEF Shape
<1>2. /\ Filled[hole] = temp /\ Filled[p] = array[p]
      /\ array \in [0 .. cur_size - 1 -> Timers]
  BY <1>1 DEF Filled, TypeOK
<1>3. \A k \in 0 .. cur_size - 1 :
        Filled'[k] = IF k = p THEN temp ELSE IF k = hole THEN array[p] ELSE array[k]
  BY <1>1, <1>2 DEF Filled, Exchanged
<1>4. \A k \in 0 .. cur_size - 1 : k # hole => Filled[k] = array[k]
  BY DEF Filled
<1> QED
  BY <1>1, <1>2, <1>3, <1>4 DEF Filled, Exchanged

\* Exchanging two elements of a function keeps what it holds, each once.
LEMMA ExchangeKeeps ==
    ASSUME NEW n \in Nat, NEW S, NEW F \in [0 .. n - 1 -> S], NEW A,
           \A k, l \in 0 .. n - 1 : F[k] = F[l] => k = l,
           {F[k] : k \in 0 .. n - 1} = A,
           NEW h \in 0 .. n - 1, NEW p \in 0 .. n - 1, h # p,
           NEW G, G = [F EXCEPT ![h] = F[p], ![p] = F[h]]
    PROVE  /\ \A k, l \in 0 .. n - 1 : G[k] = G[l] => k = l
           /\ {G[k] : k \in 0 .. n - 1} = A
<1>1. G[h] = F[p] /\ G[p] = F[h]
  OBVIOUS
<1>2. \A k \in 0 .. n - 1 : k # h /\ k # p => G[k] = F[k]
  OBVIOUS
<1>3. \A k, l \in 0 .. n - 1 : G[k] = G[l] => k = l
  BY <1>1, <1>2
<1>4. \A k \in 0 .. n - 1 : G[k] \in A
  BY <1>1, <1>2
<1>5. \A t \in A : \E k \in 0 .. n - 1 : G[k] = t
  BY <1>1, <1>2
<1> QED
  BY <1>3, <1>4, <1>5

LEMMA ExchangeKeepsEach ==
    ASSUME TypeOK, Shape, EachOnce, pc \in {"up", "down"},
           NEW p \in 0 .. cur_size - 1, p # hole, Exchanged(p), alloc' = alloc
    PROVE  EachOnce'
<1>1. cur_size \in Nat /\ hole \in 0 .. cur_size - 1
  BY DEF TypeOK, Shape
<1>2. Filled \in [0 .. cur_size - 1 -> Timers]
  BY DEF Filled, TypeOK, Shape
<1>3. /\ \A k, l \in 0 .. cur_size - 1 : Filled[k] = Filled[l] => k = l
      /\ {Filled[k] : k \in 0 .. cur_size - 1} = alloc
  BY DEF EachOnce
<1>4. Filled' = [Filled EXCEPT ![hole] = Filled[p], ![p] = Filled[hole]]
  BY ExchangeFills
<1>5. /\ \A k, l \in 0 .. cur_size - 1 : Filled'[k] = Filled'[l] => k = l
      /\ {Filled'[k] : k \in 0 .. cur_size - 1} = alloc
  BY <1>1, <1>2, <1>3, <1>4, ExchangeKeeps
<1> QED
  BY <1>5 DEF EachOnce, Exchanged

LEMMA DownMoveStep == IInv /\ DownMove => IInv'
<1> SUFFICES ASSUME IInv, DownMove PROVE IInv'
  OBVIOUS
<1>1. /\ pc = "down" /\ cur_size \in Nat /\ cur_size <= capacity /\ capacity \in Nat
      /\ hole \in 0 .. cur_size - 1 /\ hole \in Nat /\ temp \in Timers
      /\ \A k \in 0 .. cur_size - 1 : array[k] \in Timers
      /\ \A t \in Timers : expire[t] \in Nat
  BY DEF IInv, TypeOK, Shape, DownMove
<1> DEFINE c == Child
<1>2. /\ c \in 1 .. cur_size - 1 /\ Parent(c) = hole /\ c # hole
      /\ \A k \in 1 .. cur_size - 1 :
            Parent(k) = hole => expire[array[c]] <= expire[array[k]]
  BY <1>1, ChildIsLeast DEF IInv, DownMove
<1>3. Exchanged(c) /\ UNCHANGED <<expire, alloc, after, i>>
  BY DEF DownMove, Exchanged, timers
<1>4. expire[array[c]] < expire[temp]
  BY DEF DownMove
<1> HIDE DEF c
<1>5. TypeOK'
  BY <1>1, <1>2, <1>3 DEF IInv, TypeOK, DownMove, Exchanged, timers
<1>6. Shape'
  BY <1>1, <1>2, <1>3 DEF IInv, Shape, DownMove, Exchanged, timers
<1>7. EachOnce'
  BY <1>1, <1>2, <1>3, ExchangeKeepsEach DEF IInv
<1>8. Ordered'
  <2>1. Filled' = [Filled EXCEPT ![hole] = Filled[c], ![c] = Filled[hole]]
    BY <1>1, <1>2, <1>3, ExchangeFills DEF IInv
  <2>2. /\ Filled[hole] = temp
        /\ \A k \in 0 .. cur_size - 1 : k # hole => Filled[k] = array[k]
        /\ Filled \in [0 .. cur_size - 1 -> Timers]
    BY <1>1 DEF Filled
  <2>3. Lowest' = Lowest /\ Lowest \in Int
    BY <1>1, <1>3 DEF Lowest, Exchanged, IInv, TypeOK
  <2>4. \A k \in 1 .. cur_size - 1 :
          /\ k \in Nat /\ Parent(k) \in 0 .. cur_size - 1 /\ Parent(k) # k
          /\ Parent(k) < k
    BY <1>1, ParentOf
  <2>5. /\ Filled'[hole] = array[c] /\ Filled'[c] = temp /\ Filled[c] = array[c]
        /\ \A k \in 0 .. cur_size - 1 : k # hole /\ k # c => Filled'[k] = Filled[k]
    <3>1. c \in 0 .. cur_size - 1 /\ hole \in 0 .. cur_size - 1 /\ c # hole
      BY <1>1, <1>2
    <3>2. Filled[c] = array[c] /\ Filled[hole] = temp
      BY <2>2, <3>1
    <3>3. Filled'[hole] = Filled[c] /\ Filled'[c] = Filled[hole]
      BY <2>1, <2>2, <3>1
    <3>4. \A k \in 0 .. cur_size - 1 : k # hole /\ k # c => Filled'[k] = Filled[k]
      BY <2>1, <2>2, <3>1
    <3> QED
      BY <3>2, <3>3, <3>4
  <2>6. ASSUME NEW k \in 1 .. cur_size - 1, Parent(k) >= Lowest, Parent(k) # c
        PROVE  expire[Filled'[Parent(k)]] <= expire[Filled'[k]]
    <3>1. CASE k = c
      BY <1>1, <1>2, <1>4, <2>5, <3>1
    <3>2. CASE k # c /\ Parent(k) = hole
      BY <1>2, <2>2, <2>4, <2>5, <3>2
    <3>3. CASE k = hole
      <4>1. expire[Filled[Parent(hole)]] <= expire[Filled[c]]
        BY <1>1, <1>2, <2>6, <3>3 DEF IInv, Ordered
      <4> QED
        BY <2>4, <2>5, <2>6, <3>3, <4>1
    <3>4. CASE k # c /\ Parent(k) # hole /\ k # hole
      <4>1. ~Open(k)
        BY <1>1, <3>4 DEF Open
      <4>2. expire[Filled[Parent(k)]] <= expire[Filled[k]]
        BY <1>1, <2>6, <4>1 DEF IInv, Ordered
      <4> QED
        BY <2>4, <2>5, <2>6, <3>4, <4>2
    <3> QED
      BY <3>1, <3>2, <3>3, <3>4
  <2>7. ASSUME NEW k \in 1 .. cur_size - 1, Parent(k) = c, hole >= Lowest
        PROVE  expire[Filled'[hole]] <= expire[Filled'[k]]
    <3>1. c \in Nat /\ hole < c /\ k # c /\ k # hole
      BY <1>1, <1>2, <2>4, <2>7
    <3>2. ~Open(k) /\ Parent(k) >= Lowest
      BY <1>1, <1>2, <2>3, <2>7, <3>1 DEF Open
    <3>3. expire[Filled[c]] <= expire[Filled[k]]
      BY <1>1, <2>7, <3>2 DEF IInv, Ordered
    <3> QED
      BY <2>5, <3>1, <3>3
  <2> QED
    BY <1>1, <1>2, <1>3, <2>3, <2>6, <2>7 DEF Ordered, Open, Exchanged
<1> QED
  BY <1>5, <1>6, <1>7, <1>8 DEF IInv

LEMMA UpMoveStep == IInv /\ UpMove => IInv'
<1> SUFFICES ASSUME IInv, UpMove PROVE IInv'
  OBVIOUS
<1>1. /\ pc = "up" /\ cur_size \in Nat /\ cur_size <= capacity /\ capacity \in Nat
      /\ hole \in 0 .. cur_size - 1 /\ hole \in Nat /\ hole > 0 /\ temp \in Timers
      /\ \A k \in 0 .. cur_size - 1 : array[k] \in Timers
      /\ \A t \in Timers : expire[t] \in Nat
  BY DEF IInv, TypeOK, Shape, UpMove, Rises
<1> DEFINE p == Parent(hole)
<1>2. p \in 0 .. cur_size - 1 /\ p < hole /\ p \in Nat
  BY <1>1, ParentOf
<1>3. Exchanged(p) /\ UNCHANGED <<expire, alloc, after, i>>
  BY DEF UpMove, Exchanged, timers
<1>4. expire[temp] < expire[array[p]]
  BY <1>1, <1>2 DEF UpMove, Rises
<1> HIDE DEF p
<1>5. TypeOK'
  BY <1>1, <1>2, <1>3 DEF IInv, TypeOK, UpMove, Exchanged, timers
<1>6. Shape'
  BY <1>1, <1>2, <1>3 DEF IInv, Shape, UpMove, Exchanged, timers
<1>7. EachOnce'
  BY <1>1, <1>2, <1>3, ExchangeKeepsEach DEF IInv
<1>8. Ordered'
  <2>1. Filled' = [Filled EXCEPT ![hole] = Filled[p], ![p] = Filled[hole]]
    BY <1>1, <1>2, <1>3, ExchangeFills DEF IInv
  <2>2. /\ Filled[hole] = temp
        /\ \A k \in 0 .. cur_size - 1 : k # hole => Filled[k] = array[k]
        /\ Filled \in [0 .. cur_size - 1 -> Timers]
    BY <1>1 DEF Filled
  <2>3. Lowest' = 0 /\ Lowest = 0
    BY <1>1, <1>3 DEF Lowest, Exchanged
  <2>4. \A k \in 1 .. cur_size - 1 :
          /\ k \in Nat /\ Parent(k) \in 0 .. cur_size - 1 /\ Parent(k) # k
          /\ Parent(k) < k /\ Parent(k) >= 0
    BY <1>1, ParentOf
  <2>5. /\ Filled'[hole] = array[p] /\ Filled'[p] = temp /\ Filled[p] = array[p]
        /\ \A k \in 0 .. cur_size - 1 : k # hole /\ k # p => Filled'[k] = Filled[k]
    BY <1>1, <1>2, <2>1, <2>2
  <2>6. \A k \in 1 .. cur_size - 1 :
          k # hole => expire[Filled[Parent(k)]] <= expire[Filled[k]]
    BY <1>1, <2>3, <2>4 DEF IInv, Ordered, Open
  <2>7. \A k \in 1 .. cur_size - 1 :
          Parent(k) = hole => expire[array[p]] <= expire[Filled[k]]
    BY <1>1, <1>2, <2>3, <2>5 DEF IInv, Ordered, p
  <2>8. ASSUME NEW k \in 1 .. cur_size - 1, k # p
        PROVE  expire[Filled'[Parent(k)]] <= expire[Filled'[k]]
    <3>1. CASE k = hole
      BY <1>1, <1>2, <1>4, <2>5, <3>1 DEF p
    <3>2. CASE k # hole /\ Parent(k) = p
      <4>1. expire[array[p]] <= expire[Filled[k]]
        BY <2>5, <2>6, <3>2
      <4>2. Filled'[k] = Filled[k] /\ Filled'[p] = temp /\ Filled[k] \in Timers
        BY <2>2, <2>5, <2>8, <3>2
      <4> QED
        BY <1>1, <1>2, <1>4, <3>2, <4>1, <4>2
    <3>3. CASE k # hole /\ Parent(k) = hole
      BY <1>1, <2>5, <2>7, <2>8, <3>3
    <3>4. CASE k # hole /\ Parent(k) # p /\ Parent(k) # hole
      BY <2>4, <2>5, <2>6, <2>8, <3>4
    <3> QED
      BY <3>1, <3>2, <3>3, <3>4
  <2>9. ASSUME NEW k \in 1 .. cur_size - 1, Parent(k) = p, p > 0
        PROVE  expire[Filled'[Parent(p)]] <= expire[Filled'[k]]
    <3>1. Parent(p) \in 0 .. cur_size - 1 /\ Parent(p) < p /\ p \in 1 .. cur_size - 1
      BY <1>1, <1>2, <2>4, <2>9
    <3>2. /\ expire[Filled[Parent(p)]] <= expire[array[p]]
          /\ Filled'[Parent(p)] = Filled[Parent(p)]
      BY <1>1, <1>2, <2>5, <2>6, <3>1
    <3>3. CASE k = hole
      BY <2>5, <3>2, <3>3
    <3>4. CASE k # hole
      <4>1. expire[array[p]] <= expire[Filled[k]] /\ Filled'[k] = Filled[k]
        BY <2>4, <2>5, <2>6, <2>9, <3>4
      <4> QED
        BY <1>1, <1>2, <2>2, <3>1, <3>2, <4>1
    <3> QED
      BY <3>3, <3>4
  <2> QED
    BY <1>1, <1>2, <1>3, <2>3, <2>8, <2>9 DEF Ordered, Open, Exchanged
<1> QED
  BY <1>5, <1>6, <1>7, <1>8 DEF IInv

LEMMA DownEndStep == IInv /\ DownEnd => IInv'
<1> SUFFICES ASSUME IInv, DownEnd PROVE IInv'
  OBVIOUS
<1>1. /\ pc = "down" /\ cur_size \in Nat /\ hole \in 0 .. cur_size - 1
      /\ temp \in Timers /\ pc' = after /\ after \in {"build", "idle", "tick"}
      /\ \A k \in 0 .. cur_size - 1 : array[k] \in Timers
      /\ \A t \in Timers : expire[t] \in Nat
  BY DEF IInv, TypeOK, Shape, DownEnd
<1>2. TypeOK'
  BY <1>1 DEF IInv, TypeOK, DownEnd, timers
<1>3. Shape'
  BY <1>1 DEF IInv, Shape, DownEnd, timers
<1>4. Filled' = Filled
  BY <1>1 DEF IInv, TypeOK, DownEnd, Filled
<1>5. EachOnce'
  BY <1>1, <1>4 DEF IInv, EachOnce, DownEnd, timers
<1>6. Ordered'
  <2>1. Lowest' = Lowest
    BY <1>1 DEF Lowest, DownEnd
  <2>2. ASSUME NEW k \in 1 .. cur_size - 1, Parent(k) >= Lowest
        PROVE  expire[Filled[Parent(k)]] <= expire[Filled[k]]
    <3>1. CASE Parent(k) = hole
      <4>1. hole # k /\ k \in 0 .. cur_size - 1 /\ k \in Nat
        BY <1>1, <3>1, ParentOf
      <4>2. HasChild
        BY <1>1, <3>1, <4>1, ParentIs DEF HasChild
      <4>3. /\ expire[array[Child]] <= expire[array[k]]
            /\ Child \in 0 .. cur_size - 1
        BY <1>1, <3>1, <4>2, ChildIsLeast DEF IInv
      <4>4. expire[array[Child]] >= expire[temp]
        BY <4>2 DEF DownEnd
      <4>5. Filled[hole] = temp /\ Filled[k] = array[k]
        BY <1>1, <4>1 DEF Filled
      <4> QED
        BY <1>1, <3>1, <4>1, <4>3, <4>4, <4>5
    <3>2. CASE Parent(k) # hole
      BY <1>1, <2>2, <3>2 DEF IInv, Ordered, Open
    <3> QED
      BY <3>1, <3>2
  <2> QED
    BY <1>1, <1>4, <2>1, <2>2 DEF Ordered, DownEnd, timers
<1> QED
  BY <1>2, <1>3, <1>5, <1>6 DEF IInv

LEMMA UpEndStep == IInv /\ UpEnd => IInv'
<1> SUFFICES ASSUME IInv, UpEnd PROVE IInv'
  OBVIOUS
<1>1. /\ pc = "up" /\ cur_size \in Nat /\ hole \in 0 .. cur_size - 1
      /\ temp \in Timers /\ pc' = "idle"
      /\ \A k \in 0 .. cur_size - 1 : array[k] \in Timers
      /\ \A t \in Timers : expire[t] \in Nat
  BY DEF IInv, TypeOK, Shape, UpEnd
<1>2. TypeOK'
  BY <1>1 DEF IInv, TypeOK, UpEnd, timers
<1>3. Shape'
  BY <1>1 DEF IInv, Shape, UpEnd, timers
<1>4. Filled' = Filled
  BY <1>1 DEF IInv, TypeOK, UpEnd, Filled
<1>5. EachOnce'
  BY <1>1, <1>4 DEF IInv, EachOnce, UpEnd, timers
<1>6. Ordered'
  <2>1. Lowest' = 0 /\ Lowest = 0
    BY <1>1 DEF Lowest
  <2>2. ASSUME NEW k \in 1 .. cur_size - 1
        PROVE  expire[Filled[Parent(k)]] <= expire[Filled[k]]
    <3>1. Parent(k) \in 0 .. cur_size - 1 /\ Parent(k) >= 0 /\ Parent(k) # k
      BY <1>1, ParentOf
    <3>2. CASE k = hole
      <4>1. expire[array[Parent(k)]] <= expire[temp]
        BY <1>1, <3>1, <3>2 DEF UpEnd, Rises
      <4> QED
        BY <1>1, <3>1, <3>2, <4>1 DEF Filled
    <3>3. CASE k # hole
      BY <1>1, <2>1, <3>1, <3>3 DEF IInv, Ordered, Open
    <3> QED
      BY <3>2, <3>3
  <2> QED
    BY <1>1, <1>4, <2>1, <2>2 DEF Ordered, UpEnd, timers
<1> QED
  BY <1>2, <1>3, <1>5, <1>6 DEF IInv

-----------------------------------------------------------------------------
(* add_timer and pop_timer.                                                *)

\* Nothing is in a hole: the array is all there is.
LEMMA NoHole ==
    ASSUME IInv, pc \in {"idle", "tick"}
    PROVE  /\ Filled = array /\ Lowest = 0
           /\ cur_size \in Nat /\ array \in [0 .. cur_size - 1 -> Timers]
           /\ \A k, l \in 0 .. cur_size - 1 : array[k] = array[l] => k = l
           /\ {array[k] : k \in 0 .. cur_size - 1} = alloc
           /\ \A k \in 1 .. cur_size - 1 : expire[array[Parent(k)]] <= expire[array[k]]
<1>1. cur_size \in Nat /\ array \in [0 .. cur_size - 1 -> Timers]
  BY DEF IInv, TypeOK
<1>2. Filled = array /\ Lowest = 0
  BY <1>1 DEF Filled, Lowest
<1>3. \A k \in 1 .. cur_size - 1 : Parent(k) >= Lowest /\ ~Open(k)
  BY <1>1, <1>2, ParentOf DEF Open
<1> QED
  BY <1>1, <1>2, <1>3 DEF IInv, EachOnce, Ordered

LEMMA AddStep ==
    ASSUME IInv, NEW t \in Timers, NEW delay \in Delays, Add(t, delay),
           \/ capacity' = capacity /\ cur_size < capacity
           \/ capacity' = 2 * capacity
    PROVE  IInv'
<1>1. /\ pc = "idle" /\ pc' = "up" /\ t \notin alloc /\ alloc' = alloc \cup {t}
      /\ cb_func' = cb_func \cup {t} /\ hole' = cur_size /\ temp' = t
      /\ cur_size' = cur_size + 1 /\ capacity' \in Nat \ {0}
      /\ cur_size + 1 <= capacity' /\ delay \in Nat /\ now \in Nat
      /\ capacity \in Nat /\ capacity <= capacity'
  BY DEF IInv, TypeOK, Add
<1>2. /\ cur_size \in Nat /\ array \in [0 .. cur_size - 1 -> Timers]
      /\ \A k, l \in 0 .. cur_size - 1 : array[k] = array[l] => k = l
      /\ {array[k] : k \in 0 .. cur_size - 1} = alloc
      /\ \A k \in 1 .. cur_size - 1 : expire[array[Parent(k)]] <= expire[array[k]]
  BY <1>1, NoHole
<1>3. array' = [k \in 0 .. cur_size |-> IF k < cur_size THEN array[k] ELSE t]
  BY DEF Add
<1>4. TypeOK'
  <2>1. array' \in [0 .. cur_size' - 1 -> Timers] /\ cur_size' \in 0 .. capacity'
    BY <1>1, <1>2, <1>3
  <2>2. expire' \in [Timers -> Nat] /\ now + delay \in Nat
    BY <1>1 DEF IInv, TypeOK, Add
  <2>3. /\ alloc' \in SUBSET Timers /\ cb_func' \in SUBSET Timers
        /\ fired' \in SUBSET Timers
    BY <1>1 DEF IInv, TypeOK, Add
  <2>4. hole' \in 0 .. capacity' - 1 /\ i' \in -1 .. capacity'
    <3>1. i' = i /\ i \in -1 .. capacity
      BY DEF IInv, TypeOK, Add
    <3>2. i' \in -1 .. capacity'
      BY <1>1, <3>1
    <3>3. cur_size \in Nat /\ capacity' \in Nat /\ cur_size + 1 <= capacity'
      BY <1>1 DEF IInv, TypeOK
    <3>4. cur_size \in 0 .. capacity' - 1
      BY <3>3, Below
    <3>5. hole' = cur_size
      BY <1>1
    <3> QED
      BY <3>2, <3>4, <3>5
  <2>5. /\ after' \in {"build", "idle", "tick"} /\ now' \in 0 .. MaxTime
        /\ cur' \in Nat /\ capacity' \in Nat \ {0} /\ pc' = "up" /\ temp' \in Timers
    BY <1>1 DEF IInv, TypeOK, Add
  <2> QED
    BY <2>1, <2>2, <2>3, <2>4, <2>5 DEF TypeOK
<1>5. Shape'
  BY <1>1, <1>2 DEF IInv, Shape, Add
<1>6. /\ Filled' = array'
      /\ \A k \in 0 .. cur_size - 1 : array'[k] = array[k] /\ array[k] \in alloc
      /\ array'[cur_size] = t
  <2>1. /\ \A k \in 0 .. cur_size - 1 : array'[k] = array[k] /\ array[k] \in alloc
        /\ array'[cur_size] = t
    BY <1>2, <1>3
  <2>2. Filled' = [k \in 0 .. cur_size |-> IF k = cur_size THEN t ELSE array'[k]]
    BY <1>1, <1>2 DEF Filled
  <2> QED
    BY <1>2, <1>3, <2>1, <2>2
<1>7. EachOnce'
  <2>1. ASSUME NEW k \in 0 .. cur_size, NEW l \in 0 .. cur_size, array'[k] = array'[l]
        PROVE  k = l
    <3>1. CASE k < cur_size /\ l < cur_size
      <4>1. k \in 0 .. cur_size - 1 /\ l \in 0 .. cur_size - 1
        BY <1>2, <3>1
      <4> QED
        BY <1>2, <1>6, <2>1, <4>1
    <3>2. CASE k < cur_size /\ l = cur_size
      <4>1. k \in 0 .. cur_size - 1 /\ t \notin alloc
        BY <1>1, <1>2, <3>2
      <4> QED
        BY <1>6, <2>1, <3>2, <4>1
    <3>3. CASE k = cur_size /\ l < cur_size
      <4>1. l \in 0 .. cur_size - 1 /\ t \notin alloc
        BY <1>1, <1>2, <3>3
      <4> QED
        BY <1>6, <2>1, <3>3, <4>1
    <3> QED
      BY <1>2, <3>1, <3>2, <3>3
  <2>2. \A k \in 0 .. cur_size : array'[k] \in alloc'
    BY <1>1, <1>2, <1>6
  <2>3. \A u \in alloc' : \E k \in 0 .. cur_size : array'[k] = u
    <3> SUFFICES ASSUME NEW u \in alloc' PROVE \E k \in 0 .. cur_size : array'[k] = u
      OBVIOUS
    <3>1. CASE u = t
      BY <1>2, <1>6, <3>1
    <3>2. CASE u \in alloc
      <4>1. PICK k \in 0 .. cur_size - 1 : array[k] = u
        BY <1>2, <3>2
      <4> QED
        BY <1>2, <1>6, <4>1
    <3> QED
      BY <1>1, <3>1, <3>2
  <2>4. 0 .. cur_size' - 1 = 0 .. cur_size
    BY <1>1, <1>2
  <2>5. {array'[k] : k \in 0 .. cur_size' - 1} = alloc'
    BY <2>2, <2>3, <2>4
  <2> QED
    BY <1>6, <2>1, <2>4, <2>5 DEF EachOnce
<1>8. Ordered'
  <2>1. \A u \in alloc : expire'[u] = expire[u]
    BY <1>1 DEF IInv, TypeOK, Add
  <2>2. ASSUME NEW k \in 1 .. cur_size, k # cur_size
        PROVE  expire'[array'[Parent(k)]] <= expire'[array'[k]]
    <3>1. k \in 1 .. cur_size - 1 /\ Parent(k) \in 0 .. cur_size - 1
      BY <1>2, <2>2, ParentOf
    <3> QED
      BY <1>2, <1>6, <2>1, <3>1
  <2>3. \A k \in 1 .. cur_size : Parent(k) # cur_size
    BY <1>2, ParentOf
  <2>4. 1 .. cur_size' - 1 = 1 .. cur_size
    BY <1>1, <1>2
  <2> QED
    BY <1>1, <1>6, <2>2, <2>3, <2>4 DEF Ordered, Open
<1> QED
  BY <1>4, <1>5, <1>7, <1>8 DEF IInv

LEMMA PopStep ==
    ASSUME IInv, pc \in {"idle", "tick"}, Pop(pc), fired' \in SUBSET Timers,
           UNCHANGED <<capacity, expire, now, i, cur>>
    PROVE  IInv'
<1>1. /\ cur_size > 0 /\ cur_size' = cur_size - 1 /\ array' = LastToTop
      /\ alloc' = alloc \ {array[0]} /\ cb_func' = cb_func \ {array[0]}
  BY DEF Pop, Freed, StartDown
<1>2. /\ cur_size \in Nat /\ array \in [0 .. cur_size - 1 -> Timers]
      /\ \A k, l \in 0 .. cur_size - 1 : array[k] = array[l] => k = l
      /\ {array[k] : k \in 0 .. cur_size - 1} = alloc
      /\ \A k \in 1 .. cur_size - 1 : expire[array[Parent(k)]] <= expire[array[k]]
  BY NoHole
<1>3. capacity \in Nat /\ cur_size <= capacity
  BY DEF IInv, TypeOK
<1>4. /\ array' \in [0 .. cur_size - 2 -> Timers]
      /\ \A k \in 1 .. cur_size - 2 : array'[k] = array[k]
      /\ cur_size > 1 => array'[0] = array[cur_size - 1]
  BY <1>1, <1>2 DEF LastToTop
<1>5. \/ /\ cur_size > 1 /\ pc' = "down" /\ after' = pc /\ hole' = 0
         /\ temp' = array'[0]
      \/ cur_size = 1 /\ pc' = pc /\ UNCHANGED <<after, hole, temp>>
  <2>1. cur_size > 1 => LastToTop[0] = array[cur_size - 1]
    BY <1>2 DEF LastToTop
  <2> QED
    BY <2>1 DEF Pop, StartDown
<1>6. TypeOK'
  <2>1. cur_size' \in 0 .. capacity' /\ 0 .. cur_size' - 1 = 0 .. cur_size - 2
    BY <1>1, <1>2, <1>3
  <2>2. temp' \in Timers \cup {NULL} /\ hole' \in 0 .. capacity' - 1
    <3>1. capacity' = capacity /\ capacity \in Nat \ {0}
          /\ temp \in Timers \cup {NULL} /\ hole \in 0 .. capacity - 1
      BY DEF IInv, TypeOK
    <3>2. cur_size > 1 => array'[0] \in Timers
      BY <1>2, <1>4
    <3>3. 0 \in 0 .. capacity - 1
      BY <3>1
    <3> QED
      BY <1>5, <3>1, <3>2, <3>3
  <2> QED
    BY <1>1, <1>4, <1>5, <2>1, <2>2 DEF IInv, TypeOK
<1>7. Shape'
  BY <1>1, <1>2, <1>4, <1>5 DEF IInv, Shape
<1>8. Filled' = array'
  BY <1>1, <1>2, <1>4, <1>5 DEF Filled
<1>9. EachOnce'
  <2>1. \A k, l \in 0 .. cur_size - 2 : array'[k] = array'[l] => k = l
    BY <1>2, <1>4
  <2>2. \A k \in 0 .. cur_size - 2 : array'[k] \in alloc'
    BY <1>1, <1>2, <1>4
  <2>3. \A u \in alloc' : \E k \in 0 .. cur_size - 2 : array'[k] = u
    <3> SUFFICES ASSUME NEW u \in alloc'
                 PROVE  \E k \in 0 .. cur_size - 2 : array'[k] = u
      OBVIOUS
    <3>1. PICK k \in 0 .. cur_size - 1 : array[k] = u
      BY <1>1, <1>2
    <3>2. k # 0
      BY <1>1, <3>1
    <3>3. CASE k = cur_size - 1
      BY <1>2, <1>4, <3>1, <3>2, <3>3
    <3>4. CASE k # cur_size - 1
      BY <1>2, <1>4, <3>1, <3>2, <3>4
    <3> QED
      BY <3>3, <3>4
  <2>4. 0 .. cur_size' - 1 = 0 .. cur_size - 2
    BY <1>1, <1>2
  <2>5. {array'[k] : k \in 0 .. cur_size' - 1} = alloc'
    BY <2>2, <2>3, <2>4
  <2> QED
    BY <1>8, <2>1, <2>4, <2>5 DEF EachOnce
<1>10. Ordered'
  <2>1. ASSUME NEW k \in 1 .. cur_size - 2, Parent(k) # 0
        PROVE  expire[array'[Parent(k)]] <= expire[array'[k]]
    <3>1. k \in 1 .. cur_size - 1 /\ Parent(k) \in 1 .. cur_size - 2
      BY <1>2, <2>1, ParentOf
    <3> QED
      BY <1>2, <1>4, <3>1
  <2>2. 1 .. cur_size' - 1 = 1 .. cur_size - 2
    BY <1>1, <1>2
  <2>3. CASE pc' = "down" /\ hole' = 0
    BY <1>1, <1>2, <1>8, <2>1, <2>3 DEF Ordered, Open
  <2>4. CASE cur_size = 1
    BY <2>2, <2>4 DEF Ordered
  <2> QED
    BY <1>5, <2>3, <2>4
<1> QED
  BY <1>6, <1>7, <1>9, <1>10 DEF IInv

-----------------------------------------------------------------------------
(* The other steps move no timer.                                          *)

LEMMA DelTimerStep == ASSUME IInv, NEW t \in Timers, DelTimer(t) PROVE IInv'
<1>1. Filled' = Filled /\ Lowest' = Lowest
  BY DEF DelTimer, Filled, Lowest, heap, locals
<1>2. TypeOK' /\ Shape'
  BY DEF IInv, TypeOK, Shape, DelTimer, heap, locals
<1>3. EachOnce' /\ Ordered'
  BY <1>1 DEF IInv, EachOnce, Ordered, Open, DelTimer, heap, locals
<1> QED
  BY <1>2, <1>3 DEF IInv

LEMMA AddFreesStep == ASSUME IInv, AddFrees PROVE IInv'
<1>1. /\ capacity \in Nat \ {0} /\ capacity' = 2 * capacity
      /\ capacity' \in Nat \ {0} /\ capacity <= capacity'
  BY DEF IInv, TypeOK, AddFrees
<1>2. TypeOK'
  BY <1>1 DEF IInv, TypeOK, AddFrees, locals
<1>3. Shape' /\ EachOnce' /\ Ordered'
  BY DEF IInv, Shape, EachOnce, Ordered, AddFrees, locals
<1> QED
  BY <1>2, <1>3 DEF IInv

LEMMA TickStep == ASSUME IInv, TickStart \/ TickStop PROVE IInv'
<1>1. Filled' = Filled /\ Lowest' = 0 /\ Lowest = 0
  BY DEF TickStart, TickStop, Filled, Lowest, heap
<1>2. /\ now \in Nat /\ cur' \in Nat
      /\ pc' \in {"idle", "tick"} /\ pc \in {"idle", "tick"}
      /\ pc' = "tick" => cur' = now
  BY DEF IInv, TypeOK, TickStart, TickStop
<1>3. UNCHANGED <<heap, timers, now, after, hole, temp, i>>
  BY DEF TickStart, TickStop
<1>4. TypeOK'
  BY <1>2, <1>3 DEF IInv, TypeOK, heap, timers
<1>5. Shape'
  BY <1>2, <1>3 DEF IInv, Shape, heap, timers
<1>6. EachOnce' /\ Ordered'
  BY <1>1, <1>2, <1>3 DEF IInv, EachOnce, Ordered, Open, heap, timers
<1> QED
  BY <1>4, <1>5, <1>6 DEF IInv

LEMMA DestroySteps ==
    ASSUME IInv, DestroyStart \/ DestroyStep \/ DestroyEnd PROVE IInv'
<1>1. TypeOK'
  BY DEF IInv, TypeOK, Shape, DestroyStart, DestroyStep, DestroyEnd, heap, timers, locals
<1>2. Shape'
  BY DEF IInv, TypeOK, Shape, DestroyStart, DestroyStep, DestroyEnd, heap, timers, locals
<1>3. EachOnce' /\ Ordered'
  BY DEF EachOnce, Ordered, DestroyStart, DestroyStep, DestroyEnd
<1> QED
  BY <1>1, <1>2, <1>3 DEF IInv

LEMMA QuietStep == ASSUME IInv, TimePasses \/ UNCHANGED vars PROVE IInv'
<1>1. /\ UNCHANGED <<heap, timers, pc, locals>>
      /\ now' = now \/ (now < MaxTime /\ now' = now + 1)
  <2>1. TimePasses \/ UNCHANGED vars
    OBVIOUS
  <2>2. CASE TimePasses
    BY <2>2 DEF TimePasses
  <2>3. CASE UNCHANGED vars
    BY <2>3 DEF vars, heap, timers, locals
  <2> QED
    BY <2>1, <2>2, <2>3
<1>2. Filled' = Filled /\ Lowest' = Lowest
  BY <1>1 DEF Filled, Lowest, heap, locals
<1>3. TypeOK' /\ Shape'
  BY <1>1 DEF IInv, TypeOK, Shape, heap, timers, locals
<1>4. EachOnce' /\ Ordered'
  BY <1>1, <1>2 DEF IInv, EachOnce, Ordered, Open, heap, timers, locals
<1> QED
  BY <1>3, <1>4 DEF IInv

-----------------------------------------------------------------------------
LEMMA Invariant == Spec => []IInv
<1>1. IInv /\ [Next]_vars => IInv'
  <2> SUFFICES ASSUME IInv, [Next]_vars PROVE IInv'
    OBVIOUS
  <2>1. ASSUME NEW t \in Timers, NEW d \in Delays, AddTimer(t, d) \/ AddGrow(t, d)
        PROVE  IInv'
    <3>1. Add(t, d)
      BY <2>1 DEF AddTimer, AddGrow
    <3>2. \/ capacity' = capacity /\ cur_size < capacity
          \/ capacity' = 2 * capacity
      <4>1. cur_size \in Int /\ capacity \in Int
        BY DEF IInv, TypeOK
      <4>2. CASE AddTimer(t, d)
        BY <4>1, <4>2 DEF AddTimer, Full
      <4>3. CASE AddGrow(t, d)
        BY <4>3 DEF AddGrow
      <4> QED
        BY <2>1, <4>2, <4>3
    <3> QED
      BY <3>1, <3>2, AddStep
  <2>2. CASE PopTimer
    BY <2>2, PopStep DEF PopTimer, IInv, TypeOK
  <2>3. CASE TickFire
    <3>1. cur_size > 0 /\ array[0] \in Timers
      BY <2>3 DEF TickFire, Due, IInv, TypeOK
    <3>2. fired' \in SUBSET Timers
      BY <2>3, <3>1 DEF TickFire, IInv, TypeOK
    <3>3. /\ pc \in {"idle", "tick"} /\ Pop(pc)
          /\ UNCHANGED <<capacity, expire, now, i, cur>>
      BY <2>3 DEF TickFire
    <3> QED
      BY <3>2, <3>3, PopStep
  <2> QED
    BY <2>1, <2>2, <2>3, BuildStep, BuildEndStep, DownMoveStep, DownEndStep,
       UpMoveStep, UpEndStep, DelTimerStep, AddFreesStep, TickStep, DestroySteps,
       QuietStep DEF Next, Call, Loop
<1> QED
  BY <1>1, HeapInit, PTL DEF Spec

\* Every variable keeps its type and no index leaves the array.
THEOREM TypeCorrect == Spec => []TypeOK
<1>1. IInv => TypeOK
  BY DEF IInv
<1> QED
  BY <1>1, Invariant, PTL

\* No call and no iteration loses, doubles or keeps a freed timer.
THEOREM EachOnceCorrect == Spec => []EachOnce
<1>1. IInv => EachOnce
  BY DEF IInv
<1> QED
  BY <1>1, Invariant, PTL

\* Between two calls the array is a heap.
THEOREM HeapOrderCorrect == Spec => []HeapOrder
<1>1. IInv => HeapOrder
  BY NoHole DEF HeapOrder
<1> QED
  BY <1>1, Invariant, PTL

-----------------------------------------------------------------------------
\* The timer at the top is due first: of the elements due before it, the one
\* with the least index would be due before its parent.
LEMMA TopIsFirst ==
    ASSUME IInv, pc \in {"idle", "tick"}, cur_size > 0
    PROVE  /\ array[0] \in alloc /\ alloc \subseteq Timers
           /\ \A t \in alloc : expire[array[0]] <= expire[t]
<1>1. /\ cur_size \in Nat /\ array \in [0 .. cur_size - 1 -> Timers]
      /\ {array[k] : k \in 0 .. cur_size - 1} = alloc
      /\ \A k \in 1 .. cur_size - 1 : expire[array[Parent(k)]] <= expire[array[k]]
  BY NoHole
<1>2. expire \in [Timers -> Nat] /\ alloc \subseteq Timers
  BY DEF IInv, TypeOK
<1>3. \A k \in 0 .. cur_size - 1 : expire[array[0]] <= expire[array[k]]
  <2> DEFINE Before == {k \in 0 .. cur_size - 1 : expire[array[k]] < expire[array[0]]}
  <2>1. SUFFICES ASSUME Before # {} PROVE FALSE
    BY <1>1, <1>2
  <2>2. Before \subseteq Nat
    BY <1>1
  <2> DEFINE R == {ss \in Nat \X Nat : ss[1] < ss[2]}
  <2>3. PICK m \in Before : \A k \in Before : ~ (<<k, m>> \in R)
    <3>1. IsWellFoundedOn(R, Nat)
      BY NatLessThanWellFounded DEF OpToRel
    <3> HIDE DEF R, Before
    <3> QED
      BY <2>1, <2>2, <3>1, WFMin
  <2>4. m \in 1 .. cur_size - 1 /\ m \in Nat
    BY <1>1, <1>2, <2>3
  <2>5. Parent(m) \in 0 .. cur_size - 1 /\ Parent(m) < m
    BY <1>1, <2>4, ParentOf
  <2>6. expire[array[Parent(m)]] <= expire[array[m]]
    BY <1>1, <2>4
  <2>7. Parent(m) \in Before
    BY <1>1, <1>2, <2>3, <2>4, <2>5, <2>6
  <2>8. <<Parent(m), m>> \in R
    BY <2>2, <2>4, <2>5, <2>7
  <2> QED
    BY <2>3, <2>7, <2>8
<1> QED
  BY <1>1, <1>2, <1>3

\* When tick returns, nothing that was due when it started is left.
THEOREM TickHandlesAllDue == Spec => TickComplete
<1>1. ASSUME IInv, [Next]_vars, pc = "tick", pc' = "idle"
      PROVE  \A t \in alloc : expire[t] > cur
  <2>1. TickStop
    BY <1>1 DEF Next, Call, Loop, Build, BuildEnd, DownMove, DownEnd, UpMove, UpEnd,
                TickFire, Pop, StartDown, DestroyStep, DestroyEnd, AddTimer, AddGrow,
                Add, DelTimer, AddFrees, PopTimer, TickStart, DestroyStart,
                TimePasses, vars
  <2>2. CASE cur_size > 0
    <3>1. expire[array[0]] > cur
      BY <1>1, <2>1, <2>2, TopIsFirst DEF TickStop, Due, IInv, TypeOK
    <3> QED
      BY <1>1, <2>2, <3>1, TopIsFirst DEF IInv, TypeOK
  <2>3. CASE ~ (cur_size > 0)
    BY <1>1, <2>3, NoHole
  <2> QED
    BY <2>2, <2>3
<1>2. IInv /\ [Next]_vars
        => [pc = "tick" /\ pc' = "idle" => \A t \in alloc : expire[t] > cur]_vars
  BY <1>1
<1> QED
  BY <1>2, Invariant, PTL DEF Spec, TickComplete

\* Freeing t cancels it if it is pending and is not seen otherwise.
LEMMA FreeCancels ==
    ASSUME NEW t \in Timers, cb_func' = cb_func \ {t}, UNCHANGED <<expire, fired, now>>
    PROVE  [Queue!Next]_<<cb_func, expire, fired, now>>
<1>1. CASE t \in cb_func
  BY <1>1 DEF Queue!Next, Queue!Cancel
<1>2. CASE t \notin cb_func
  BY <1>2
<1> QED
  BY <1>1, <1>2

\* time_heap implements the queue that fires pending timers in the order of
\* their deadlines and never early, as sort_timer_lst does.
THEOREM HeapImplementsQueue == Spec => ImplementsQueue
<1>1. Init => Queue!Init
  <2> SUFFICES ASSUME Init PROVE Queue!Init
    OBVIOUS
  <2>1. alloc \subseteq Timers /\ expire \in [Timers -> Nat]
    BY DEF Init
  <2> QED
    BY <2>1 DEF Init, Queue!Init
<1>2. ASSUME IInv, [Next]_vars
      PROVE  [Queue!Next]_<<cb_func, expire, fired, now>>
  <2>1. ASSUME NEW t \in Timers, NEW d \in Delays, Add(t, d)
        PROVE  Queue!Start(t)
    <3>1. now + d \in Nat /\ t \notin cb_func
      BY <1>2, <2>1 DEF Add, IInv, TypeOK, Shape
    <3>2. expire'[t] = now + d
      BY <1>2, <2>1 DEF Add, IInv, TypeOK
    <3> QED
      BY <2>1, <3>1, <3>2 DEF Add, Queue!Start, Queue!NewDeadline
  <2>2. ASSUME NEW t \in Timers, DelTimer(t)
        PROVE  Queue!Cancel(t)
    BY <2>2 DEF DelTimer, Queue!Cancel
  <2>3. CASE PopTimer
    <3>1. array[0] \in Timers
      BY <1>2, <2>3 DEF PopTimer, Pop, Freed, IInv, TypeOK
    <3> QED
      BY <2>3, <3>1, FreeCancels DEF PopTimer, Pop, Freed
  <2>4. CASE TickFire
    <3>1. /\ pc = "tick" /\ cur_size > 0 /\ expire[array[0]] <= cur
          /\ cb_func' = cb_func \ {array[0]}
          /\ fired' = fired \cup ({array[0]} \cap cb_func)
          /\ UNCHANGED <<expire, now>>
      BY <2>4 DEF TickFire, Due, Pop, Freed
    <3>2. /\ array[0] \in Timers /\ cb_func \subseteq alloc /\ alloc \subseteq Timers
          /\ \A t \in alloc : expire[array[0]] <= expire[t]
      BY <1>2, <3>1, TopIsFirst DEF IInv, Shape
    <3>3. expire[array[0]] <= now
      BY <1>2, <3>1, <3>2 DEF IInv, Shape, TypeOK
    <3>4. CASE array[0] \in cb_func
      <4>1. fired' = fired \cup {array[0]}
        BY <3>1, <3>4
      <4>2. Queue!Fire(array[0])
        BY <3>1, <3>2, <3>3, <3>4, <4>1 DEF Queue!Fire
      <4> QED
        BY <3>2, <4>2 DEF Queue!Next
    <3>5. CASE array[0] \notin cb_func
      BY <3>1, <3>5
    <3> QED
      BY <3>4, <3>5
  <2>5. CASE DestroyStep
    <3>1. array[i] \in Timers
      BY <1>2, <2>5 DEF DestroyStep, IInv, TypeOK, Shape
    <3> QED
      BY <2>5, <3>1, FreeCancels DEF DestroyStep
  <2>6. CASE TimePasses
    BY <2>6 DEF TimePasses, timers, Queue!TimePasses, Queue!Next
  <2>7. CASE \/ Build \/ BuildEnd \/ DownMove \/ DownEnd \/ UpMove \/ UpEnd
             \/ AddFrees \/ TickStart \/ TickStop \/ DestroyStart \/ DestroyEnd
             \/ UNCHANGED vars
    BY <2>7 DEF Build, BuildEnd, DownMove, DownEnd, UpMove, UpEnd, AddFrees,
                TickStart, TickStop, DestroyStart, DestroyEnd, timers, vars
  <2> QED
    BY <1>2, <2>1, <2>2, <2>3, <2>4, <2>5, <2>6, <2>7
       DEF Next, Call, Loop, AddTimer, AddGrow, Queue!Next
<1> QED
  BY <1>1, <1>2, Invariant, PTL
     DEF Spec, ImplementsQueue, Queue!Spec, Queue!queueVars
=============================================================================
