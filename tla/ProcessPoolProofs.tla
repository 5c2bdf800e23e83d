-------------------------- MODULE ProcessPoolProofs --------------------------
(***************************************************************************)
(* Proofs about ProcessPool, for every pool size, every buffer size and    *)
(* every number of connections, signals and crashes.                       *)
(***************************************************************************)
EXTENDS ProcessPool, FiniteSetTheorems, TLAPS

USE PoolSizeAssumption, CapacityAssumption, BoundAssumption

-----------------------------------------------------------------------------
\* Every reported batch of parent events is a sequence of event names.
LEMMA OrdersType ==
    ASSUME NEW S, NEW q \in Orders(S)
    PROVE  q \in Seq({"listen", "sig"})
<1>1. q \in {<<"listen">>, <<"sig">>, <<"listen", "sig">>, <<"sig", "listen">>}
  BY Zenon DEF Orders
<1>2. /\ <<"listen">> \in Seq({"listen", "sig"})
      /\ <<"sig">> \in Seq({"listen", "sig"})
      /\ <<"listen", "sig">> \in Seq({"listen", "sig"})
      /\ <<"sig", "listen">> \in Seq({"listen", "sig"})
  OBVIOUS
<1> QED
  BY <1>1, <1>2, Zenon

\* What one step does to the sequences the parent consumes from the front.
LEMMA TailType ==
    ASSUME NEW S, NEW q \in Seq(S), q # <<>>
    PROVE  Tail(q) \in Seq(S)
OBVIOUS

LEMMA UnchangedTypes ==
    /\ ParentType /\ UNCHANGED parentVars => ParentType'
    /\ SignalType /\ UNCHANGED signalVars => SignalType'
    /\ ChildType /\ UNCHANGED childVars => ChildType'
    /\ EnvType /\ UNCHANGED envVars => EnvType'
<1>1. ParentType /\ UNCHANGED parentVars => ParentType'
  BY DEF ParentType, parentVars
<1>2. SignalType /\ UNCHANGED signalVars => SignalType'
  BY DEF SignalType, signalVars
<1>3. ChildType /\ UNCHANGED childVars => ChildType'
  BY DEF ChildType, childVars
<1>4. EnvType /\ UNCHANGED envVars => EnvType'
  BY DEF EnvType, envVars
<1> QED
  BY <1>1, <1>2, <1>3, <1>4

LEMMA DieType ==
    ASSUME ChildType, SignalType, NEW i \in Idx, Die(i),
           UNCHANGED <<pReady, sigPipe, cStop>>,
           cTerm' \in [Idx -> {"no", "pending", "piped"}]
    PROVE  ChildType' /\ SignalType'
<1>1. /\ child' \in [Idx -> {"none", "start", "loop", "zombie", "reaped"}]
      /\ cEvents' \in [Idx -> SUBSET {"pipe", "sig"}]
      /\ cReady' \in [Idx -> SUBSET {"pipe", "sig"}]
  BY DEF ChildType, Die
<1>2. pipe' \in [Idx -> 0 .. PipeCap]
  BY DEF ChildType, Die
<1>3. pPending' \in SUBSET {"CHLD", "TERM"}
  BY DEF SignalType, Die
<1> QED
  BY <1>1, <1>2, <1>3 DEF ChildType, SignalType

\* Type correctness of one step.
LEMMA TypeStep == TypeOK /\ [Next]_vars => TypeOK'
<1> SUFFICES ASSUME TypeOK, [Next]_vars PROVE TypeOK'
  OBVIOUS
<1> USE UnchangedTypes DEF TypeOK
<1>1. CASE Fork
  <2>1. nfork \in Idx /\ nfork' \in 0 .. ProcessNumber
    BY <1>1 DEF Fork, ParentType, Idx
  <2>2. ParentType'
    BY <1>1, <2>1 DEF Fork, ParentType
  <2>3. ChildType'
    BY <1>1, <2>1 DEF Fork, ChildType
  <2> QED
    BY <1>1, <2>2, <2>3 DEF Fork
<1>2. CASE Setup
  <2>1. ParentType'
    BY <1>2 DEF Setup, ParentType
  <2>2. SignalType'
    BY <1>2 DEF Setup, SignalType
  <2> QED
    BY <1>2, <2>1, <2>2 DEF Setup
<1>3. CASE ParentEpollWait
  <2>1. events' \in Seq({"listen", "sig"})
    BY <1>3, OrdersType DEF ParentEpollWait
  <2>2. ParentType'
    BY <1>3, <2>1 DEF ParentEpollWait, ParentType
  <2>3. SignalType'
    BY <1>3 DEF ParentEpollWait, Keep, SignalType
  <2> QED
    BY <1>3, <2>2, <2>3 DEF ParentEpollWait
<1>4. CASE ParentNoChild
  <2>1. ParentType'
    BY <1>4 DEF ParentNoChild, ParentType
  <2> QED
    BY <1>4, <2>1 DEF ParentNoChild
<1>5. CASE ParentListen
  <2>1. events' \in Seq({"listen", "sig"})
    BY <1>5, TailType DEF ParentListen, Handling, ParentType
  <2>2. PICK t \in Idx :
          /\ sub_process_counter' = NextCounter(t)
          /\ Send(t)
          /\ since' = [j \in Idx |-> [k \in Idx |->
                        IF j = t THEN 0
                        ELSE IF k = t THEN since[j][k] + 1 ELSE since[j][k]]]
    BY <1>5 DEF ParentListen
  <2>3. sub_process_counter' \in Idx
    BY <2>2 DEF NextCounter, Idx
  <2>4. since' \in [Idx -> [Idx -> Nat]]
    <3>1. \A j, k \in Idx : since[j][k] \in Nat
      BY DEF ParentType
    <3>2. \A j \in Idx :
            [k \in Idx |-> IF j = t THEN 0
                           ELSE IF k = t THEN since[j][k] + 1 ELSE since[j][k]]
               \in [Idx -> Nat]
      BY <3>1
    <3> QED
      BY <2>2, <3>2
  <2>5. ParentType'
    BY <1>5, <2>1, <2>3, <2>4 DEF ParentListen, ParentType
  <2>6. ChildType'
    <3>1. CASE /\ pipe[t] < PipeCap
               /\ pipe' = [pipe EXCEPT ![t] = @ + 1]
               /\ cReady' = [cReady EXCEPT ![t] =
                        IF child[t] = "loop" THEN @ \cup {"pipe"} ELSE @]
      <4>1. pipe' \in [Idx -> 0 .. PipeCap]
        BY <3>1 DEF ChildType
      <4>2. cReady' \in [Idx -> SUBSET {"pipe", "sig"}]
        BY <3>1 DEF ChildType
      <4> QED
        BY <1>5, <4>1, <4>2 DEF ParentListen, ChildType
    <3>2. CASE UNCHANGED <<pipe, cReady>>
      BY <1>5, <3>2 DEF ParentListen, ChildType
    <3> QED
      BY <2>2, <3>1, <3>2 DEF Send
  <2> QED
    BY <1>5, <2>5, <2>6 DEF ParentListen
<1>6. CASE ParentRecvSignals
  <2>1. events' \in Seq({"listen", "sig"})
    BY <1>6, TailType DEF ParentRecvSignals, Handling, ParentType
  <2>2. ParentType'
    BY <1>6, <2>1 DEF ParentRecvSignals, ParentType, SignalType
  <2>3. SignalType'
    BY <1>6 DEF ParentRecvSignals, SignalType
  <2> QED
    BY <1>6, <2>2, <2>3 DEF ParentRecvSignals
<1>7. CASE ParentSigChld
  <2>1. signals' \in Seq({"CHLD", "TERM"})
    BY <1>7, TailType DEF ParentSigChld, HandlingSignal, ParentType
  <2>2. m_pid' \in [Idx -> {-1} \cup {Pid(i) : i \in Idx}]
    BY <1>7 DEF ParentSigChld, Marked, ParentType
  <2>3. ParentType'
    BY <1>7, <2>1, <2>2 DEF ParentSigChld, AllGone, ParentType
  <2>4. ChildType'
    BY <1>7 DEF ParentSigChld, ChildType
  <2> QED
    BY <1>7, <2>3, <2>4 DEF ParentSigChld
<1>8. CASE ParentSigTerm
  <2>1. signals' \in Seq({"CHLD", "TERM"})
    BY <1>8, TailType DEF ParentSigTerm, HandlingSignal, ParentType
  <2>2. ParentType'
    BY <1>8, <2>1 DEF ParentSigTerm, ParentType
  <2>3. ChildType'
    BY <1>8 DEF ParentSigTerm, TermSent, ChildType
  <2> QED
    BY <1>8, <2>2, <2>3 DEF ParentSigTerm
<1>9. CASE ParentExit
  <2>1. ParentType'
    BY <1>9 DEF ParentExit, ParentType
  <2> QED
    BY <1>9, <2>1 DEF ParentExit
<1>10. ASSUME NEW s \in {"CHLD", "TERM"}, DeliverParent(s) PROVE TypeOK'
  <2>1. CASE Len(sigPipe) < SigCap /\ sigPipe' = Append(sigPipe, s)
    <3>1. sigPipe' \in Seq({"CHLD", "TERM"}) /\ Len(sigPipe') = Len(sigPipe) + 1
      BY <2>1 DEF SignalType
    <3>2. Len(sigPipe) \in Nat
      BY DEF SignalType
    <3>3. Len(sigPipe') <= SigCap
      BY <2>1, <3>1, <3>2
    <3> QED
      BY <1>10, <3>1, <3>3 DEF DeliverParent, SignalType
  <2>2. CASE UNCHANGED <<sigPipe, pReady>>
    <3>1. SignalType'
      BY <1>10, <2>2 DEF DeliverParent, SignalType
    <3> QED
      BY <1>10, <3>1 DEF DeliverParent
  <2> QED
    BY <1>10, <2>1, <2>2 DEF DeliverParent
<1>11. ASSUME NEW i \in Idx, ChildStep(i) PROVE TypeOK'
  <2>1. CASE ChildSetup(i)
    <3>1. ChildType'
      BY <2>1 DEF ChildSetup, ChildType
    <3> QED
      BY <2>1, <3>1 DEF ChildSetup
  <2>2. CASE ChildEpollWait(i)
    <3>1. ChildType'
      BY <2>2 DEF ChildEpollWait, Keep, ChildType
    <3> QED
      BY <2>2, <3>1 DEF ChildEpollWait
  <2>3. CASE ChildPipe(i)
    <3>1. pipe' \in [Idx -> 0 .. PipeCap]
      BY <2>3 DEF ChildPipe, ChildType
    <3>2. ChildType'
      BY <2>3, <3>1 DEF ChildPipe, ChildType
    <3>3. EnvType'
      BY <2>3 DEF ChildPipe, EnvType
    <3> QED
      BY <2>3, <3>2, <3>3 DEF ChildPipe
  <2>4. CASE ChildSig(i)
    <3>1. ChildType'
      BY <2>4 DEF ChildSig, ChildType
    <3> QED
      BY <2>4, <3>1 DEF ChildSig
  <2>5. CASE ChildExit(i)
    <3>1. UNCHANGED parentVars /\ UNCHANGED envVars
      BY <2>5 DEF ChildExit
    <3>2. cTerm' \in [Idx -> {"no", "pending", "piped"}]
      BY <2>5 DEF ChildExit, ChildType
    <3>3. Die(i) /\ UNCHANGED <<pReady, sigPipe, cStop>>
      BY <2>5 DEF ChildExit
    <3> QED
      BY <3>1, <3>2, <3>3, DieType
  <2> QED
    BY <1>11, <2>1, <2>2, <2>3, <2>4, <2>5 DEF ChildStep
<1>12. ASSUME NEW i \in Idx, DeliverChild(i) PROVE TypeOK'
  <2>1. cTerm' \in [Idx -> {"no", "pending", "piped"}]
    BY <1>12 DEF DeliverChild, ChildType
  <2>2. CASE Die(i)
    BY <1>12, <2>1, <2>2, DieType DEF DeliverChild
  <2>3. CASE /\ cReady' = [cReady EXCEPT ![i] = @ \cup {"sig"}]
             /\ UNCHANGED <<child, cEvents, pipe, pPending>>
    <3>1. ChildType'
      BY <1>12, <2>1, <2>3 DEF DeliverChild, ChildType
    <3>2. SignalType'
      BY <1>12, <2>3 DEF DeliverChild, SignalType
    <3> QED
      BY <1>12, <3>1, <3>2 DEF DeliverChild
  <2> QED
    BY <1>12, <2>2, <2>3 DEF DeliverChild
<1>13. CASE Connect
  <2>1. EnvType' /\ SignalType'
    BY <1>13 DEF Connect, EnvType, SignalType
  <2> QED
    BY <1>13, <2>1 DEF Connect
<1>14. CASE Terminate
  <2>1. EnvType'
    BY <1>14 DEF Terminate, EnvType
  <2>2. ParentType'
    BY <1>14 DEF Terminate, ParentType
  <2>3. SignalType'
    BY <1>14 DEF Terminate, SignalType
  <2> QED
    BY <1>14, <2>1, <2>2, <2>3 DEF Terminate
<1>15. ASSUME NEW i \in Idx, ChildCrash(i) PROVE TypeOK'
  <2>1. EnvType'
    BY <1>15 DEF ChildCrash, EnvType
  <2>2. cTerm' \in [Idx -> {"no", "pending", "piped"}]
    BY <1>15 DEF ChildCrash, ChildType
  <2>3. Die(i) /\ UNCHANGED parentVars /\ UNCHANGED <<pReady, sigPipe, cStop>>
    BY <1>15 DEF ChildCrash
  <2> QED
    BY <2>1, <2>2, <2>3, DieType
<1>16. ASSUME NEW i \in Idx, TerminateChild(i) PROVE TypeOK'
  <2>1. EnvType'
    BY <1>16 DEF TerminateChild, EnvType
  <2>2. ChildType'
    BY <1>16 DEF TerminateChild, TermSent, ChildType
  <2> QED
    BY <1>16, <2>1, <2>2 DEF TerminateChild
<1>17. CASE UNCHANGED vars
  BY <1>17 DEF vars, parentVars, signalVars, childVars, envVars
<1> QED
  BY <1>1, <1>2, <1>3, <1>4, <1>5, <1>6, <1>7, <1>8, <1>9, <1>10, <1>11,
     <1>12, <1>13, <1>14, <1>15, <1>16, <1>17 DEF Next, ParentStep

LEMMA TypeInit == Init => TypeOK
<1> SUFFICES ASSUME Init PROVE TypeOK
  OBVIOUS
<1>1. 0 \in Idx /\ 0 \in 0 .. ProcessNumber
  BY DEF Idx
<1>2. ParentType
  BY <1>1 DEF Init, ParentType
<1>3. SignalType
  BY DEF Init, SignalType
<1>4. ChildType
  BY DEF Init, ChildType
<1>5. EnvType
  BY DEF Init, EnvType
<1> QED
  BY <1>2, <1>3, <1>4, <1>5 DEF TypeOK

\* Type correctness: ProcessPool keeps every variable in its type, so no
\* buffer of the pool ever holds more than its capacity.
THEOREM TypeCorrect == Spec => []TypeOK
BY TypeInit, TypeStep, PTL DEF Spec

-----------------------------------------------------------------------------
(* The table of children, and why the parent leaves nobody behind.         *)

\* Children come to life in the order of the constructor's loop, and the
\* parent is past that loop before it sets up its signal pipe.
ForkInv ==
    /\ \A i \in Idx : child[i] = "none" <=> i >= nfork
    /\ ppc \in {"setup", "loop", "exited"} => nfork = ProcessNumber

\* m_stop is only ever true with an empty table, and the parent leaves its
\* loop by m_stop only.
StopInv ==
    /\ m_stop => nfork = ProcessNumber /\ AllGone(m_pid)
    /\ ppc = "exited" => m_stop

PoolInv == TableAgrees /\ ForkInv /\ StopInv

LEMMA PoolInit == Init => PoolInv
BY DEF Init, PoolInv, TableAgrees, ForkInv, StopInv, Idx

\* A running child that starts its loop or dies leaves the table as it is.
LEMMA ChildLife ==
    ASSUME TypeOK, PoolInv, NEW i \in Idx, Running(i),
           NEW s \in {"loop", "zombie"}, child' = [child EXCEPT ![i] = s],
           UNCHANGED parentVars
    PROVE  PoolInv'
<1>1. TableAgrees'
  BY DEF PoolInv, TableAgrees, Running, TypeOK, ChildType, parentVars
<1>2. ForkInv'
  BY DEF PoolInv, ForkInv, Running, TypeOK, ChildType, parentVars
<1>3. StopInv'
  BY DEF PoolInv, StopInv, AllGone, parentVars
<1> QED
  BY <1>1, <1>2, <1>3 DEF PoolInv

\* Nor does a step that touches neither a child's life nor the table.
LEMMA PoolUnchanged ==
    ASSUME PoolInv, UNCHANGED <<child, m_pid, nfork, m_stop, ppc>>
    PROVE  PoolInv'
BY DEF PoolInv, TableAgrees, ForkInv, StopInv, AllGone

LEMMA PoolStep == TypeOK /\ PoolInv /\ [Next]_vars => PoolInv'
<1> SUFFICES ASSUME TypeOK, PoolInv, [Next]_vars PROVE PoolInv'
  OBVIOUS
<1>1. CASE Fork
  <2>1. nfork \in Idx /\ nfork \in Nat
    BY <1>1 DEF Fork, TypeOK, ParentType, Idx
  <2>2. TableAgrees'
    BY <1>1, <2>1 DEF Fork, PoolInv, TableAgrees, TypeOK, ParentType, ChildType
  <2>3. ForkInv'
    <3>1. \A i \in Idx : child'[i] = "none" <=> i >= nfork'
      BY <1>1, <2>1 DEF Fork, PoolInv, ForkInv, TypeOK, ChildType, Idx
    <3> QED
      BY <1>1, <3>1 DEF Fork, ForkInv
  <2>4. StopInv'
    BY <1>1, <2>1 DEF Fork, PoolInv, StopInv
  <2> QED
    BY <2>2, <2>3, <2>4 DEF PoolInv
<1>2. CASE Setup
  BY <1>2 DEF Setup, PoolInv, TableAgrees, ForkInv, StopInv, AllGone, childVars
<1>3. CASE ParentEpollWait
  BY <1>3, PoolUnchanged DEF ParentEpollWait, childVars
<1>4. CASE ParentNoChild
  BY <1>4 DEF ParentNoChild, Handling, PoolInv, TableAgrees, ForkInv, StopInv,
              AllGone, childVars
<1>5. CASE ParentListen
  BY <1>5, PoolUnchanged DEF ParentListen
<1>6. CASE ParentRecvSignals
  BY <1>6, PoolUnchanged DEF ParentRecvSignals, childVars
<1>7. CASE ParentSigChld
  <2>1. \A i, z \in Idx : z # i => Pid(i) # Pid(z) /\ Pid(i) # -1
    BY DEF Pid, Idx
  <2>2. \A i \in Idx : (\E z \in Collected : m_pid[i] = Pid(z)) <=> i \in Collected
    <3>1. \A i, z \in Idx : m_pid[i] = Pid(z) => i = z
      BY <2>1 DEF PoolInv, TableAgrees, Pid, Idx
    <3> QED
      BY <3>1 DEF PoolInv, TableAgrees, Collected
  <2>3. TableAgrees'
    <3>1. \A i \in Idx : /\ child'[i] = IF i \in Collected THEN "reaped" ELSE child[i]
                         /\ m_pid'[i] = IF i \in Collected THEN -1 ELSE m_pid[i]
      BY <1>7, <2>2 DEF ParentSigChld, Marked
    <3> QED
      BY <3>1 DEF PoolInv, TableAgrees
  <2>4. ForkInv'
    BY <1>7 DEF ParentSigChld, PoolInv, ForkInv, Collected
  <2>5. StopInv'
    BY <1>7 DEF ParentSigChld, HandlingSignal, PoolInv, ForkInv, StopInv, AllGone
  <2> QED
    BY <2>3, <2>4, <2>5 DEF PoolInv
<1>8. CASE ParentSigTerm
  BY <1>8, PoolUnchanged DEF ParentSigTerm
<1>9. CASE ParentExit
  BY <1>9 DEF ParentExit, PoolInv, TableAgrees, ForkInv, StopInv, AllGone,
              childVars
<1>10. ASSUME NEW s \in {"CHLD", "TERM"}, DeliverParent(s) PROVE PoolInv'
  BY <1>10, PoolUnchanged DEF DeliverParent, parentVars, childVars
<1>11. ASSUME NEW i \in Idx, ChildStep(i) PROVE PoolInv'
  <2>1. CASE ChildSetup(i)
    BY <2>1, ChildLife DEF ChildSetup, Running
  <2>2. CASE ChildEpollWait(i)
    BY <2>2, PoolUnchanged DEF ChildEpollWait, parentVars
  <2>3. CASE ChildPipe(i)
    BY <2>3, PoolUnchanged DEF ChildPipe, parentVars
  <2>4. CASE ChildSig(i)
    BY <2>4, PoolUnchanged DEF ChildSig, parentVars
  <2>5. CASE ChildExit(i)
    BY <2>5, ChildLife DEF ChildExit, Die, Running
  <2> QED
    BY <1>11, <2>1, <2>2, <2>3, <2>4, <2>5 DEF ChildStep
<1>12. ASSUME NEW i \in Idx, DeliverChild(i) PROVE PoolInv'
  <2>1. CASE Die(i)
    BY <1>12, <2>1, ChildLife DEF DeliverChild, Die
  <2>2. CASE UNCHANGED child
    BY <1>12, <2>2, PoolUnchanged DEF DeliverChild, parentVars
  <2> QED
    BY <1>12, <2>1, <2>2 DEF DeliverChild
<1>13. CASE Connect
  BY <1>13, PoolUnchanged DEF Connect, parentVars, childVars
<1>14. CASE Terminate
  BY <1>14 DEF Terminate, PoolInv, TableAgrees, ForkInv, StopInv, AllGone,
               childVars
<1>15. ASSUME NEW i \in Idx, ChildCrash(i) PROVE PoolInv'
  BY <1>15, ChildLife DEF ChildCrash, Die
<1>16. ASSUME NEW i \in Idx, TerminateChild(i) PROVE PoolInv'
  BY <1>16, PoolUnchanged DEF TerminateChild, parentVars
<1>17. CASE UNCHANGED vars
  BY <1>17, PoolUnchanged DEF vars
<1> QED
  BY <1>1, <1>2, <1>3, <1>4, <1>5, <1>6, <1>7, <1>8, <1>9, <1>10, <1>11,
     <1>12, <1>13, <1>14, <1>15, <1>16, <1>17 DEF Next, ParentStep

LEMMA PoolInvariant == Spec => []PoolInv
BY TypeCorrect, PoolInit, PoolStep, PTL DEF Spec

\* run_parent's table of pids is exact in every reachable state, so it never
\* signals or writes to a process that is no longer its child.
THEOREM TableCorrect == Spec => []TableAgrees
BY PoolInvariant, PTL DEF PoolInv

\* A parent that leaves run_parent has collected every one of its children,
\* for any pool size and any interleaving of deaths and signals.
THEOREM NobodyLeftBehind == Spec => []NoOrphans
<1>1. PoolInv => NoOrphans
  BY DEF PoolInv, TableAgrees, ForkInv, StopInv, AllGone, NoOrphans, Pid, Idx
<1> QED
  BY <1>1, PoolInvariant, PTL

-----------------------------------------------------------------------------
(* Round robin.                                                            *)

\* A child that had its turn after j comes behind j in the cyclic order that
\* starts at the counter.  This is what makes "at most one turn" inductive.
TurnInv ==
    /\ \A j, t \in Idx : m_pid[j] # -1 =>
         /\ since[j][t] <= 1
         /\ since[j][t] = 1 => Dist(sub_process_counter, t)
                                 > Dist(sub_process_counter, j)
    /\ ppc = "fork" => \A j, t \in Idx : since[j][t] = 0

\* The cyclic distance orders the children strictly.
LEMMA DistOrder ==
    ASSUME NEW c \in Idx, NEW i \in Idx, NEW j \in Idx, i # j
    PROVE  /\ Dist(c, i) \in Idx
           /\ Dist(c, i) # Dist(c, j)
BY DEF Dist, Idx

\* Moving the counter behind t keeps the order of what lies behind t.
LEMMA DistShift ==
    ASSUME NEW c \in Idx, NEW t \in Idx, NEW j \in Idx, NEW k \in Idx,
           Dist(c, t) < Dist(c, j), Dist(c, j) < Dist(c, k)
    PROVE  Dist(NextCounter(t), j) < Dist(NextCounter(t), k)
BY DEF Dist, NextCounter, Idx

\* After its turn t is the last in that order.
LEMMA DistLast ==
    ASSUME NEW t \in Idx, NEW j \in Idx, j # t
    PROVE  Dist(NextCounter(t), j) < Dist(NextCounter(t), t)
BY DEF Dist, NextCounter, Idx

LEMMA TurnInit == Init => TurnInv
BY DEF Init, TurnInv, Idx

LEMMA TurnUnchanged ==
    ASSUME TurnInv, UNCHANGED <<m_pid, since, sub_process_counter>>,
           ppc' = "fork" => ppc = "fork"
    PROVE  TurnInv'
BY DEF TurnInv, Dist

LEMMA TurnStep == TypeOK /\ TurnInv /\ [Next]_vars => TurnInv'
<1> SUFFICES ASSUME TypeOK, TurnInv, [Next]_vars PROVE TurnInv'
  OBVIOUS
<1>1. CASE Fork
  <2>1. \A j, t \in Idx : since'[j][t] = 0
    BY <1>1 DEF Fork, TurnInv
  <2> QED
    BY <2>1 DEF TurnInv
<1>2. CASE ParentListen
  <2>1. PICK t \in Idx :
          /\ IsTarget(t)
          /\ sub_process_counter' = NextCounter(t)
          /\ since' = [j \in Idx |-> [k \in Idx |->
                        IF j = t THEN 0
                        ELSE IF k = t THEN since[j][k] + 1 ELSE since[j][k]]]
    BY <1>2 DEF ParentListen
  <2>2. m_pid' = m_pid /\ ppc' = ppc /\ ppc = "loop"
    BY <1>2 DEF ParentListen, Handling
  <2>3. ASSUME NEW j \in Idx, NEW k \in Idx, m_pid[j] # -1
        PROVE  /\ since'[j][k] <= 1
               /\ since'[j][k] = 1 => Dist(sub_process_counter', k)
                                        > Dist(sub_process_counter', j)
    <3> DEFINE c == sub_process_counter
    <3>1. c \in Idx /\ since[j][k] \in Nat /\ since[j][t] \in Nat
      BY DEF TypeOK, ParentType
    <3>2. CASE j = t
      BY <2>1, <3>2
    <3>3. CASE j # t
      <4>1. Dist(c, t) < Dist(c, j)
        <5>1. Dist(c, t) <= Dist(c, j)
          BY <2>1, <2>3 DEF IsTarget
        <5>2. Dist(c, t) # Dist(c, j) /\ Dist(c, t) \in Int /\ Dist(c, j) \in Int
          BY <3>1, <3>3, DistOrder DEF Idx
        <5> QED
          BY <5>1, <5>2
      <4>2. since[j][t] = 0
        <5>1. Dist(c, t) \in Int /\ Dist(c, j) \in Int
          BY <3>1, <3>3, DistOrder DEF Idx
        <5>2. since[j][t] <= 1 /\ (since[j][t] = 1 => Dist(c, t) > Dist(c, j))
          BY <2>3 DEF TurnInv
        <5> QED
          BY <3>1, <4>1, <5>1, <5>2
      <4>3. CASE k = t
        <5>1. since'[j][k] = 1
          BY <2>1, <3>3, <4>2, <4>3
        <5>2. Dist(NextCounter(t), j) < Dist(NextCounter(t), t)
          BY <3>3, DistLast
        <5>3. NextCounter(t) \in Idx
          BY DEF NextCounter, Idx
        <5> QED
          BY <2>1, <4>3, <5>1, <5>2, <5>3 DEF Dist, Idx
      <4>4. CASE k # t
        <5>1. since'[j][k] = since[j][k]
          BY <2>1, <3>3, <4>4
        <5>2. since[j][k] <= 1 /\ (since[j][k] = 1 => Dist(c, k) > Dist(c, j))
          BY <2>3 DEF TurnInv
        <5>3. ASSUME since[j][k] = 1
              PROVE  Dist(NextCounter(t), j) < Dist(NextCounter(t), k)
          <6>1. Dist(c, j) < Dist(c, k)
            BY <3>1, <5>2, <5>3 DEF Dist, Idx
          <6> QED
            BY <3>1, <4>1, <6>1, DistShift
        <5>4. NextCounter(t) \in Idx
          BY DEF NextCounter, Idx
        <5> QED
          BY <2>1, <5>1, <5>2, <5>3, <5>4 DEF Dist, Idx
      <4> QED
        BY <4>3, <4>4
    <3> QED
      BY <3>2, <3>3
  <2> QED
    BY <2>2, <2>3 DEF TurnInv
<1>3. CASE ParentSigChld
  <2>1. \A j \in Idx : m_pid'[j] # -1 => m_pid[j] # -1
    BY <1>3 DEF ParentSigChld, Marked
  <2>2. ppc' # "fork" /\ UNCHANGED <<since, sub_process_counter>>
    BY <1>3 DEF ParentSigChld, HandlingSignal
  <2> QED
    BY <2>1, <2>2 DEF TurnInv, Dist
<1>4. CASE \/ Setup \/ ParentEpollWait \/ ParentNoChild \/ ParentRecvSignals
           \/ ParentSigTerm \/ ParentExit \/ Connect \/ Terminate
  BY <1>4, TurnUnchanged
     DEF Setup, ParentEpollWait, ParentNoChild, ParentRecvSignals,
         ParentSigTerm, ParentExit, Connect, Terminate, parentVars
<1>5. CASE UNCHANGED parentVars
  BY <1>5, TurnUnchanged DEF parentVars
<1>6. ASSUME NEW s \in {"CHLD", "TERM"}, DeliverParent(s)
      PROVE  UNCHANGED parentVars
  BY <1>6 DEF DeliverParent
<1>7. ASSUME NEW i \in Idx, ChildStep(i) \/ DeliverChild(i)
      PROVE  UNCHANGED parentVars
  BY <1>7 DEF ChildStep, ChildSetup, ChildEpollWait, ChildPipe, ChildSig,
              ChildExit, DeliverChild
<1>8. ASSUME NEW i \in Idx, ChildCrash(i) \/ TerminateChild(i)
      PROVE  UNCHANGED parentVars
  BY <1>8 DEF ChildCrash, TerminateChild
<1>9. UNCHANGED vars => UNCHANGED parentVars
  BY DEF vars, parentVars
<1> QED
  BY <1>1, <1>2, <1>3, <1>4, <1>5, <1>6, <1>7, <1>8, <1>9 DEF Next, ParentStep

\* Between two turns of a child that is in the table every other child gets
\* at most one connection event, for any pool size and any deaths.
THEOREM RoundRobinFair == Spec => []RoundRobin
<1>1. TurnInv => RoundRobin
  BY DEF TurnInv, RoundRobin
<1> QED
  BY <1>1, TypeCorrect, TurnInit, TurnStep, PTL DEF Spec

-----------------------------------------------------------------------------
(* Edge-triggered notification of the children.                            *)

\* Only a child that has registered its pipe has edges.
QuietInv ==
    \A i \in Idx : child[i] # "loop" => cReady[i] = {} /\ cEvents[i] = {}

EdgeInv == QuietInv /\ EdgeBacked /\ FullPipeHasEdge

LEMMA EdgeInit == Init => EdgeInv
BY DEF Init, EdgeInv, QuietInv, EdgeBacked, FullPipeHasEdge, Edges

LEMMA EdgeUnchanged ==
    ASSUME EdgeInv, UNCHANGED <<child, cReady, cEvents, pipe>>
    PROVE  EdgeInv'
BY DEF EdgeInv, QuietInv, EdgeBacked, FullPipeHasEdge, Edges

\* The death of a child takes its edges and its notifications together.
LEMMA EdgeDie ==
    ASSUME TypeOK, EdgeInv, NEW i \in Idx, Die(i)
    PROVE  EdgeInv'
<1>1. \A j \in Idx : /\ child'[j] = IF j = i THEN "zombie" ELSE child[j]
                     /\ cEvents'[j] = IF j = i THEN {} ELSE cEvents[j]
                     /\ cReady'[j] = IF j = i THEN {} ELSE cReady[j]
                     /\ pipe'[j] = IF j = i THEN 0 ELSE pipe[j]
  BY DEF Die, TypeOK, ChildType
<1> QED
  BY <1>1 DEF EdgeInv, QuietInv, EdgeBacked, FullPipeHasEdge, Edges

LEMMA EdgeStep == TypeOK /\ PoolInv /\ EdgeInv /\ [Next]_vars => EdgeInv'
<1> SUFFICES ASSUME TypeOK, PoolInv, EdgeInv, [Next]_vars PROVE EdgeInv'
  OBVIOUS
<1> USE DEF EdgeInv
<1>0. \A j \in Idx : pipe[j] \in 0 .. PipeCap
  BY DEF TypeOK, ChildType
<1>1. CASE Fork
  <2>1. UNCHANGED <<cReady, cEvents, pipe>>
    BY <1>1 DEF Fork
  <2>2. nfork \in Idx /\ child[nfork] = "none"
    BY <1>1 DEF Fork, PoolInv, ForkInv, TypeOK, ParentType, Idx
  <2>3. \A j \in Idx : child'[j] = IF j = nfork THEN "start" ELSE child[j]
    BY <1>1 DEF Fork, TypeOK, ChildType
  <2> QED
    BY <2>1, <2>2, <2>3 DEF QuietInv, EdgeBacked, FullPipeHasEdge, Edges
<1>2. CASE ParentListen
  <2>1. PICK t \in Idx : Send(t)
    BY <1>2 DEF ParentListen
  <2>2. UNCHANGED <<child, cEvents>>
    BY <1>2 DEF ParentListen
  <2>3. CASE UNCHANGED <<pipe, cReady>>
    BY <2>2, <2>3, EdgeUnchanged
  <2>4. CASE /\ pipe[t] < PipeCap
             /\ pipe' = [pipe EXCEPT ![t] = @ + 1]
             /\ cReady' = [cReady EXCEPT ![t] =
                      IF child[t] = "loop" THEN @ \cup {"pipe"} ELSE @]
    <3>1. \A j \in Idx :
            /\ pipe'[j] = IF j = t THEN pipe[j] + 1 ELSE pipe[j]
            /\ cReady'[j] = IF j = t /\ child[j] = "loop"
                            THEN cReady[j] \cup {"pipe"} ELSE cReady[j]
      BY <2>4 DEF TypeOK, ChildType
    <3>2. QuietInv' /\ FullPipeHasEdge'
      BY <1>0, <2>2, <3>1 DEF QuietInv, FullPipeHasEdge
    <3>3. EdgeBacked'
      <4> SUFFICES ASSUME NEW j \in Idx
                   PROVE  Edges("pipe", cReady'[j], cEvents'[j]) <= pipe'[j]
        BY DEF EdgeBacked
      <4>1. Edges("pipe", cReady[j], cEvents[j]) <= pipe[j]
        BY DEF EdgeBacked
      <4>2. CASE j = t
        <5>1. Edges("pipe", cReady'[j], cEvents'[j])
                 <= Edges("pipe", cReady[j], cEvents[j]) + 1
          BY <2>2, <3>1 DEF Edges
        <5>2. /\ Edges("pipe", cReady'[j], cEvents'[j]) \in Int
              /\ Edges("pipe", cReady[j], cEvents[j]) \in Int
          BY DEF Edges
        <5>3. pipe'[j] = pipe[j] + 1
          BY <3>1, <4>2
        <5>4. pipe[j] \in Int
          BY <1>0
        <5> HIDE DEF EdgeInv
        <5> QED
          BY <4>1, <5>1, <5>2, <5>3, <5>4
      <4>3. CASE j # t
        BY <2>2, <3>1, <4>1, <4>3
      <4> QED
        BY <4>2, <4>3
    <3> QED
      BY <3>2, <3>3
  <2> QED
    BY <2>1, <2>3, <2>4 DEF Send
<1>3. CASE ParentSigChld
  <2>1. UNCHANGED <<cReady, cEvents, pipe>>
    BY <1>3 DEF ParentSigChld
  <2>2. \A j \in Idx : child'[j] = IF child[j] = "zombie" THEN "reaped" ELSE child[j]
    BY <1>3 DEF ParentSigChld, Collected
  <2> QED
    BY <2>1, <2>2 DEF QuietInv, EdgeBacked, FullPipeHasEdge, Edges
<1>4. CASE \/ Setup \/ ParentEpollWait \/ ParentNoChild \/ ParentRecvSignals
           \/ ParentSigTerm \/ ParentExit \/ Connect \/ Terminate
  BY <1>4, EdgeUnchanged
     DEF Setup, ParentEpollWait, ParentNoChild, ParentRecvSignals,
         ParentSigTerm, ParentExit, Connect, Terminate, childVars
<1>5. ASSUME NEW s \in {"CHLD", "TERM"}, DeliverParent(s) PROVE EdgeInv'
  BY <1>5, EdgeUnchanged DEF DeliverParent, childVars
<1>6. ASSUME NEW i \in Idx, ChildStep(i) PROVE EdgeInv'
  <2>1. CASE ChildSetup(i)
    <3>1. \A j \in Idx :
            /\ child'[j] = IF j = i THEN "loop" ELSE child[j]
            /\ cReady'[j] = IF j = i THEN (IF pipe[i] > 0 THEN {"pipe"} ELSE {})
                            ELSE cReady[j]
      BY <2>1 DEF ChildSetup, TypeOK, ChildType
    <3>2. UNCHANGED <<cEvents, pipe>> /\ cEvents[i] = {}
      BY <2>1 DEF ChildSetup, QuietInv
    <3> QED
      BY <1>0, <3>1, <3>2 DEF QuietInv, EdgeBacked, FullPipeHasEdge, Edges
  <2>2. CASE ChildEpollWait(i)
    <3>1. \A j \in Idx :
            /\ cEvents'[j] = IF j = i THEN cReady[i] ELSE cEvents[j]
            /\ cReady'[j] = IF j = i THEN {} ELSE cReady[j]
      BY <2>2 DEF ChildEpollWait, Keep, TypeOK, ChildType
    <3>2. UNCHANGED <<child, pipe>> /\ cEvents[i] = {} /\ child[i] = "loop"
      BY <2>2 DEF ChildEpollWait
    <3> QED
      BY <1>0, <3>1, <3>2 DEF QuietInv, EdgeBacked, FullPipeHasEdge, Edges
  <2>3. CASE ChildPipe(i)
    <3>1. UNCHANGED <<child, cReady>> /\ child[i] = "loop" /\ "pipe" \in cEvents[i]
      BY <2>3 DEF ChildPipe
    <3>2. pipe[i] >= 1 /\ ("pipe" \in cReady[i] => pipe[i] >= 2)
      BY <1>0, <3>1 DEF EdgeBacked, Edges
    <3>3. \A j \in Idx :
            cEvents'[j] = IF j = i THEN cEvents[j] \ {"pipe"} ELSE cEvents[j]
      BY <2>3 DEF ChildPipe, TypeOK, ChildType
    <3>4. pipe' = [pipe EXCEPT ![i] = IF @ > 0 THEN @ - 1 ELSE 0]
      BY <2>3 DEF ChildPipe
    <3>5. \A j \in Idx : pipe'[j] = IF j = i THEN pipe[j] - 1 ELSE pipe[j]
      BY <1>0, <3>2, <3>4 DEF TypeOK, ChildType
    <3>6. EdgeBacked'
      <4> SUFFICES ASSUME NEW j \in Idx
                   PROVE  Edges("pipe", cReady'[j], cEvents'[j]) <= pipe'[j]
        BY DEF EdgeBacked
      <4>1. CASE j = i
        <5>1. "pipe" \notin cEvents'[j] /\ cReady'[j] = cReady[j]
          BY <3>1, <3>3, <4>1
        <5>2. Edges("pipe", cReady'[j], cEvents'[j])
                 = IF "pipe" \in cReady[j] THEN 1 ELSE 0
          BY <5>1 DEF Edges
        <5>3. pipe'[j] = pipe[j] - 1 /\ pipe[j] \in Int
          BY <1>0, <3>5, <4>1
        <5> QED
          BY <3>2, <4>1, <5>2, <5>3
      <4>2. CASE j # i
        BY <3>1, <3>3, <3>5, <4>2 DEF EdgeBacked
      <4> QED
        BY <4>1, <4>2
    <3>7. QuietInv'
      BY <3>1, <3>3 DEF QuietInv
    <3>8. FullPipeHasEdge'
      <4> SUFFICES ASSUME NEW j \in Idx, child[j] = "loop", pipe'[j] = PipeCap
                   PROVE  "pipe" \in cReady'[j] \cup cEvents'[j]
        BY <3>1 DEF FullPipeHasEdge
      <4>1. j # i
        BY <1>0, <3>5
      <4> QED
        BY <3>1, <3>3, <3>5, <4>1 DEF FullPipeHasEdge
    <3> QED
      BY <3>6, <3>7, <3>8
  <2>4. CASE ChildSig(i)
    <3>1. \A j \in Idx :
            cEvents'[j] = IF j = i THEN cEvents[j] \ {"sig"} ELSE cEvents[j]
      BY <2>4 DEF ChildSig, TypeOK, ChildType
    <3>2. UNCHANGED <<child, cReady, pipe>>
      BY <2>4 DEF ChildSig
    <3> QED
      BY <3>1, <3>2 DEF QuietInv, EdgeBacked, FullPipeHasEdge, Edges
  <2>5. CASE ChildExit(i)
    BY <2>5, EdgeDie DEF ChildExit
  <2> QED
    BY <1>6, <2>1, <2>2, <2>3, <2>4, <2>5 DEF ChildStep
<1>7. ASSUME NEW i \in Idx, DeliverChild(i) PROVE EdgeInv'
  <2>1. CASE Die(i)
    BY <2>1, EdgeDie
  <2>2. CASE /\ child[i] = "loop"
             /\ cReady' = [cReady EXCEPT ![i] = @ \cup {"sig"}]
             /\ UNCHANGED <<child, cEvents, pipe>>
    <3>1. \A j \in Idx :
            cReady'[j] = IF j = i THEN cReady[j] \cup {"sig"} ELSE cReady[j]
      BY <2>2 DEF TypeOK, ChildType
    <3> QED
      BY <2>2, <3>1 DEF QuietInv, EdgeBacked, FullPipeHasEdge, Edges
  <2> QED
    BY <1>7, <2>1, <2>2 DEF DeliverChild
<1>8. ASSUME NEW i \in Idx, ChildCrash(i) PROVE EdgeInv'
  BY <1>8, EdgeDie DEF ChildCrash
<1>9. ASSUME NEW i \in Idx, TerminateChild(i) PROVE EdgeInv'
  BY <1>9, EdgeUnchanged DEF TerminateChild
<1>10. CASE UNCHANGED vars
  BY <1>10, EdgeUnchanged DEF vars
<1> QED
  BY <1>1, <1>2, <1>3, <1>4, <1>5, <1>6, <1>7, <1>8, <1>9, <1>10
     DEF Next, ParentStep

LEMMA EdgeInvariant == Spec => []EdgeInv
BY TypeCorrect, PoolInvariant, EdgeInit, EdgeStep, PTL DEF Spec

\* A child never handles a pipe event without a notification to read: the
\* EAGAIN case of its recv is dead code.
THEOREM EveryEdgeBacked == Spec => []EdgeBacked
BY EdgeInvariant, PTL DEF EdgeInv

\* The parent's blocking send never waits for a child that has nothing left
\* to read, for every buffer size.
THEOREM NoSilentFullPipe == Spec => []FullPipeHasEdge
BY EdgeInvariant, PTL DEF EdgeInv

\* Both: neither the child's recv nor the parent's send meets a pipe with
\* which it cannot go on.
THEOREM PipesNeverStall == Spec => []EdgesMatch
BY EdgeInvariant, PTL DEF EdgeInv, EdgesMatch

-----------------------------------------------------------------------------
(* Connections and notifications.                                          *)

\* A batch reports no event twice, and nothing is reported or notified before
\* the parent has registered the listening socket.
BatchInv ==
    /\ \A k, n \in DOMAIN events : events[k] = events[n] => k = n
    /\ ppc \in {"fork", "setup"} =>
         events = <<>> /\ pReady = {} /\ \A i \in Idx : pipe[i] = 0

\* The edges of the listening socket, reported or not.
ListenEdges == Edges("listen", pReady, {events[k] : k \in DOMAIN events})

LEMMA BackedIs ==
    /\ NotificationBacked <=> Cardinality(Notified) + ListenEdges <= backlog
    /\ NotificationBacked' <=> Cardinality(Notified)' + ListenEdges' <= backlog'
BY DEF NotificationBacked, ListenEdges

LEMMA ListenEdgesIs ==
    /\ ListenEdges = (IF "listen" \in pReady THEN 1 ELSE 0)
                     + (IF \E k \in DOMAIN events : events[k] = "listen" THEN 1 ELSE 0)
    /\ ListenEdges' = (IF "listen" \in pReady' THEN 1 ELSE 0)
                     + (IF \E k \in DOMAIN events' : events'[k] = "listen" THEN 1 ELSE 0)
    /\ ListenEdges \in Nat /\ ListenEdges' \in Nat
<1>1. ListenEdges = (IF "listen" \in pReady THEN 1 ELSE 0)
                   + (IF \E k \in DOMAIN events : events[k] = "listen" THEN 1 ELSE 0)
  BY DEF ListenEdges, Edges
<1>2. ListenEdges' = (IF "listen" \in pReady' THEN 1 ELSE 0)
                   + (IF \E k \in DOMAIN events' : events'[k] = "listen" THEN 1 ELSE 0)
  BY DEF ListenEdges, Edges
<1> QED
  BY <1>1, <1>2

LEMMA NotifiedFinite ==
    /\ IsFiniteSet(Notified) /\ Cardinality(Notified) \in Nat
    /\ Cardinality(Notified)' \in Nat
<1>1. IsFiniteSet(Idx) /\ IsFiniteSet(1 .. PipeCap)
  BY FS_Interval DEF Idx
<1>2. IsFiniteSet(Idx \X (1 .. PipeCap))
  BY <1>1, FS_Product
<1>3. Notified \subseteq Idx \X (1 .. PipeCap) /\ Notified' \subseteq Idx \X (1 .. PipeCap)
  BY DEF Notified
<1> QED
  BY <1>2, <1>3, FS_Subset, FS_CardinalityType

\* One notification more, one less, or a pipe that is gone.
LEMMA NotifiedMore ==
    ASSUME TypeOK, NEW t \in Idx, pipe[t] < PipeCap, pipe' = [pipe EXCEPT ![t] = @ + 1]
    PROVE  Cardinality(Notified)' = Cardinality(Notified) + 1
<1>0. pipe[t] \in Nat /\ pipe[t] + 1 \in 1 .. PipeCap
  BY DEF TypeOK, ChildType
<1> DEFINE n == <<t, pipe[t] + 1>>
           A == Notified
           B == Notified'
<1>1. \A i \in Idx : pipe'[i] = IF i = t THEN pipe[i] + 1 ELSE pipe[i]
  BY DEF TypeOK, ChildType
<1>2. n \notin A
  BY <1>0 DEF Notified
<1>3. B = A \cup {n}
  <2>1. ASSUME NEW i \in Idx, NEW k \in 1 .. PipeCap
        PROVE  k <= pipe'[i] <=> k <= pipe[i] \/ (i = t /\ k = pipe[t] + 1)
    BY <1>0, <1>1 DEF TypeOK, ChildType
  <2>2. n \in Idx \X (1 .. PipeCap)
    BY <1>0
  <2> QED
    BY <2>1, <2>2 DEF Notified
<1> HIDE DEF n, A, B
<1>4. Cardinality(B) = Cardinality(A) + 1
  BY <1>2, <1>3, NotifiedFinite, FS_AddElement DEF A
<1> QED
  BY <1>4 DEF A, B

LEMMA NotifiedLess ==
    ASSUME TypeOK, NEW t \in Idx, pipe[t] >= 1, pipe' = [pipe EXCEPT ![t] = @ - 1]
    PROVE  Cardinality(Notified)' = Cardinality(Notified) - 1
<1>0. pipe[t] \in 1 .. PipeCap
  BY DEF TypeOK, ChildType
<1> DEFINE n == <<t, pipe[t]>>
           A == Notified
           B == Notified'
<1>1. \A i \in Idx : pipe'[i] = IF i = t THEN pipe[i] - 1 ELSE pipe[i]
  BY DEF TypeOK, ChildType
<1>2. n \in A
  BY <1>0 DEF Notified
<1>3. B = A \ {n}
  <2>1. ASSUME NEW i \in Idx, NEW k \in 1 .. PipeCap
        PROVE  k <= pipe'[i] <=> k <= pipe[i] /\ ~(i = t /\ k = pipe[t])
    BY <1>0, <1>1 DEF TypeOK, ChildType
  <2> QED
    BY <2>1 DEF Notified
<1> HIDE DEF n, A, B
<1>4. Cardinality(B) = Cardinality(A) - 1
  BY <1>2, <1>3, NotifiedFinite, FS_RemoveElement DEF A
<1> QED
  BY <1>4 DEF A, B

LEMMA NotifiedNoMore ==
    ASSUME \A i \in Idx : pipe'[i] <= pipe[i], TypeOK, TypeOK'
    PROVE  Cardinality(Notified)' <= Cardinality(Notified)
<1>1. Notified' \subseteq Notified
  <2>1. \A i \in Idx : pipe[i] \in Nat /\ pipe'[i] \in Nat
    BY DEF TypeOK, ChildType
  <2> QED
    BY <2>1 DEF Notified
<1> QED
  BY <1>1, NotifiedFinite, FS_Subset

\* What is backed stays backed when nothing is added to the edges and pipes.
LEMMA BackedSame ==
    ASSUME TypeOK, TypeOK', NotificationBacked, backlog' >= backlog,
           \A i \in Idx : pipe'[i] <= pipe[i], ListenEdges' <= ListenEdges
    PROVE  NotificationBacked'
<1>1. Cardinality(Notified)' <= Cardinality(Notified)
  BY NotifiedNoMore
<1>2. /\ Cardinality(Notified) \in Nat /\ Cardinality(Notified)' \in Nat
      /\ ListenEdges \in Nat /\ ListenEdges' \in Nat
      /\ backlog \in Nat /\ backlog' \in Nat
  BY NotifiedFinite, ListenEdgesIs DEF TypeOK, EnvType
<1> QED
  BY <1>1, <1>2, BackedIs

LEMMA BatchInit == Init => BatchInv
BY DEF Init, BatchInv

LEMMA BatchStep == TypeOK /\ BatchInv /\ [Next]_vars => BatchInv'
<1> SUFFICES ASSUME TypeOK, BatchInv, [Next]_vars PROVE BatchInv'
  OBVIOUS
<1> DEFINE Once == \A k, n \in DOMAIN events : events[k] = events[n] => k = n
           Early == ppc \in {"fork", "setup"} =>
                      events = <<>> /\ pReady = {} /\ \A i \in Idx : pipe[i] = 0
<1>a. Once /\ Early
  BY DEF BatchInv
<1>b. BatchInv' <=> Once' /\ Early'
  BY DEF BatchInv
<1>o. UNCHANGED events => Once'
  BY <1>a
<1>t. ASSUME events # <<>>, events' = Tail(events) PROVE Once'
  <2>1. /\ DOMAIN events' = 1 .. Len(events) - 1
        /\ \A k \in DOMAIN events' : events'[k] = events[k + 1] /\ k + 1 \in DOMAIN events
        /\ Len(events) \in Nat
    BY <1>t DEF TypeOK, ParentType
  <2> QED
    BY <1>a, <2>1
<1> HIDE DEF Once, Early
<1>1. CASE Fork \/ Setup
  <2>1. UNCHANGED <<events, pipe>> /\ ppc \in {"fork", "setup"}
    BY <1>1 DEF Fork, Setup, childVars
  <2>2. Early'
    BY <1>1, <1>a, <2>1 DEF Fork, Setup, Early, signalVars
  <2> QED
    BY <1>b, <1>o, <2>1, <2>2
<1>2. CASE ParentEpollWait
  <2>1. PICK S : events' \in Orders(S)
    BY <1>2 DEF ParentEpollWait
  <2>2. events' \in {<<"listen">>, <<"sig">>, <<"listen", "sig">>, <<"sig", "listen">>}
    BY <2>1, Zenon DEF Orders
  <2>3. Once'
    <3>1. CASE events' = <<"listen">> \/ events' = <<"sig">>
      BY <3>1 DEF Once
    <3>2. CASE events' = <<"listen", "sig">> \/ events' = <<"sig", "listen">>
      BY <3>2 DEF Once
    <3> QED
      BY <2>2, <3>1, <3>2
  <2>4. Early'
    BY <1>2 DEF ParentEpollWait, Early
  <2> QED
    BY <1>b, <2>3, <2>4
<1>3. CASE ParentListen \/ ParentRecvSignals
  <2>1. events # <<>> /\ events' = Tail(events) /\ ppc' = "loop"
    BY <1>3 DEF ParentListen, ParentRecvSignals, Handling
  <2> QED
    BY <1>b, <1>t, <2>1 DEF Early
<1>4. CASE ParentNoChild
  BY <1>4, <1>b DEF ParentNoChild, Handling, Early, Once
<1>5. CASE ParentSigChld \/ ParentSigTerm \/ ParentExit
  <2>1. UNCHANGED events /\ ppc' \in {"loop", "exited"}
    BY <1>5 DEF ParentSigChld, ParentSigTerm, ParentExit, HandlingSignal
  <2> QED
    BY <1>b, <1>o, <2>1 DEF Early
<1>6. ASSUME NEW s \in {"CHLD", "TERM"}, DeliverParent(s) PROVE BatchInv'
  BY <1>6, <1>b, <1>o DEF DeliverParent, Early, parentVars
<1>p. ASSUME UNCHANGED <<ppc, events, pReady>>,
             \A i \in Idx : pipe[i] = 0 => pipe'[i] = 0
      PROVE  BatchInv'
  BY <1>p, <1>a, <1>b, <1>o DEF Early
<1>d. ASSUME NEW i \in Idx, Die(i) PROVE \A j \in Idx : pipe[j] = 0 => pipe'[j] = 0
  BY <1>d DEF Die, TypeOK, ChildType
<1>7. ASSUME NEW i \in Idx, ChildStep(i) PROVE BatchInv'
  <2>1. UNCHANGED <<ppc, events, pReady>>
    BY <1>7 DEF ChildStep, ChildSetup, ChildEpollWait, ChildPipe, ChildSig, ChildExit,
                parentVars, signalVars
  <2>2. \A j \in Idx : pipe[j] = 0 => pipe'[j] = 0
    <3>1. CASE ChildPipe(i)
      BY <3>1 DEF ChildPipe, TypeOK, ChildType
    <3>2. CASE ChildExit(i)
      BY <1>d, <3>2 DEF ChildExit
    <3> QED
      BY <1>7, <3>1, <3>2 DEF ChildStep, ChildSetup, ChildEpollWait, ChildSig
  <2> QED
    BY <1>p, <2>1, <2>2
<1>8. ASSUME NEW i \in Idx, DeliverChild(i) \/ ChildCrash(i) \/ TerminateChild(i)
      PROVE  BatchInv'
  BY <1>8, <1>d, <1>p DEF DeliverChild, ChildCrash, TerminateChild, parentVars, signalVars
<1>9. CASE Connect
  <2>1. UNCHANGED <<events, ppc, pipe>> /\ (ppc # "loop" => pReady' = pReady)
    BY <1>9 DEF Connect, parentVars, childVars
  <2> QED
    BY <1>a, <1>b, <1>o, <2>1 DEF Early
<1>10. CASE Terminate
  <2>1. UNCHANGED <<events, pReady, pipe>> /\ ppc' \in {"loop", "killed"}
    BY <1>10 DEF Terminate, childVars
  <2> QED
    BY <1>b, <1>o, <2>1 DEF Early
<1>11. CASE UNCHANGED vars
  BY <1>11, <1>p DEF vars
<1> QED
  BY <1>1, <1>2, <1>3, <1>4, <1>5, <1>6, <1>7, <1>8, <1>9, <1>10, <1>11
  DEF Next, ParentStep

LEMMA BackedInit == Init => NotificationBacked
<1> SUFFICES ASSUME Init PROVE NotificationBacked
  OBVIOUS
<1>1. Notified = {}
  BY DEF Init, Notified
<1>2. Cardinality(Notified) = 0
  BY <1>1, FS_EmptySet
<1>3. ListenEdges = 0
  BY ListenEdgesIs DEF Init
<1> QED
  BY <1>2, <1>3, BackedIs DEF Init

LEMMA BackedStep ==
    TypeOK /\ TypeOK' /\ EdgeInv /\ BatchInv /\ NotificationBacked /\ [Next]_vars
        => NotificationBacked'
<1> SUFFICES ASSUME TypeOK, TypeOK', EdgeInv, BatchInv, NotificationBacked, [Next]_vars
             PROVE  NotificationBacked'
  OBVIOUS
<1>t. /\ Cardinality(Notified) \in Nat /\ Cardinality(Notified)' \in Nat
      /\ ListenEdges \in Nat /\ ListenEdges' \in Nat
      /\ backlog \in Nat /\ backlog' \in Nat
  BY NotifiedFinite, ListenEdgesIs DEF TypeOK, EnvType
<1>b. /\ Cardinality(Notified) + ListenEdges <= backlog
      /\ NotificationBacked' <=> Cardinality(Notified)' + ListenEdges' <= backlog'
  BY BackedIs
<1>l. ListenEdges' = (IF "listen" \in pReady' THEN 1 ELSE 0)
                     + (IF \E k \in DOMAIN events' : events'[k] = "listen" THEN 1 ELSE 0)
  BY ListenEdgesIs
<1>p. UNCHANGED pipe => \A i \in Idx : pipe'[i] <= pipe[i]
  BY DEF TypeOK, ChildType
<1>e. UNCHANGED <<events, pReady>> => ListenEdges' <= ListenEdges
  BY <1>t DEF ListenEdges, Edges
<1>s. UNCHANGED <<pipe, backlog, events, pReady>> => NotificationBacked'
  BY <1>e, <1>p, <1>t, BackedSame
<1>1. CASE Setup
  <2>1. /\ events = <<>> /\ \A i \in Idx : pipe[i] = 0
        /\ UNCHANGED <<events, pipe, backlog>>
    BY <1>1 DEF Setup, BatchInv, childVars, envVars
  <2>2. Notified' = {}
    BY <2>1 DEF Notified
  <2>3. Cardinality(Notified)' = 0
    BY <2>2, FS_EmptySet
  <2>4. ListenEdges' = IF backlog > 0 THEN 1 ELSE 0
    BY <1>1, <1>l, <2>1 DEF Setup
  <2> QED
    BY <1>b, <1>t, <2>1, <2>3, <2>4
<1>2. CASE ParentEpollWait
  <2>1. UNCHANGED <<pipe, backlog>> /\ events = <<>> /\ pReady' = {}
    BY <1>2 DEF ParentEpollWait, childVars, envVars, Keep
  <2>2. (\E k \in DOMAIN events' : events'[k] = "listen") => "listen" \in pReady
    BY <1>2 DEF ParentEpollWait, Orders
  <2>3. ListenEdges' <= ListenEdges
    BY <1>l, <2>1, <2>2, ListenEdgesIs
  <2> QED
    BY <1>p, <1>t, <2>1, <2>3, BackedSame
<1>3. CASE ParentNoChild
  <2>1. UNCHANGED <<pipe, backlog, pReady>> /\ events' = <<>>
    BY <1>3 DEF ParentNoChild, childVars, envVars, signalVars
  <2>2. ListenEdges' <= ListenEdges
    BY <1>l, <2>1, ListenEdgesIs
  <2> QED
    BY <1>p, <1>t, <2>1, <2>2, BackedSame
<1>4. CASE ParentListen \/ ParentRecvSignals
  <2>1. /\ events # <<>> /\ events' = Tail(events) /\ UNCHANGED <<pReady, backlog>>
    BY <1>4 DEF ParentListen, ParentRecvSignals, Handling, signalVars, envVars
  <2>2. /\ DOMAIN events' = 1 .. Len(events) - 1 /\ Len(events) \in Nat \ {0}
        /\ DOMAIN events = 1 .. Len(events) /\ Head(events) = events[1]
        /\ \A k \in DOMAIN events' : events'[k] = events[k + 1] /\ k + 1 \in DOMAIN events
    BY <2>1 DEF TypeOK, ParentType
  <2>3. CASE ParentRecvSignals
    <3>1. ListenEdges' <= ListenEdges
      BY <1>l, <2>1, <2>2, ListenEdgesIs
    <3>2. UNCHANGED pipe
      BY <2>3 DEF ParentRecvSignals, childVars
    <3> QED
      BY <1>p, <1>t, <2>1, <3>1, <3>2, BackedSame
  <2>4. CASE ParentListen
    <3>1. events[1] = "listen"
      BY <2>2, <2>4 DEF ParentListen, Handling
    <3>2. ~ \E k \in DOMAIN events' : events'[k] = "listen"
      BY <2>2, <3>1 DEF BatchInv
    <3>3. \E k \in DOMAIN events : events[k] = "listen"
      BY <2>2, <3>1
    <3>4. ListenEdges' = ListenEdges - 1
      BY <1>l, <2>1, <3>2, <3>3, ListenEdgesIs
    <3>5. PICK t \in Idx : Send(t)
      BY <2>4 DEF ParentListen
    <3>6. CASE UNCHANGED pipe
      BY <1>p, <1>t, <2>1, <3>4, <3>6, BackedSame
    <3>7. CASE pipe[t] < PipeCap /\ pipe' = [pipe EXCEPT ![t] = @ + 1]
      <4>1. Cardinality(Notified)' = Cardinality(Notified) + 1
        BY <3>7, NotifiedMore
      <4> QED
        BY <1>b, <1>t, <2>1, <3>4, <4>1
    <3> QED
      BY <3>5, <3>6, <3>7 DEF Send
  <2> QED
    BY <1>4, <2>3, <2>4
<1>5. CASE Fork \/ ParentSigChld \/ ParentSigTerm \/ ParentExit
  BY <1>5, <1>s DEF Fork, ParentSigChld, ParentSigTerm, ParentExit, childVars, envVars,
                    signalVars
<1>6. ASSUME NEW s \in {"CHLD", "TERM"}, DeliverParent(s) PROVE NotificationBacked'
  <2>1. UNCHANGED <<pipe, backlog, events>> /\ ("listen" \in pReady' => "listen" \in pReady)
    BY <1>6 DEF DeliverParent, parentVars, childVars, envVars
  <2>2. ListenEdges' <= ListenEdges
    BY <1>l, <2>1, ListenEdgesIs
  <2> QED
    BY <1>p, <1>t, <2>1, <2>2, BackedSame
<1>d. ASSUME NEW i \in Idx, Die(i), UNCHANGED <<events, pReady, backlog>>
      PROVE  NotificationBacked'
  <2>1. \A j \in Idx : pipe'[j] <= pipe[j]
    BY <1>d DEF Die, TypeOK, ChildType
  <2> QED
    BY <1>d, <1>e, <1>t, <2>1, BackedSame
<1>7. ASSUME NEW i \in Idx, ChildStep(i) PROVE NotificationBacked'
  <2>1. UNCHANGED <<events, pReady>>
    BY <1>7 DEF ChildStep, ChildSetup, ChildEpollWait, ChildPipe, ChildSig, ChildExit,
                parentVars, signalVars
  <2>2. CASE ChildPipe(i)
    <3>1. pipe[i] >= 1 /\ pipe[i] \in Nat
      BY <2>2 DEF ChildPipe, EdgeInv, EdgeBacked, Edges, TypeOK, ChildType
    <3>2. pipe' = [pipe EXCEPT ![i] = @ - 1]
      <4>1. pipe' = [pipe EXCEPT ![i] = IF pipe[i] > 0 THEN pipe[i] - 1 ELSE 0]
        BY <2>2 DEF ChildPipe
      <4>2. (IF pipe[i] > 0 THEN pipe[i] - 1 ELSE 0) = pipe[i] - 1
        BY <3>1
      <4> QED
        BY <4>1, <4>2
    <3>3. Cardinality(Notified)' = Cardinality(Notified) - 1
      BY <3>1, <3>2, NotifiedLess
    <3>4. backlog' >= backlog - 1
      BY <1>t, <2>2 DEF ChildPipe
    <3>5. ListenEdges' <= ListenEdges
      BY <1>e, <2>1
    <3> QED
      BY <1>b, <1>t, <3>3, <3>4, <3>5
  <2>3. CASE ChildExit(i)
    BY <1>d, <2>3 DEF ChildExit, parentVars, envVars
  <2>4. CASE ChildSetup(i) \/ ChildEpollWait(i) \/ ChildSig(i)
    BY <1>s, <2>1, <2>4 DEF ChildSetup, ChildEpollWait, ChildSig, envVars
  <2> QED
    BY <1>7, <2>2, <2>3, <2>4 DEF ChildStep
<1>8. ASSUME NEW i \in Idx, DeliverChild(i) \/ ChildCrash(i) \/ TerminateChild(i)
      PROVE  NotificationBacked'
  BY <1>8, <1>d, <1>s
  DEF DeliverChild, ChildCrash, TerminateChild, parentVars, signalVars, envVars
<1>9. CASE Connect
  <2>1. UNCHANGED <<pipe, events>> /\ backlog' = backlog + 1
    BY <1>9 DEF Connect, parentVars, childVars
  <2>2. ListenEdges' <= ListenEdges + 1
    BY <1>l, <1>9, ListenEdgesIs DEF Connect, parentVars
  <2>3. Cardinality(Notified)' <= Cardinality(Notified)
    BY <1>p, <2>1, NotifiedNoMore
  <2> QED
    BY <1>b, <1>t, <2>1, <2>2, <2>3
<1>10. CASE Terminate
  BY <1>10, <1>s DEF Terminate, childVars
<1>11. CASE UNCHANGED vars
  BY <1>11, <1>s DEF vars
<1> QED
  BY <1>1, <1>2, <1>3, <1>4, <1>5, <1>6, <1>7, <1>8, <1>9, <1>10, <1>11
  DEF Next, ParentStep

\* Every notification, in a pipe or still an edge of the listening socket, has
\* a connection of its own in the backlog: no child that reads one finds
\* nothing to accept, for any number of children and any deaths.
THEOREM EveryNotificationBacked == Spec => []NotificationBacked
<1>1. Init => BatchInv /\ NotificationBacked
  BY BatchInit, BackedInit
<1>2. TypeOK /\ TypeOK' /\ EdgeInv /\ BatchInv /\ NotificationBacked /\ [Next]_vars
          => BatchInv' /\ NotificationBacked'
  BY BatchStep, BackedStep
<1> QED
  BY <1>1, <1>2, TypeCorrect, EdgeInvariant, PTL DEF Spec
=============================================================================
