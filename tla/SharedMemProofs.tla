--------------------------- MODULE SharedMemProofs ---------------------------
(***************************************************************************)
(* Proofs about SharedMemChatroom, for every set of pids, every limit of   *)
(* users and every behaviour of the clients; at the end of the module,     *)
(* proofs about the other chat server, ChatroomServer.                     *)
(***************************************************************************)
EXTENDS SharedMemChatroom, FiniteSets, FiniteSetTheorems, WellFoundedInduction, TLAPS

USE ProcsAssumption, LimitAssumption, BoundsAssumption

-----------------------------------------------------------------------------
(* Types.                                                                  *)

LEMMA FdFacts ==
    /\ PipeFds \subseteq Nat
    /\ NoFd \notin PipeFds /\ ListenFd \notin PipeFds /\ SigFd \notin PipeFds
BY DEF PipeFds, NoFd, ListenFd, SigFd, Kinds

\* A listen event that is still to be handled stands for a waiting client,
\* and the waitpid loop runs for a signal that is being handled.
BatchInv ==
    /\ ListenFd \in events => backlog > 0
    /\ pc = "reap" => signals # <<>>

LEMMA TwoExcept ==
    ASSUME NEW S, NEW T, NEW f \in [S -> T], NEW x, NEW y, NEW a \in T, NEW b \in T
    PROVE  [f EXCEPT ![x] = a, ![y] = b] \in [S -> T]
OBVIOUS

LEMMA TailType ==
    ASSUME NEW S, NEW q \in Seq(S), q # <<>>
    PROVE  Tail(q) \in Seq(S) /\ Head(q) \in S
OBVIOUS

LEMMA AppendType ==
    ASSUME NEW S, NEW q \in Seq(S), NEW s \in S
    PROVE  Append(q, s) \in Seq(S)
OBVIOUS

LEMMA SpendType ==
    ASSUME EnvType, NEW kind \in Kinds, Spend(kind)
    PROVE  left' \in [Kinds -> Nat]
BY DEF EnvType, Spend

LEMMA SigByteType ==
    ASSUME LoopType, NEW s \in {"CHLD", "TERM"}, SigByte(s)
    PROVE  sigPipe' \in Seq({"CHLD", "TERM"}) /\ ready' \in SUBSET Fds
<1>1. /\ sigPipe \in Seq({"CHLD", "TERM"}) /\ ready \in SUBSET Fds
      /\ Append(sigPipe, s) \in Seq({"CHLD", "TERM"})
  BY AppendType DEF LoopType
<1> QED
  BY <1>1 DEF SigByte, Fds

\* What a step of one child changes in the types.
LEMMA StepType ==
    ASSUME TypeOK, NEW p \in Procs, NEW from, NEW new \in Child, Step(p, from, new)
    PROVE  TableType' /\ EnvType' /\ child' \in [Procs -> Child]
BY DEF TypeOK, Step, TableType, EnvType, ChildType, tableVars, envVars

LEMMA QuietType ==
    ASSUME TypeOK, NEW p \in Procs, NEW from, NEW new \in Child, Quiet(p, from, new)
    PROVE  TypeOK'
<1>1. TableType' /\ EnvType' /\ child' \in [Procs -> Child]
  BY StepType DEF Quiet
<1> QED
  BY <1>1 DEF TypeOK, Quiet, Step, LoopType, ChildType, flagVars, signalVars

LEMMA ChildFields ==
    ASSUME TypeOK, NEW p \in Procs
    PROVE  /\ child[p] \in Child
           /\ child[p].ready \in SUBSET {"conn", "pipe"}
           /\ child[p].events \in SUBSET {"conn", "pipe"}
           /\ child[p].toChild \in Seq(Nat)
           /\ child[p].idx \in Nat
BY DEF TypeOK, ChildType, Child

LEMMA EdgeType ==
    ASSUME TypeOK, NEW p \in Procs, NEW e \in {"conn", "pipe"}
    PROVE  Edge(p, e) \in SUBSET {"conn", "pipe"}
BY ChildFields DEF Edge

LEMMA BlankType == Blank \in Child
BY DEF Blank, Child

LEMMA InitType == Init => TypeOK /\ BatchInv
<1> SUFFICES ASSUME Init PROVE TypeOK /\ BatchInv
  OBVIOUS
<1>1. TableType
  BY DEF Init, TableType
<1>2. LoopType
  <2>1. <<>> \in Seq({"CHLD", "TERM"})
    OBVIOUS
  <2> QED
    BY <2>1 DEF Init, LoopType, Fds
<1>3. ChildType /\ EnvType /\ BatchInv
  BY BlankType DEF Init, ChildType, EnvType, BatchInv
<1> QED
  BY <1>1, <1>2, <1>3 DEF TypeOK

\* A dead child is found in the table.
LEMMA DeadIsUser ==
    ASSUME TypeOK, TableExact, NEW p \in Procs, child[p].pc # "none"
    PROVE  /\ user_count >= 1
           /\ sub_process[p] \in Users
           /\ users[sub_process[p]].pid = p
<1>1. PICK k \in Users : users[k].pid = p
  BY DEF TableExact
<1> QED
  BY <1>1 DEF TableExact, Users, TypeOK, TableType

LEMMA ServerTypeStep ==
    ASSUME TypeOK, TableExact, BatchInv, Server
    PROVE  TypeOK'
<1> USE FdFacts
<1>1. ASSUME EpollWait PROVE TypeOK'
  BY <1>1 DEF EpollWait, TypeOK, TableType, LoopType, ChildType, EnvType, flagVars,
       tableVars, signalVars, envVars
<1>2. ASSUME Refuse PROVE TypeOK'
  BY <1>2 DEF Refuse, Handling, TypeOK, TableType, LoopType, ChildType, EnvType,
       BatchInv, flagVars, tableVars, epollVars
<1>3. ASSUME NEW p \in Procs, Accept(p) PROVE TypeOK'
  <2>1. [Blank EXCEPT !.pc = "forked", !.idx = NewIndex] \in Child
    <3>1. NewIndex \in Nat
      BY DEF TypeOK, TableType, NewIndex
    <3> QED
      BY <3>1, BlankType DEF Child
  <2>2. ChildType'
    BY <1>3, <2>1 DEF Accept, TypeOK, ChildType
  <2>3. TableType'
    BY <1>3 DEF Accept, HasRoom, TypeOK, TableType
  <2>4. LoopType' /\ EnvType'
    BY <1>3 DEF Accept, Handling, TypeOK, LoopType, EnvType, BatchInv, flagVars, Fds
  <2> QED
    BY <2>2, <2>3, <2>4 DEF TypeOK
<1>4. ASSUME ForkFails PROVE TypeOK'
  <2>1. TableType' /\ ChildType'
    <3>1. PICK f \in PipeFds, g \in PipeFds :
            /\ users' = [users EXCEPT ![user_count].fd = f]
            /\ open' = open \cup {f, g}
      BY <1>4 DEF ForkFails
    <3>2. users[user_count] \in [pid : Procs \cup {NoProc}, fd : PipeFds \cup {NoFd}]
      BY DEF TypeOK, TableType
    <3>3. users' \in [0 .. USER_LIMIT -> [pid : Procs \cup {NoProc},
                                          fd : PipeFds \cup {NoFd}]]
      BY <3>1, <3>2 DEF TypeOK, TableType
    <3> QED
      BY <1>4, <3>1, <3>3 DEF ForkFails, TypeOK, TableType, ChildType
  <2>2. left' \in [Kinds -> Nat]
    BY <1>4, SpendType DEF ForkFails, TypeOK, Kinds
  <2>3. LoopType' /\ EnvType'
    BY <1>4, <2>2 DEF ForkFails, Handling, TypeOK, LoopType, EnvType, BatchInv,
         flagVars, epollVars
  <2> QED
    BY <2>1, <2>3 DEF TypeOK
<1>5. ASSUME RecvSignals PROVE TypeOK'
  BY <1>5 DEF RecvSignals, Handling, TypeOK, TableType, LoopType, ChildType, EnvType,
       flagVars, tableVars, epollVars, envVars
<1>6. ASSUME SigChld PROVE TypeOK'
  BY <1>6 DEF SigChld, TypeOK, TableType, LoopType, ChildType, EnvType, flagVars,
       tableVars, epollVars, signalVars, envVars
<1>7. ASSUME NEW p \in Procs, Reap(p) PROVE TypeOK'
  <2>1. /\ user_count >= 1 /\ sub_process[p] \in Users
        /\ user_count - 1 \in 0 .. USER_LIMIT /\ user_count \in 0 .. USER_LIMIT
    BY <1>7, DeadIsUser DEF Reap, TypeOK, TableType
  <2>2. users' \in [0 .. USER_LIMIT -> [pid : Procs \cup {NoProc},
                                        fd : PipeFds \cup {NoFd}]]
    BY <1>7, <2>1 DEF Reap, Filled, TypeOK, TableType
  <2>3. sub_process' \in [Procs -> -1 .. USER_LIMIT - 1]
    <3>1. sub_process[p] \in -1 .. USER_LIMIT - 1 /\ -1 \in -1 .. USER_LIMIT - 1
      BY DEF TypeOK, TableType
    <3> QED
      BY <1>7, <3>1, TwoExcept DEF Reap, Mapped, TypeOK, TableType
  <2>4. TableType'
    BY <1>7, <2>1, <2>2, <2>3 DEF Reap, TypeOK, TableType
  <2>5. ChildType' /\ LoopType' /\ EnvType'
    BY <1>7, BlankType DEF Reap, TypeOK, ChildType, LoopType, EnvType, flagVars,
         signalVars, envVars
  <2> QED
    BY <2>4, <2>5 DEF TypeOK
<1>8. ASSUME ReapEnd PROVE TypeOK'
  <2>1. signals' \in Seq({"CHLD", "TERM"})
    BY <1>8, TailType DEF ReapEnd, TypeOK, LoopType, BatchInv
  <2>2. stop_server' \in BOOLEAN
    <3>1. stop_server \in BOOLEAN /\ terminate \in BOOLEAN
      BY DEF TypeOK, LoopType
    <3> QED
      BY <1>8, <3>1 DEF ReapEnd
  <2>3. LoopType'
    BY <1>8, <2>1, <2>2 DEF ReapEnd, TypeOK, LoopType, epollVars, signalVars
  <2>4. TableType' /\ ChildType' /\ EnvType'
    BY <1>8 DEF ReapEnd, TypeOK, TableType, ChildType, EnvType, tableVars, envVars
  <2> QED
    BY <2>3, <2>4 DEF TypeOK
<1>9. ASSUME SigTerm PROVE TypeOK'
  <2>1. signals' \in Seq({"CHLD", "TERM"})
    BY <1>9, TailType DEF SigTerm, TypeOK, LoopType
  <2>2. ASSUME NEW p \in Procs PROVE [child[p] EXCEPT !.term = TRUE] \in Child
    <3>1. child[p] \in Child
      BY ChildFields
    <3> QED
      BY <3>1 DEF Child
  <2>3. ChildType'
    BY <1>9, <2>2 DEF SigTerm, TypeOK, ChildType
  <2> QED
    BY <1>9, <2>1, <2>3 DEF SigTerm, TypeOK, TableType, LoopType, EnvType,
         tableVars, epollVars, signalVars, envVars
<1>10. ASSUME Exit PROVE TypeOK'
  <2>1. ASSUME NEW p \in Procs PROVE [child[p] EXCEPT !.ready = Edge(p, "pipe")] \in Child
    <3>1. Edge(p, "pipe") \in SUBSET {"conn", "pipe"} /\ child[p] \in Child
      BY EdgeType, ChildFields
    <3> QED
      BY <3>1 DEF Child
  <2> QED
    BY <1>10, <2>1 DEF Exit, TypeOK, TableType, LoopType, ChildType, EnvType,
         flagVars, tableVars, epollVars, signalVars, envVars
<1>11. ASSUME NEW f \in PipeFds, Forward(f) PROVE TypeOK'
  <2>1. PICK p \in Behind(f) :
          /\ toServer[p] > 0
          /\ toServer' = [toServer EXCEPT ![p] = @ - 1]
          /\ child' = [q \in Procs |->
                         IF q \in Told(f)
                         THEN [child[q] EXCEPT !.toChild = Append(@, child[p].idx),
                                               !.ready = Edge(q, "pipe")]
                         ELSE child[q]]
    BY <1>11 DEF Forward
  <2>2. p \in Procs
    BY <2>1 DEF Behind
  <2>3. ASSUME NEW q \in Procs
        PROVE  [child[q] EXCEPT !.toChild = Append(@, child[p].idx),
                                !.ready = Edge(q, "pipe")] \in Child
    <3>1. Append(child[q].toChild, child[p].idx) \in Seq(Nat)
      BY <2>2, ChildFields, AppendType
    <3>2. Edge(q, "pipe") \in SUBSET {"conn", "pipe"}
      BY EdgeType
    <3>3. child[q] \in Child
      BY ChildFields
    <3> DEFINE c == child[q]
               told == Append(c.toChild, child[p].idx)
               edge == Edge(q, "pipe")
    <3>4. c \in Child /\ told \in Seq(Nat) /\ edge \in SUBSET {"conn", "pipe"}
      BY <3>1, <3>2, <3>3
    <3>5. [c EXCEPT !.toChild = told, !.ready = edge] \in Child
      <4> HIDE DEF c, told, edge
      <4> QED
        BY <3>4 DEF Child
    <3> QED
      BY <3>5
  <2>4. child' \in [Procs -> Child]
    BY <2>1, <2>3 DEF TypeOK, ChildType
  <2>5. toServer' \in [Procs -> 0 .. PipeCap]
    <3> DEFINE n == toServer[p]
    <3>1. n > 0 /\ toServer' = [toServer EXCEPT ![p] = n - 1]
      BY <2>1
    <3>2. n \in 0 .. PipeCap /\ toServer \in [Procs -> 0 .. PipeCap]
      BY <2>2 DEF TypeOK, ChildType
    <3> HIDE DEF n
    <3>3. n - 1 \in 0 .. PipeCap
      BY <3>1, <3>2
    <3> QED
      BY <3>1, <3>2, <3>3
  <2> QED
    BY <1>11, <2>4, <2>5 DEF Forward, Handling, TypeOK, TableType, LoopType,
         ChildType, EnvType, flagVars, tableVars, epollVars, envVars
<1>12. ASSUME NEW f \in PipeFds, PipeClosed(f) PROVE TypeOK'
  BY <1>12 DEF PipeClosed, Handling, TypeOK, TableType, LoopType, ChildType,
       EnvType, flagVars, tableVars, epollVars, envVars
<1> QED
  BY <1>1, <1>2, <1>3, <1>4, <1>5, <1>6, <1>7, <1>8, <1>9, <1>10, <1>11, <1>12
     DEF Server

LEMMA PipeEdgeType ==
    ASSUME TypeOK, NEW p \in Procs, PipeEdge(p)
    PROVE  ready' \in SUBSET Fds
BY DEF TypeOK, LoopType, PipeEdge

\* What a step of one child leaves alone: it concerns no other child and
\* nothing of the server's table, makes no pid known or unknown, keeps the
\* child's index, and brings no dead child back to life.
Carried(p) ==
    /\ child' = [child EXCEPT ![p] = child'[p]] /\ child'[p] \in Child
    /\ child[p].pc = "none" <=> child'[p].pc = "none"
    /\ child'[p].idx = child[p].idx
    /\ child[p].pc = "zombie" => child'[p].pc = "zombie"
    /\ UNCHANGED <<pc, flagVars, tableVars, events, signals>>

LEMMA StepCarries ==
    ASSUME TypeOK, NEW p \in Procs, NEW from, NEW new \in Child, Step(p, from, new),
           from = "none" <=> new.pc = "none", from = "zombie" => new.pc = "zombie",
           new.idx = child[p].idx
    PROVE  Carried(p)
BY DEF TypeOK, ChildType, Step, Carried

LEMMA ChildCarries ==
    ASSUME TypeOK, NEW p \in Procs, ChildRuns(p)
    PROVE  Carried(p)
<1> DEFINE c == child[p]
<1>0. /\ c \in Child
      /\ c.ready \in SUBSET {"conn", "pipe"} /\ c.events \in SUBSET {"conn", "pipe"}
      /\ c.toChild \in Seq(Nat) /\ c.idx \in Nat
      /\ c.stop \in BOOLEAN /\ c.conn \in {"open", "fin", "reset"}
  BY ChildFields DEF Child
<1> HIDE DEF c
<1>1. CASE ChildClose(p)
  <2> DEFINE new == [c EXCEPT !.pc = "closed"]
  <2>1. new \in Child /\ new.pc = "closed" /\ new.idx = c.idx
    BY <1>0 DEF Child
  <2>2. Step(p, "forked", new)
    BY <1>1 DEF ChildClose, Quiet, c
  <2> HIDE DEF new
  <2> QED
    BY <2>1, <2>2, StepCarries DEF c
<1>2. CASE ChildSetup(p)
  <2> DEFINE new == [c EXCEPT
        !.pc = "test",
        !.ready = {e \in {"conn", "pipe"} :
            IF e = "conn" THEN c.unread \/ c.conn # "open"
            ELSE c.toChild # <<>> \/ pc = "exited"}]
  <2>1. new \in Child /\ new.pc = "test" /\ new.idx = c.idx
    BY <1>0 DEF Child
  <2>2. Step(p, "closed", new)
    BY <1>2 DEF ChildSetup, Quiet, c
  <2> HIDE DEF new
  <2> QED
    BY <2>1, <2>2, StepCarries DEF c
<1>3. CASE ChildTest(p)
  <2> DEFINE new == [c EXCEPT !.pc = "enter"]
  <2>1. new \in Child /\ new.pc = "enter" /\ new.idx = c.idx
    BY <1>0 DEF Child
  <2>2. Step(p, "test", new)
    BY <1>3 DEF ChildTest, Quiet, c
  <2> HIDE DEF new
  <2> QED
    BY <2>1, <2>2, StepCarries DEF c
<1>4. CASE ChildEnter(p)
  <2> DEFINE new == [c EXCEPT !.pc = "wait"]
  <2>1. new \in Child /\ new.pc = "wait" /\ new.idx = c.idx
    BY <1>0 DEF Child
  <2>2. Step(p, "enter", new)
    BY <1>4 DEF ChildEnter, Quiet, c
  <2> HIDE DEF new
  <2> QED
    BY <2>1, <2>2, StepCarries DEF c
<1>5. CASE ChildWake(p)
  <2> DEFINE new == [c EXCEPT !.pc = "handle", !.ready = {}, !.events = c.ready]
  <2>1. new \in Child /\ new.pc = "handle" /\ new.idx = c.idx
    BY <1>0 DEF Child
  <2>2. Step(p, "wait", new)
    BY <1>5 DEF ChildWake, Quiet, c
  <2> HIDE DEF new
  <2> QED
    BY <2>1, <2>2, StepCarries DEF c
<1>6. CASE ChildDone(p)
  <2> DEFINE new == [c EXCEPT !.pc = "test"]
  <2>1. new \in Child /\ new.pc = "test" /\ new.idx = c.idx
    BY <1>0 DEF Child
  <2>2. Step(p, "handle", new)
    BY <1>6 DEF ChildDone, Quiet, c
  <2> HIDE DEF new
  <2> QED
    BY <2>1, <2>2, StepCarries DEF c
<1>7. CASE ChildRead(p)
  <2> DEFINE new == [c EXCEPT !.events = @ \ {"conn"}, !.unread = FALSE]
  <2>1. new \in Child /\ new.pc = c.pc /\ new.idx = c.idx
    BY <1>0 DEF Child
  <2>2. Step(p, "handle", new) /\ c.pc = "handle"
    BY <1>7 DEF ChildRead, Step, c
  <2> HIDE DEF new
  <2> QED
    BY <2>1, <2>2, StepCarries DEF c
<1>8. CASE ChildEof(p)
  <2> DEFINE new == [c EXCEPT !.events = @ \ {"conn"}, !.stop = @ \/ AtEnd(p)]
  <2>1. new \in Child /\ new.pc = c.pc /\ new.idx = c.idx
    BY <1>0 DEF Child, AtEnd
  <2>2. Step(p, "handle", new) /\ c.pc = "handle"
    BY <1>8 DEF ChildEof, Quiet, Step, c
  <2> HIDE DEF new
  <2> QED
    BY <2>1, <2>2, StepCarries DEF c
<1>9. CASE ChildSend(p)
  <2>1. PICK answer \in {"open", "fin", "reset"} :
          Quiet(p, "handle", [c EXCEPT
            !.events = @ \ {"pipe"}, !.toChild = Tail(@), !.conn = answer,
            !.ready = @ \cup (IF answer # c.conn THEN {"conn"} ELSE {})])
    BY <1>9 DEF ChildSend, c
  <2> DEFINE new == [c EXCEPT
          !.events = @ \ {"pipe"}, !.toChild = Tail(@), !.conn = answer,
          !.ready = @ \cup (IF answer # c.conn THEN {"conn"} ELSE {})]
  <2>2. Tail(c.toChild) \in Seq(Nat)
    BY <1>0, <1>9, TailType DEF ChildSend, c
  <2>3. new \in Child /\ new.pc = c.pc /\ new.idx = c.idx
    BY <1>0, <2>2 DEF Child
  <2>4. Step(p, "handle", new) /\ c.pc = "handle"
    BY <2>1 DEF Quiet, Step, c
  <2> HIDE DEF new
  <2> QED
    BY <2>3, <2>4, StepCarries DEF c
<1>10. CASE ChildPipeEnd(p)
  <2> DEFINE new == [c EXCEPT !.events = @ \ {"pipe"}, !.stop = @ \/ PipeAtEnd]
  <2>1. new \in Child /\ new.pc = c.pc /\ new.idx = c.idx
    BY <1>0 DEF Child, PipeAtEnd
  <2>2. Step(p, "handle", new) /\ c.pc = "handle"
    BY <1>10 DEF ChildPipeEnd, Quiet, Step, c
  <2> HIDE DEF new
  <2> QED
    BY <2>1, <2>2, StepCarries DEF c
<1>11. CASE ChildExit(p)
  <2> DEFINE new == [Blank EXCEPT !.pc = "zombie", !.idx = c.idx]
  <2>1. new \in Child /\ new.pc = "zombie" /\ new.idx = c.idx
    BY <1>0, BlankType DEF Child, Blank
  <2>2. Step(p, "test", new)
    BY <1>11 DEF ChildExit, c
  <2> HIDE DEF new
  <2> QED
    BY <2>1, <2>2, StepCarries DEF c
<1> QED
  BY <1>1, <1>2, <1>3, <1>4, <1>5, <1>6, <1>7, <1>8, <1>9, <1>10, <1>11 DEF ChildRuns
LEMMA DeliverCarries ==
    ASSUME TypeOK, NEW p \in Procs, DeliverChild(p)
    PROVE  Carried(p)
<1> DEFINE c == child[p]
           new == [c EXCEPT !.term = FALSE, !.stop = @ \/ Registered(p),
                            !.pc = IF @ = "wait" THEN "test" ELSE @]
<1>1. c \in Child
  BY ChildFields
<1>2. /\ new \in Child /\ new.idx = c.idx
      /\ c.pc = "none" <=> new.pc = "none"
      /\ c.pc = "zombie" => new.pc = "zombie"
  <2> HIDE DEF c
  <2>1. Registered(p) \in BOOLEAN
    BY DEF Registered
  <2> QED
    BY <1>1, <2>1 DEF Child
<1>3. Step(p, c.pc, new)
  BY DEF DeliverChild
<1> HIDE DEF new
<1> QED
  BY <1>2, <1>3, StepCarries DEF c

LEMMA ClientCarries ==
    ASSUME TypeOK, NEW p \in Procs, Say(p) \/ Leave(p)
    PROVE  Carried(p)
<1> DEFINE c == child[p]
           said == [c EXCEPT !.unread = TRUE, !.ready = Edge(p, "conn")]
           gone == [c EXCEPT !.conn = "fin", !.ready = Edge(p, "conn")]
<1>1. c \in Child /\ Edge(p, "conn") \in SUBSET {"conn", "pipe"}
  BY ChildFields, EdgeType
<1>2. \A new \in {said, gone} : new \in Child /\ new.pc = c.pc /\ new.idx = c.idx
  <2> HIDE DEF c
  <2>1. said \in Child /\ said.pc = c.pc /\ said.idx = c.idx
    BY <1>1 DEF Child
  <2>2. gone \in Child /\ gone.pc = c.pc /\ gone.idx = c.idx
    BY <1>1 DEF Child
  <2> QED
    BY <2>1, <2>2
<1>3. PICK new \in {said, gone} : ClientStep(p, new)
  BY DEF Say, Leave
<1> HIDE DEF said, gone
<1> QED
  BY <1>2, <1>3 DEF ClientStep, Carried, TypeOK, ChildType, envVars, epollVars

-----------------------------------------------------------------------------
(* The table.                                                              *)

\* No child comes or goes, the table stays as it is.
TableKept ==
    /\ \A p \in Procs :
         /\ child[p].pc = "none" <=> child'[p].pc = "none"
         /\ child[p].pc = "zombie" => child'[p].pc = "zombie"
         /\ child'[p].idx = child[p].idx
    /\ UNCHANGED tableVars

LEMMA CarriedKeeps ==
    ASSUME TypeOK, NEW p \in Procs, Carried(p)
    PROVE  TableKept
BY DEF Carried, TableKept, TypeOK, ChildType

TableInv == TableExact /\ PipesOwned /\ SegmentInside

LEMMA KeptStep ==
    ASSUME TypeOK, TableInv, TableKept
    PROVE  TableInv'
<1>1. UNCHANGED <<users, user_count, sub_process, open>> /\ Users' = Users
  BY DEF TableKept, tableVars, Users
<1>2. TableExact'
  BY <1>1 DEF TableInv, TableExact, TableKept
<1>3. PipesOwned'
  BY <1>1 DEF TableInv, PipesOwned
<1>4. SegmentInside'
  BY DEF TableInv, SegmentInside, TableKept, Alive
<1> QED
  BY <1>2, <1>3, <1>4 DEF TableInv

LEMMA AcceptStep ==
    ASSUME TypeOK, TableInv, NEW p \in Procs, Accept(p)
    PROVE  TableInv'
<1>1. PICK f \in PipeFds \ open :
        /\ users' = [users EXCEPT ![user_count] = [pid |-> p, fd |-> f]]
        /\ open' = open \cup {f}
  BY DEF Accept, IsLowest
<1>2. /\ child[p].pc = "none"
      /\ child' = [child EXCEPT ![p] = [Blank EXCEPT !.pc = "forked", !.idx = NewIndex]]
      /\ sub_process' = [sub_process EXCEPT ![p] = user_count]
      /\ user_count' = user_count + 1 /\ user_count < USER_LIMIT
  BY DEF Accept, HasRoom
<1>3. /\ Users' = Users \cup {user_count} /\ user_count \notin Users
      /\ user_count \in 0 .. USER_LIMIT /\ Users \subseteq 0 .. USER_LIMIT
  BY <1>2 DEF Users, TypeOK, TableType
<1>4. /\ users'[user_count] = [pid |-> p, fd |-> f]
      /\ \A k \in Users : users'[k] = users[k]
  BY <1>1, <1>3 DEF TypeOK, TableType
<1>5. child'[p].pc = "forked" /\ child'[p].idx = user_count
  BY <1>2 DEF TypeOK, ChildType, Blank, NewIndex
<1>6. \A q \in Procs \ {p} : child'[q] = child[q]
  BY <1>2 DEF TypeOK, ChildType
<1>7. \A k \in Users : users[k].pid \in Procs \ {p}
  BY <1>2 DEF TableInv, TableExact
<1>8. TableExact'
  <2>1. \A k \in Users' : users'[k].pid \in Procs /\ sub_process'[users'[k].pid] = k
    BY <1>2, <1>3, <1>4, <1>7 DEF TableInv, TableExact, TypeOK, TableType
  <2>2. \A q \in Procs : child'[q].pc # "none" <=> \E k \in Users' : users'[k].pid = q
    BY <1>3, <1>4, <1>5, <1>6, <1>7 DEF TableInv, TableExact
  <2> QED
    BY <2>1, <2>2 DEF TableExact
<1>9. PipesOwned'
  BY <1>1, <1>3, <1>4 DEF TableInv, PipesOwned
<1>10. SegmentInside'
  BY <1>2, <1>5, <1>6 DEF TableInv, SegmentInside, Alive
<1> QED
  BY <1>8, <1>9, <1>10 DEF TableInv

LEMMA ForkFailsStep ==
    ASSUME TypeOK, TableInv, ForkFails
    PROVE  TableInv'
<1>1. PICK f \in PipeFds, g \in PipeFds :
        /\ users' = [users EXCEPT ![user_count].fd = f]
        /\ open' = open \cup {f, g}
  BY DEF ForkFails
<1>2. UNCHANGED <<user_count, sub_process, child>>
  BY DEF ForkFails
<1>3. Users' = Users /\ \A k \in Users : users'[k] = users[k]
  BY <1>1, <1>2 DEF Users, TypeOK, TableType
<1>4. TableExact' /\ SegmentInside'
  BY <1>2, <1>3 DEF TableInv, TableExact, SegmentInside, Alive
<1>5. open \subseteq open'
  BY <1>1
<1>6. PipesOwned'
  BY <1>3, <1>5 DEF TableInv, PipesOwned
<1> QED
  BY <1>4, <1>6 DEF TableInv

LEMMA ReapStep ==
    ASSUME TypeOK, TableInv, NEW p \in Procs, Reap(p)
    PROVE  TableInv'
<1> DEFINE del == sub_process[p]
           last == user_count - 1
<1>1. /\ child[p].pc = "zombie" /\ child' = [child EXCEPT ![p] = Blank]
      /\ users' = [users EXCEPT ![del] = users[last]]
      /\ sub_process' = [sub_process EXCEPT ![p] = -1,
                                            ![users'[del].pid] = del]
      /\ user_count' = last /\ open' = open \ {users[del].fd}
  BY DEF Reap, Filled, Mapped, Closed
<1>2. /\ del \in Users /\ last \in Users /\ users[del].pid = p
      /\ Users' = Users \ {last} /\ Users \subseteq 0 .. USER_LIMIT
  BY <1>1, DeadIsUser DEF TableInv, Users, TypeOK, TableType
<1> HIDE DEF del, last
<1>3. /\ users'[del] = users[last]
      /\ \A k \in Users \ {del} : users'[k] = users[k]
  BY <1>1, <1>2 DEF TypeOK, TableType
<1>4. \A k \in Users : users[k].pid \in Procs /\ sub_process[users[k].pid] = k
  BY DEF TableInv, TableExact
<1>5. \A j, k \in Users : users[j].pid = users[k].pid => j = k
  BY <1>4
<1>6. /\ sub_process'[users[last].pid] = del
      /\ \A q \in Procs \ {p, users[last].pid} : sub_process'[q] = sub_process[q]
  BY <1>1, <1>2, <1>3, <1>4 DEF TypeOK, TableType
<1>7. child'[p].pc = "none" /\ \A q \in Procs \ {p} : child'[q] = child[q]
  BY <1>1 DEF TypeOK, ChildType, Blank
<1>8. ASSUME NEW k \in Users'
      PROVE  users'[k].pid \in Procs \ {p} /\ sub_process'[users'[k].pid] = k
  <2>1. CASE k = del
    BY <2>1, <1>2, <1>3, <1>4, <1>5, <1>6
  <2>2. CASE k # del
    BY <2>2, <1>2, <1>3, <1>4, <1>5, <1>6
  <2> QED
    BY <2>1, <2>2
<1>9. ASSUME NEW q \in Procs \ {p}
      PROVE  child'[q].pc # "none" <=> \E k \in Users' : users'[k].pid = q
  <2>1. child[q].pc # "none" <=> \E k \in Users : users[k].pid = q
    BY DEF TableInv, TableExact
  <2>2. ASSUME NEW k \in Users, users[k].pid = q
        PROVE  \E j \in Users' : users'[j].pid = q
    <3>1. CASE k = last
      BY <3>1, <2>2, <1>2, <1>3
    <3>2. CASE k # last
      BY <3>2, <2>2, <1>2, <1>3
    <3> QED
      BY <3>1, <3>2
  <2>3. ASSUME NEW j \in Users', users'[j].pid = q
        PROVE  \E k \in Users : users[k].pid = q
    BY <2>3, <1>2, <1>3
  <2> QED
    BY <2>1, <2>2, <2>3, <1>7
<1>10. TableExact'
  BY <1>7, <1>8, <1>9 DEF TableExact
<1>11. PipesOwned'
  <2>1. \A j, k \in Users : users[k].fd \in open /\ (users[j].fd = users[k].fd => j = k)
    BY DEF TableInv, PipesOwned
  <2>2. ASSUME NEW k \in Users' PROVE users'[k].fd \in open'
    BY <2>1, <1>1, <1>2, <1>3
  <2>3. ASSUME NEW j \in Users', NEW k \in Users', users'[j].fd = users'[k].fd
        PROVE  j = k
    BY <2>1, <2>3, <1>2, <1>3
  <2> QED
    BY <2>2, <2>3 DEF PipesOwned
<1>12. SegmentInside'
  BY <1>7 DEF TableInv, SegmentInside, Alive
<1> QED
  BY <1>10, <1>11, <1>12 DEF TableInv

LEMMA ServerTableStep ==
    ASSUME TypeOK, TableInv, Server
    PROVE  TableInv'
<1>1. ASSUME EpollWait \/ Refuse \/ RecvSignals \/ SigChld \/ ReapEnd
      PROVE  TableKept
  BY <1>1 DEF EpollWait, Refuse, RecvSignals, SigChld, ReapEnd, TableKept
<1>2. ASSUME SigTerm PROVE TableKept
  <2>1. UNCHANGED tableVars
    BY <1>2 DEF SigTerm
  <2>2. ASSUME NEW p \in Procs
        PROVE  child'[p].pc = child[p].pc /\ child'[p].idx = child[p].idx
    <3>1. child'[p] = child[p] \/ child'[p] = [child[p] EXCEPT !.term = TRUE]
      BY <1>2 DEF SigTerm
    <3> QED
      BY <3>1, ChildFields DEF Child
  <2> QED
    BY <2>1, <2>2 DEF TableKept
<1>3. ASSUME Exit PROVE TableKept
  <2>1. ASSUME NEW p \in Procs
        PROVE  child'[p].pc = child[p].pc /\ child'[p].idx = child[p].idx
    BY <1>3, ChildFields DEF Exit, Child
  <2> QED
    BY <1>3, <2>1 DEF Exit, TableKept
<1>4. ASSUME NEW f \in PipeFds, Forward(f) PROVE TableKept
  <2>1. PICK p \in Behind(f) :
          child' = [q \in Procs |->
                      IF q \in Told(f)
                      THEN [child[q] EXCEPT !.toChild = Append(@, child[p].idx),
                                            !.ready = Edge(q, "pipe")]
                      ELSE child[q]]
    BY <1>4 DEF Forward
  <2>2. ASSUME NEW q \in Procs
        PROVE  child'[q].pc = child[q].pc /\ child'[q].idx = child[q].idx
    BY <2>1, ChildFields DEF Child
  <2> QED
    BY <1>4, <2>2 DEF Forward, TableKept
<1>5. ASSUME NEW f \in PipeFds, PipeClosed(f) PROVE TableKept
  BY <1>5 DEF PipeClosed, TableKept
<1> QED
  BY <1>1, <1>2, <1>3, <1>4, <1>5, KeptStep, AcceptStep, ForkFailsStep, ReapStep
     DEF Server

-----------------------------------------------------------------------------
(* The steps of the children and of the environment keep the types.        *)

LEMMA CarriedTypes ==
    ASSUME TypeOK, NEW p \in Procs, Carried(p),
           EnvType', ready' \in SUBSET Fds, watched' = watched,
           sigPipe' \in Seq({"CHLD", "TERM"}), pending' \in SUBSET {"CHLD", "TERM"},
           toServer' \in [Procs -> 0 .. PipeCap]
    PROVE  TypeOK'
<1>1. child' \in [Procs -> Child]
  BY DEF Carried, TypeOK, ChildType
<1> QED
  BY <1>1 DEF Carried, TypeOK, TableType, LoopType, ChildType, flagVars, tableVars

LEMMA ChildTypeStep ==
    ASSUME TypeOK, NEW p \in Procs, ChildRuns(p) \/ DeliverChild(p)
    PROVE  TypeOK'
<1>1. Carried(p)
  BY ChildCarries, DeliverCarries
<1>2. \E from, new : Step(p, from, new)
  BY DEF ChildRuns, ChildClose, ChildSetup, ChildTest, ChildEnter, ChildWake,
       ChildDone, ChildRead, ChildEof, ChildSend, ChildPipeEnd, ChildExit,
       DeliverChild, Quiet
<1>3. EnvType' /\ watched' = watched
  BY <1>2 DEF Step, TypeOK, EnvType, envVars
<1>4. /\ ready \in SUBSET Fds /\ sigPipe \in Seq({"CHLD", "TERM"})
      /\ pending \in SUBSET {"CHLD", "TERM"} /\ toServer \in [Procs -> 0 .. PipeCap]
  BY DEF TypeOK, LoopType, ChildType
<1>5. ASSUME NEW from, NEW new, Quiet(p, from, new)
      PROVE  TypeOK'
  BY <1>1, <1>3, <1>4, <1>5, CarriedTypes DEF Quiet, signalVars
<1>6. CASE ChildRead(p)
  <2>1. ready' \in SUBSET Fds
    BY <1>4, <1>6, PipeEdgeType DEF ChildRead
  <2>2. toServer' \in [Procs -> 0 .. PipeCap]
    <3> DEFINE n == toServer[p]
    <3>1. \/ n < PipeCap /\ toServer' = [toServer EXCEPT ![p] = n + 1]
          \/ toServer' = toServer
      BY <1>6 DEF ChildRead
    <3>2. n \in 0 .. PipeCap
      BY <1>4
    <3> HIDE DEF n
    <3>3. n < PipeCap => n + 1 \in 0 .. PipeCap
      BY <3>2
    <3> QED
      BY <1>4, <3>1, <3>3
  <2> QED
    BY <1>1, <1>3, <1>4, <1>6, <2>1, <2>2, CarriedTypes DEF ChildRead, signalVars
<1>7. CASE ChildExit(p)
  BY <1>1, <1>3, <1>4, <1>7, PipeEdgeType, CarriedTypes DEF ChildExit
<1>8. CASE DeliverChild(p)
  <2>1. sigPipe' \in Seq({"CHLD", "TERM"}) /\ ready' \in SUBSET Fds
    BY <1>4, <1>8, SigByteType DEF DeliverChild, TypeOK
  <2> QED
    BY <1>1, <1>3, <1>4, <1>8, <2>1, CarriedTypes DEF DeliverChild
<1>9. CASE ChildSend(p)
  BY <1>5, <1>9 DEF ChildSend
<1> QED
  BY <1>5, <1>6, <1>7, <1>8, <1>9 DEF ChildRuns, ChildClose, ChildSetup, ChildTest,
     ChildEnter, ChildWake, ChildDone, ChildEof, ChildPipeEnd

LEMMA EnvTypeStep ==
    ASSUME TypeOK,
           \/ Connect \/ Terminate
           \/ \E s \in {"CHLD", "TERM"} : DeliverServer(s)
           \/ \E p \in Procs : Say(p) \/ Leave(p)
    PROVE  TypeOK'
<1>1. CASE Connect
  <2>1. left' \in [Kinds -> Nat]
    BY <1>1, SpendType DEF Connect, TypeOK, Kinds
  <2> QED
    BY <1>1, <2>1 DEF Connect, TypeOK, TableType, LoopType, ChildType, EnvType,
       flagVars, tableVars, signalVars, Fds
<1>2. CASE Terminate
  <2>1. left' \in [Kinds -> Nat]
    BY <1>2, SpendType DEF Terminate, TypeOK, Kinds
  <2> QED
    BY <1>2, <2>1 DEF Terminate, TypeOK, TableType, LoopType, ChildType, EnvType,
       flagVars, tableVars, epollVars
<1>3. ASSUME NEW s \in {"CHLD", "TERM"}, DeliverServer(s) PROVE TypeOK'
  BY <1>3, SigByteType DEF DeliverServer, TypeOK, TableType, LoopType, ChildType,
     EnvType, flagVars, tableVars, envVars
<1>4. ASSUME NEW p \in Procs, Say(p) \/ Leave(p) PROVE TypeOK'
  <2>1. Carried(p)
    BY <1>4, ClientCarries
  <2>2. EnvType'
    <3>1. left' \in [Kinds -> Nat]
      BY <1>4, SpendType DEF Say, Leave, TypeOK, EnvType, Kinds
    <3> QED
      BY <1>4, <3>1 DEF Say, Leave, ClientStep, TypeOK, EnvType
  <2> QED
    BY <1>4, <2>1, <2>2, CarriedTypes DEF Say, Leave, ClientStep, TypeOK, LoopType,
       ChildType, epollVars, signalVars
<1> QED
  BY <1>1, <1>2, <1>3, <1>4

-----------------------------------------------------------------------------
(* The invariant.                                                          *)

IInv == TypeOK /\ BatchInv /\ TableInv

LEMMA BatchStep ==
    ASSUME TypeOK, BatchInv, Next
    PROVE  BatchInv'
<1> USE FdFacts
<1>1. ASSUME Server PROVE BatchInv'
  <2>1. CASE EpollWait
    BY <2>1 DEF EpollWait, BatchInv, Readable, envVars
  <2>2. ASSUME NEW f, f # ListenFd, Handling(f), UNCHANGED <<backlog>>
        PROVE  BatchInv'
    BY <2>2 DEF Handling, BatchInv
  <2>3. ASSUME Handling(ListenFd), UNCHANGED <<signals>> PROVE BatchInv'
    BY <2>3 DEF Handling, BatchInv
  <2>4. CASE SigChld \/ ReapEnd \/ SigTerm \/ Exit
    BY <2>4 DEF SigChld, ReapEnd, SigTerm, Exit, BatchInv, envVars
  <2>5. ASSUME NEW p \in Procs, Reap(p) PROVE BatchInv'
    BY <2>5 DEF Reap, BatchInv, envVars
  <2>6. ASSUME Refuse \/ ForkFails \/ \E p \in Procs : Accept(p) PROVE BatchInv'
    BY <2>3, <2>6 DEF Refuse, ForkFails, Accept
  <2>7. ASSUME RecvSignals PROVE BatchInv'
    <3>1. SigFd # ListenFd
      BY DEF SigFd, ListenFd
    <3> QED
      BY <2>2, <2>7, <3>1 DEF RecvSignals, envVars
  <2>8. ASSUME NEW f \in PipeFds, Forward(f) \/ PipeClosed(f) PROVE BatchInv'
    BY <2>2, <2>8 DEF Forward, PipeClosed, envVars
  <2> QED
    BY <1>1, <2>1, <2>4, <2>5, <2>6, <2>7, <2>8 DEF Server
<1>2. ASSUME NEW p \in Procs, ChildRuns(p) \/ DeliverChild(p) PROVE BatchInv'
  <2>1. \E from, new : Step(p, from, new)
    BY <1>2 DEF ChildRuns, ChildClose, ChildSetup, ChildTest, ChildEnter, ChildWake,
       ChildDone, ChildRead, ChildEof, ChildSend, ChildPipeEnd, ChildExit,
       DeliverChild, Quiet
  <2> QED
    BY <2>1 DEF Step, BatchInv, envVars
<1>3. ASSUME NEW p \in Procs, Say(p) \/ Leave(p) PROVE BatchInv'
  BY <1>3 DEF Say, Leave, ClientStep, BatchInv
<1>4. CASE Connect
  BY <1>4 DEF Connect, BatchInv, TypeOK, EnvType
<1>5. CASE Terminate
  BY <1>5 DEF Terminate, BatchInv
<1>6. ASSUME NEW s \in {"CHLD", "TERM"}, DeliverServer(s) PROVE BatchInv'
  BY <1>6 DEF DeliverServer, BatchInv, envVars
<1> QED
  BY <1>1, <1>2, <1>3, <1>4, <1>5, <1>6 DEF Next

LEMMA TableStep ==
    ASSUME TypeOK, TableInv, Next
    PROVE  TableInv'
<1>1. ASSUME NEW p \in Procs, ChildRuns(p) \/ DeliverChild(p) \/ Say(p) \/ Leave(p)
      PROVE  TableInv'
  <2>1. Carried(p)
    BY <1>1, ChildCarries, DeliverCarries, ClientCarries
  <2> QED
    BY <2>1, CarriedKeeps, KeptStep
<1>2. ASSUME Connect \/ Terminate \/ \E s \in {"CHLD", "TERM"} : DeliverServer(s)
      PROVE  TableInv'
  <2>1. TableKept
    BY <1>2 DEF Connect, Terminate, DeliverServer, TableKept
  <2> QED
    BY <2>1, KeptStep
<1> QED
  BY <1>1, <1>2, ServerTableStep DEF Next

LEMMA TypeStep ==
    ASSUME TypeOK, BatchInv, TableInv, Next
    PROVE  TypeOK'
BY ServerTypeStep, ChildTypeStep, EnvTypeStep DEF Next, TableInv

LEMMA Inductive == IInv /\ [Next]_vars => IInv'
<1> SUFFICES ASSUME IInv, [Next]_vars PROVE IInv'
  OBVIOUS
<1>1. CASE Next
  BY <1>1, TypeStep, BatchStep, TableStep DEF IInv
<1>2. CASE UNCHANGED vars
  <2>1. TypeOK'
    BY <1>2 DEF IInv, TypeOK, TableType, LoopType, ChildType, EnvType, vars
  <2>2. BatchInv' /\ TableKept
    BY <1>2 DEF IInv, BatchInv, TableKept, tableVars, vars
  <2> QED
    BY <2>1, <2>2, KeptStep DEF IInv
<1> QED
  BY <1>1, <1>2

LEMMA InitInv == Init => IInv
<1> SUFFICES ASSUME Init PROVE IInv
  OBVIOUS
<1>1. TypeOK /\ BatchInv
  BY InitType
<1>2. Users = {} /\ \A p \in Procs : child[p].pc = "none"
  BY DEF Init, Users, Blank
<1>3. TableInv
  BY <1>2 DEF TableInv, TableExact, PipesOwned, SegmentInside, Alive
<1> QED
  BY <1>1, <1>3 DEF IInv

LEMMA Invariant == Spec => []IInv
BY InitInv, Inductive, PTL DEF Spec

\* Type correctness of the server and its children: no index ever leaves
\* users[], whichever children die and however often fork() fails.
THEOREM TypeCorrect == Spec => []TypeOK
<1>1. IInv => TypeOK
  BY DEF IInv
<1> QED
  BY <1>1, Invariant, PTL

\* The removal of dead users from the middle of users[] keeps users[] and
\* sub_process inverse to each other and in step with the kernel's children,
\* in whatever order the children die and their pids are used again.
THEOREM TableCorrect == Spec => []TableExact
<1>1. IInv => TableExact
  BY DEF IInv, TableInv
<1> QED
  BY <1>1, Invariant, PTL

\* The same removal closes the pipe of the dead child and no other: the
\* remaining users keep open pipes that are all different.
THEOREM PipesCorrect == Spec => []PipesOwned
<1>1. IInv => PipesOwned
  BY DEF IInv, TableInv
<1> QED
  BY <1>1, Invariant, PTL

\* No child writes behind the shared memory.
THEOREM SegmentsInside == Spec => []SegmentInside
<1>1. IInv => SegmentInside
  BY DEF IInv, TableInv
<1> QED
  BY <1>1, Invariant, PTL

-----------------------------------------------------------------------------
(* The deaths of children, and the signals that tell of them.              *)

\* A byte in the signal pipe has an edge that was not reported yet, or an event
\* that is still to be handled.
SignalBacked == sigPipe # <<>> => SigFd \in ready \cup events

LEMMA GoneIsNoSignal ==
    ASSUME TypeOK, TableExact, NEW p \in Procs, Reap(p)
    PROVE  SigFd \in ready => SigFd \in ready'
<1>1. users[user_count].fd # SigFd /\ users[sub_process[p]].fd # SigFd
  <2>1. user_count \in 0 .. USER_LIMIT /\ sub_process[p] \in 0 .. USER_LIMIT
    BY DeadIsUser DEF Reap, Users, TypeOK, TableType
  <2> QED
    BY <2>1, FdFacts DEF TypeOK, TableType, NoFd, SigFd
<1> QED
  BY <1>1 DEF Reap, Closed

LEMMA SignalBackedStep ==
    ASSUME TypeOK, TableExact, SignalBacked, Next
    PROVE  SignalBacked'
<1>0. SigFd # ListenFd /\ SigFd \notin PipeFds
  BY FdFacts DEF SigFd, ListenFd
<1>1. ASSUME SigFd \in ready => SigFd \in ready', events' = events, sigPipe' = sigPipe
      PROVE  SignalBacked'
  BY <1>1 DEF SignalBacked
<1>2. ASSUME NEW f, Handling(f), f # SigFd, ready' = ready, sigPipe' = sigPipe
      PROVE  SignalBacked'
  BY <1>2 DEF SignalBacked, Handling
<1>3. ASSUME NEW s, SigByte(s), events' = events
      PROVE  SignalBacked'
  BY <1>3 DEF SignalBacked, SigByte
<1>4. CASE EpollWait
  BY <1>0, <1>4 DEF EpollWait, Readable, SignalBacked, signalVars
<1>5. CASE Refuse \/ ForkFails \/ \E p \in Procs : Accept(p)
  BY <1>0, <1>2, <1>5 DEF Refuse, ForkFails, Accept, epollVars
<1>6. CASE RecvSignals
  BY <1>6 DEF RecvSignals, SignalBacked
<1>7. CASE SigChld \/ ReapEnd \/ SigTerm \/ Exit
  BY <1>1, <1>7 DEF SigChld, ReapEnd, SigTerm, Exit, epollVars, signalVars
<1>8. ASSUME NEW p \in Procs, Reap(p) PROVE SignalBacked'
  BY <1>1, <1>8, GoneIsNoSignal DEF Reap, signalVars
<1>9. ASSUME NEW f \in PipeFds, Forward(f) \/ PipeClosed(f) PROVE SignalBacked'
  <2>1. Handling(f) /\ ready' = ready /\ sigPipe' = sigPipe
    <3>1. CASE Forward(f)
      <4>1. Handling(f) /\ UNCHANGED <<tableVars, signals, epollVars, sigPipe, envVars>>
        BY <3>1 DEF Forward
      <4> QED
        BY <4>1 DEF epollVars
    <3>2. CASE PipeClosed(f)
      BY <3>2 DEF PipeClosed, epollVars
    <3> QED
      BY <1>9, <3>1, <3>2
  <2>2. f # SigFd
    BY <1>0
  <2> QED
    BY <1>2, <2>1, <2>2
<1>10. CASE Connect \/ Terminate
  BY <1>1, <1>10 DEF Connect, Terminate, epollVars, signalVars
<1>11. ASSUME NEW s \in {"CHLD", "TERM"}, DeliverServer(s) PROVE SignalBacked'
  BY <1>3, <1>11 DEF DeliverServer
<1>12. ASSUME NEW p \in Procs, ChildRuns(p) PROVE SignalBacked'
  <2>1. SigFd \in ready => SigFd \in ready'
    BY <1>12 DEF ChildRuns, ChildClose, ChildSetup, ChildTest, ChildEnter, ChildWake,
       ChildDone, ChildRead, ChildEof, ChildSend, ChildPipeEnd, ChildExit, Quiet, PipeEdge
  <2>2. events' = events /\ sigPipe' = sigPipe
    BY <1>12 DEF ChildRuns, ChildClose, ChildSetup, ChildTest, ChildEnter, ChildWake,
       ChildDone, ChildRead, ChildEof, ChildSend, ChildPipeEnd, ChildExit, Quiet, Step,
       signalVars
  <2> QED
    BY <1>1, <2>1, <2>2
<1>13. ASSUME NEW p \in Procs, DeliverChild(p) PROVE SignalBacked'
  BY <1>1, <1>3, <1>13 DEF DeliverChild, Step
<1>14. ASSUME NEW p \in Procs, Say(p) \/ Leave(p) PROVE SignalBacked'
  BY <1>1, <1>14 DEF Say, Leave, ClientStep, epollVars, signalVars
<1> QED
  BY <1>4, <1>5, <1>6, <1>7, <1>8, <1>9, <1>10, <1>11, <1>12, <1>13, <1>14 DEF Next, Server

\* The server is never left asleep on a signal: whenever its pipe holds a byte,
\* epoll_wait has its descriptor to report or main has the event in hand.
THEOREM SignalsStayBacked == Spec => []SignalBacked
<1>1. Init => SignalBacked
  BY DEF Init, SignalBacked
<1>2. IInv /\ SignalBacked /\ [Next]_vars => SignalBacked'
  <2> SUFFICES ASSUME IInv, SignalBacked, [Next]_vars PROVE SignalBacked'
    OBVIOUS
  <2>1. CASE Next
    BY <2>1, SignalBackedStep DEF IInv, TableInv
  <2>2. CASE UNCHANGED vars
    BY <2>2 DEF vars, SignalBacked
  <2> QED
    BY <2>1, <2>2
<1> QED
  BY <1>1, <1>2, Invariant, PTL DEF Spec

\* Sequence q has the signal s among its members.
Holds(q, s) == \E k \in DOMAIN q : q[k] = s

\* As long as a dead child is not collected there is a SIGCHLD behind which it
\* will be: pending, in the pipe, read, or being handled.
DeathOnItsWay ==
    pc = "reap" \/ "CHLD" \in pending \/ Holds(sigPipe, "CHLD") \/ Holds(signals, "CHLD")
DeathSignalled ==
    pc # "exited" => \A p \in Procs : child[p].pc = "zombie" => DeathOnItsWay

LEMMA AppendHolds ==
    ASSUME NEW S, NEW q \in Seq(S), NEW s \in S
    PROVE  /\ Holds(Append(q, s), s)
           /\ \A t : Holds(q, t) => Holds(Append(q, s), t)
<1>1. Append(q, s)[Len(q) + 1] = s /\ Len(q) + 1 \in DOMAIN Append(q, s)
  OBVIOUS
<1>2. \A k \in DOMAIN q : Append(q, s)[k] = q[k] /\ k \in DOMAIN Append(q, s)
  OBVIOUS
<1> QED
  BY <1>1, <1>2 DEF Holds

LEMMA TailHolds ==
    ASSUME NEW S, NEW q \in Seq(S), q # <<>>, NEW s, Holds(q, s), Head(q) # s
    PROVE  Holds(Tail(q), s)
<1>1. PICK k \in DOMAIN q : q[k] = s
  BY DEF Holds
<1>2. k # 1 /\ k \in 1 .. Len(q)
  BY <1>1
<1>3. k - 1 \in DOMAIN Tail(q) /\ Tail(q)[k - 1] = q[k]
  BY <1>2
<1> QED
  BY <1>1, <1>3 DEF Holds

\* Only exit makes a zombie, and it raises SIGCHLD.
LEMMA OnlyExitDies ==
    ASSUME TypeOK, NEW p \in Procs, ChildRuns(p)
    PROVE  \/ "CHLD" \in pending'
           \/ child'[p].pc # "zombie" /\ pending' = pending
<1>1. child \in [Procs -> Child] /\ child[p] \in Child
  BY DEF TypeOK, ChildType
<1>2. ASSUME NEW from, NEW new, Quiet(p, from, new), new.pc # "zombie"
      PROVE  child'[p].pc # "zombie" /\ pending' = pending
  BY <1>1, <1>2 DEF Quiet, Step, signalVars
<1>3. CASE ChildClose(p) \/ ChildSetup(p) \/ ChildTest(p) \/ ChildEnter(p)
  <2>1. /\ [child[p] EXCEPT !.pc = "closed"].pc # "zombie"
        /\ [child[p] EXCEPT !.pc = "enter"].pc # "zombie"
        /\ [child[p] EXCEPT !.pc = "wait"].pc # "zombie"
        /\ \A r : [child[p] EXCEPT !.pc = "test", !.ready = r].pc # "zombie"
    BY <1>1 DEF Child
  <2> QED
    BY <1>2, <1>3, <2>1 DEF ChildClose, ChildSetup, ChildTest, ChildEnter
<1>4. CASE ChildWake(p) \/ ChildDone(p)
  <2>1. /\ [child[p] EXCEPT !.pc = "test"].pc # "zombie"
        /\ \A r, e : [child[p] EXCEPT !.pc = "handle", !.ready = r, !.events = e].pc # "zombie"
    BY <1>1 DEF Child
  <2> QED
    BY <1>2, <1>4, <2>1 DEF ChildWake, ChildDone
<1>5. CASE ChildRead(p) \/ ChildEof(p) \/ ChildSend(p) \/ ChildPipeEnd(p)
  <2>1. child[p].pc = "handle" /\ pending' = pending
    BY <1>5 DEF ChildRead, ChildEof, ChildSend, ChildPipeEnd, Quiet, Step, signalVars
  <2>2. child'[p].pc = child[p].pc
    <3>1. CASE ChildRead(p)
      BY <1>1, <3>1 DEF ChildRead, Step, Child
    <3>2. CASE ChildEof(p)
      BY <1>1, <3>2 DEF ChildEof, Quiet, Step, Child
    <3>3. CASE ChildSend(p)
      BY <1>1, <3>3 DEF ChildSend, Quiet, Step, Child
    <3>4. CASE ChildPipeEnd(p)
      BY <1>1, <3>4 DEF ChildPipeEnd, Quiet, Step, Child
    <3> QED
      BY <1>5, <3>1, <3>2, <3>3, <3>4
  <2> QED
    BY <2>1, <2>2
<1>6. CASE ChildExit(p)
  BY <1>6 DEF ChildExit
<1> QED
  BY <1>3, <1>4, <1>5, <1>6 DEF ChildRuns

LEMMA ForwardKeeps ==
    ASSUME TypeOK, NEW f \in PipeFds, Forward(f), NEW r \in Procs
    PROVE  child'[r].pc = child[r].pc
<1>1. PICK p \in Behind(f) :
        child' = [q \in Procs |->
                    IF q \in Told(f)
                    THEN [child[q] EXCEPT !.toChild = Append(@, child[p].idx),
                                          !.ready = Edge(q, "pipe")]
                    ELSE child[q]]
  BY DEF Forward
<1> QED
  BY <1>1, ChildFields DEF Child

LEMMA DeathStep ==
    ASSUME TypeOK, DeathSignalled, Len(sigPipe) < SigCap, Next
    PROVE  DeathSignalled'
<1>0. /\ signals \in Seq({"CHLD", "TERM"}) /\ sigPipe \in Seq({"CHLD", "TERM"})
      /\ child \in [Procs -> Child]
  BY DEF TypeOK, LoopType, ChildType
<1>1. ASSUME DeathOnItsWay => DeathOnItsWay', pc' # "exited" => pc # "exited",
             \A p \in Procs : child'[p].pc = "zombie" => child[p].pc = "zombie"
      PROVE  DeathSignalled'
  BY <1>1 DEF DeathSignalled
<1>2. ASSUME NEW p \in Procs, Carried(p), DeathOnItsWay => DeathOnItsWay',
             child'[p].pc = "zombie" => child[p].pc = "zombie"
      PROVE  DeathSignalled'
  BY <1>0, <1>1, <1>2 DEF Carried
<1>3. ASSUME NEW s \in {"CHLD", "TERM"}, SigByte(s)
      PROVE  /\ Holds(sigPipe', s)
             /\ \A t : Holds(sigPipe, t) => Holds(sigPipe', t)
  <2>1. sigPipe' = Append(sigPipe, s)
    BY <1>3 DEF SigByte
  <2> QED
    BY <1>0, <2>1, AppendHolds
<1>4. CASE EpollWait \/ Refuse \/ ForkFails
  BY <1>1, <1>4 DEF EpollWait, Refuse, ForkFails, Handling, DeathOnItsWay, signalVars
<1>5. CASE RecvSignals
  <2>1. pc = "loop" /\ ~Holds(signals, "CHLD")
    BY <1>5 DEF RecvSignals, Handling, Holds
  <2>2. signals' = sigPipe /\ pc' = pc /\ pending' = pending /\ child' = child
    BY <1>5 DEF RecvSignals, Handling
  <2>3. DeathOnItsWay => DeathOnItsWay'
    BY <2>1, <2>2 DEF DeathOnItsWay, Holds
  <2> QED
    BY <1>1, <2>2, <2>3
<1>6. CASE SigChld
  BY <1>1, <1>6 DEF SigChld, DeathOnItsWay
<1>7. CASE ReapEnd
  BY <1>7 DEF ReapEnd, MayEnd, DeathSignalled
<1>8. CASE SigTerm
  <2>1. /\ signals # <<>> /\ Head(signals) # "CHLD" /\ signals' = Tail(signals)
        /\ pc' = pc /\ pending' = pending /\ sigPipe' = sigPipe /\ pc = "loop"
    BY <1>8 DEF SigTerm, signalVars
  <2>2. Holds(signals, "CHLD") => Holds(signals', "CHLD")
    BY <1>0, <2>1, TailHolds
  <2>3. ASSUME NEW p \in Procs PROVE child'[p].pc = child[p].pc
    <3>1. child'[p] = child[p] \/ child'[p] = [child[p] EXCEPT !.term = TRUE]
      BY <1>8 DEF SigTerm
    <3> QED
      BY <3>1, ChildFields DEF Child
  <2> QED
    BY <1>1, <2>1, <2>2, <2>3 DEF DeathOnItsWay
<1>9. CASE Exit
  BY <1>9 DEF Exit, DeathSignalled
<1>10. ASSUME NEW p \in Procs, Accept(p) PROVE DeathSignalled'
  <2>1. child'[p].pc = "forked" /\ \A q \in Procs \ {p} : child'[q] = child[q]
    BY <1>0, <1>10 DEF Accept, Blank
  <2>2. DeathOnItsWay => DeathOnItsWay'
    BY <1>10 DEF Accept, Handling, DeathOnItsWay
  <2> QED
    BY <1>1, <1>10, <2>1, <2>2 DEF Accept, Handling
<1>11. ASSUME NEW p \in Procs, Reap(p) PROVE DeathSignalled'
  BY <1>11 DEF Reap, DeathSignalled, DeathOnItsWay
<1>12. ASSUME NEW f \in PipeFds, Forward(f) PROVE DeathSignalled'
  <2>1. ASSUME NEW q \in Procs PROVE child'[q].pc = child[q].pc
    BY <1>12, ForwardKeeps
  <2>2. Handling(f) /\ UNCHANGED <<tableVars, signals, epollVars, sigPipe, envVars>>
    BY <1>12 DEF Forward
  <2>3. pc' = pc /\ UNCHANGED <<pending, signals, sigPipe>>
    BY <2>2 DEF Handling
  <2> QED
    BY <1>1, <2>1, <2>3 DEF DeathOnItsWay
<1>13. ASSUME NEW f \in PipeFds, PipeClosed(f) PROVE DeathSignalled'
  BY <1>1, <1>13 DEF PipeClosed, Handling, DeathOnItsWay
<1>14. ASSUME NEW s \in {"CHLD", "TERM"}, DeliverServer(s) PROVE DeathSignalled'
  <2>1. SigByte(s) /\ pending' = pending \ {s} /\ UNCHANGED <<pc, signals, child>>
    BY <1>14 DEF DeliverServer
  <2>2. DeathOnItsWay => DeathOnItsWay'
    BY <1>3, <2>1 DEF DeathOnItsWay
  <2> QED
    BY <1>1, <2>1, <2>2
<1>15. CASE Connect \/ Terminate
  BY <1>1, <1>15 DEF Connect, Terminate, DeathOnItsWay, signalVars
<1>16. ASSUME NEW p \in Procs, ChildRuns(p) PROVE DeathSignalled'
  <2>1. Carried(p) /\ pc' = pc /\ signals' = signals
    BY <1>16, ChildCarries DEF Carried
  <2>2. sigPipe' = sigPipe
    BY <1>16 DEF ChildRuns, ChildClose, ChildSetup, ChildTest, ChildEnter, ChildWake,
       ChildDone, ChildRead, ChildEof, ChildSend, ChildPipeEnd, ChildExit, Quiet,
       signalVars
  <2>3. CASE "CHLD" \in pending'
    BY <2>3 DEF DeathSignalled, DeathOnItsWay
  <2>4. CASE child'[p].pc # "zombie" /\ pending' = pending
    BY <1>2, <2>1, <2>2, <2>4 DEF DeathOnItsWay
  <2> QED
    BY <1>16, <2>3, <2>4, OnlyExitDies
<1>17. ASSUME NEW p \in Procs, DeliverChild(p) PROVE DeathSignalled'
  <2>1. Carried(p) /\ pc' = pc /\ signals' = signals
    BY <1>17, DeliverCarries DEF Carried
  <2>2. child'[p].pc = "zombie" => child[p].pc = "zombie"
    <3>1. child'[p] = [child[p] EXCEPT
             !.term = FALSE, !.stop = @ \/ Registered(p),
             !.pc = IF @ = "wait" THEN "test" ELSE @]
      BY <1>0, <1>17 DEF DeliverChild, Step
    <3> QED
      BY <3>1, ChildFields DEF Child
  <2>3. pending' = pending /\ (Holds(sigPipe, "CHLD") => Holds(sigPipe', "CHLD"))
    BY <1>3, <1>17 DEF DeliverChild
  <2> QED
    BY <1>2, <2>1, <2>2, <2>3 DEF DeathOnItsWay
<1>18. ASSUME NEW p \in Procs, Say(p) \/ Leave(p) PROVE DeathSignalled'
  <2>1. Carried(p) /\ pc' = pc /\ signals' = signals
    BY <1>18, ClientCarries DEF Carried
  <2>2. sigPipe' = sigPipe /\ pending' = pending
    BY <1>18 DEF Say, Leave, ClientStep, signalVars
  <2>3. child'[p].pc = child[p].pc
    <3>1. child[p] \in Child
      BY <1>0
    <3>2. \/ child'[p] = [child[p] EXCEPT !.unread = TRUE, !.ready = Edge(p, "conn")]
          \/ child'[p] = [child[p] EXCEPT !.conn = "fin", !.ready = Edge(p, "conn")]
      BY <1>0, <1>18 DEF Say, Leave, ClientStep
    <3> QED
      BY <3>1, <3>2 DEF Child
  <2> QED
    BY <1>2, <2>1, <2>2, <2>3 DEF DeathOnItsWay
<1> QED
  BY <1>4, <1>5, <1>6, <1>7, <1>8, <1>9, <1>10, <1>11, <1>12, <1>13, <1>14, <1>15,
     <1>16, <1>17, <1>18 DEF Next, Server

\* No death is missed as long as the signal pipe never fills up: SIGCHLDs that
\* merge, or that come while the server is in its waitpid loop, leave a SIGCHLD
\* on its way for every child that is not yet collected.
THEOREM DeathsStaySignalled == Spec /\ SignalsFit => []DeathSignalled
<1>1. Init => DeathSignalled
  BY DEF Init, Blank, DeathSignalled
<1>2. IInv /\ DeathSignalled /\ Len(sigPipe) < SigCap /\ [Next]_vars => DeathSignalled'
  <2> SUFFICES ASSUME IInv, DeathSignalled, Len(sigPipe) < SigCap, [Next]_vars
               PROVE  DeathSignalled'
    OBVIOUS
  <2>1. CASE Next
    BY <2>1, DeathStep DEF IInv
  <2>2. CASE UNCHANGED vars
    BY <2>2 DEF vars, DeathSignalled, DeathOnItsWay
  <2> QED
    BY <2>1, <2>2
<1> QED
  BY <1>1, <1>2, Invariant, PTL DEF Spec, SignalsFit

-----------------------------------------------------------------------------
(* ChatroomServer, the chat server around poll, whose table is kept in the *)
(* same way, for every limit of users and every set of descriptors larger  *)
(* than it.  Where a name is taken above it has another one here.          *)

CONSTANTS POLL_LIMIT, Descriptors, ClientBounds
VARIABLES fds, user_counter, i, write_buf, buf, queued, connected, unread, hup, err,
          remaining, todo, heard, owed

C == INSTANCE ChatroomServer WITH
         USER_LIMIT <- POLL_LIMIT, Bounds <- ClientBounds,
         backlog <- queued, open <- connected, left <- remaining

\* What ChatroomServer assumes of its constants.
ChatAssumed == C!LimitAssumption /\ C!DescriptorAssumption

\* A pollfd of the table; -1 stands in an entry that was never used.
Pollfd == [fd : Descriptors \cup {C!listenfd, -1},
           events : SUBSET C!Bits, revents : SUBSET C!Bits]

\* Of what main keeps.
MainType ==
    /\ fds \in [C!Entries -> Pollfd] /\ user_counter \in 0 .. POLL_LIMIT
    /\ i \in 0 .. user_counter + 1

\* Of what the system keeps: what is known of a client is about an open
\* connection, and an event of the listening socket stands for a client.
SystemType ==
    /\ connected \in SUBSET Descriptors /\ hup \in SUBSET connected /\ err \in SUBSET hup
    /\ unread \in [Descriptors -> Nat] /\ queued \in Nat
    /\ i = 0 /\ "IN" \in fds[0].revents => queued > 0

\* The entries in use have descriptors of their own.
Distinct ==
    /\ fds[0].fd = C!listenfd
    /\ \A j, k \in 1 .. user_counter : fds[j].fd = fds[k].fd => j = k

\* They are those of the open connections.
OpenListed == C!Users = connected /\ Cardinality(connected) = user_counter

\* The entries ahead of the loop for which poll has reported something.
Ahead == {j \in i .. user_counter : fds[j].revents # {}}
AheadListed == {fds[j].fd : j \in Ahead} = todo

\* The instance brings its own operators of FiniteSets.
LEMMA SameSize ==
    ASSUME NEW S
    PROVE  (C!IsFiniteSet(S) <=> IsFiniteSet(S)) /\ C!Cardinality(S) = Cardinality(S)
BY DEF C!IsFiniteSet, IsFiniteSet, C!Cardinality, Cardinality

\* The assumptions in terms of this module's operators.
LEMMA DescriptorFacts ==
    ASSUME ChatAssumed
    PROVE  /\ POLL_LIMIT \in Nat /\ C!listenfd \notin Descriptors
           /\ IsFiniteSet(Descriptors) /\ Cardinality(Descriptors) > POLL_LIMIT
<1>1. /\ C!IsFiniteSet(Descriptors) /\ C!Cardinality(Descriptors) > POLL_LIMIT
      /\ C!listenfd \notin Descriptors
  BY DEF ChatAssumed, C!DescriptorAssumption
<1> QED
  BY <1>1, SameSize DEF ChatAssumed, C!LimitAssumption

\* A set of numbers that is not empty has a smallest: accept returns what is free.
LEMMA SmallestFree ==
    ASSUME C!DescriptorAssumption, Descriptors \ connected # {}
    PROVE  C!Min(Descriptors \ connected) \in Descriptors \ connected
<1> DEFINE T == Descriptors \ connected
           R == {ss \in Nat \X Nat : ss[1] < ss[2]}
<1>1. T \subseteq Nat /\ T # {}
  BY DEF C!DescriptorAssumption
<1>2. PICK n \in T : \A m \in T : ~(<<m, n>> \in R)
  <2>1. IsWellFoundedOn(R, Nat)
    BY NatLessThanWellFounded DEF OpToRel
  <2> HIDE DEF R, T
  <2> QED
    BY <1>1, <2>1, WFMin
<1>3. \A m \in T : n <= m
  <2> SUFFICES ASSUME NEW m \in T, m < n PROVE FALSE
    BY <1>1
  <2> QED
    BY <1>1, <1>2
<1> HIDE DEF T
<1> QED
  BY <1>2, <1>3 DEF C!Min, T

\* As long as there is room there is a free descriptor, and no entry has it.
LEMMA FreeDescriptor ==
    ASSUME ChatAssumed, SystemType, OpenListed, MainType, ~C!Full
    PROVE  C!Min(Descriptors \ connected) \in Descriptors \ connected
<1>1. Cardinality(connected) < Cardinality(Descriptors)
  <2>1. Cardinality(Descriptors) \in Nat
    BY DescriptorFacts, FS_CardinalityType
  <2> QED
    BY <2>1, DescriptorFacts DEF C!Full, OpenListed, MainType
<1>2. Descriptors \ connected # {}
  <2> SUFFICES ASSUME Descriptors \subseteq connected PROVE FALSE
    OBVIOUS
  <2>1. connected = Descriptors
    BY DEF SystemType
  <2>2. Cardinality(Descriptors) \in Nat
    BY DescriptorFacts, FS_CardinalityType
  <2> QED
    BY <1>1, <2>1, <2>2
<1> QED
  BY <1>2, SmallestFree DEF ChatAssumed

\* Which entry is whose.
LEMMA Entried ==
    ASSUME ChatAssumed, MainType, SystemType, Distinct, OpenListed
    PROVE  /\ POLL_LIMIT \in Nat /\ user_counter \in Nat /\ C!listenfd \notin Descriptors
           /\ IsFiniteSet(connected)
           /\ \A j \in 0 .. user_counter :
                 /\ j \in C!Entries /\ fds[j] \in Pollfd
                 /\ fds[j].fd = C!listenfd <=> j = 0
                 /\ j # 0 => fds[j].fd \in connected
           /\ \A j, k \in 0 .. user_counter : fds[j].fd = fds[k].fd => j = k
<1>1. POLL_LIMIT \in Nat /\ user_counter \in Nat /\ user_counter <= POLL_LIMIT
  BY DEF ChatAssumed, C!LimitAssumption, MainType
<1>2. C!listenfd \notin Descriptors /\ IsFiniteSet(connected)
  BY DescriptorFacts, FS_Subset DEF SystemType
<1>3. ASSUME NEW j \in 0 .. user_counter
      PROVE  /\ j \in C!Entries /\ fds[j] \in Pollfd
             /\ fds[j].fd = C!listenfd <=> j = 0
             /\ j # 0 => fds[j].fd \in connected
  <2>1. j \in C!Entries /\ fds[j] \in Pollfd
    BY <1>1 DEF C!Entries, MainType
  <2>2. j # 0 => fds[j].fd \in connected
    BY <1>1 DEF OpenListed, C!Users
  <2> QED
    BY <1>2, <2>1, <2>2 DEF Distinct, SystemType
<1>4. ASSUME NEW j \in 0 .. user_counter, NEW k \in 0 .. user_counter,
             fds[j].fd = fds[k].fd
      PROVE  j = k
  <2>1. j = 0 <=> k = 0
    BY <1>3, <1>4
  <2>2. CASE j # 0
    <3>1. j \in 1 .. user_counter /\ k \in 1 .. user_counter
      BY <1>1, <2>1, <2>2
    <3> QED
      BY <1>4, <3>1 DEF Distinct
  <2> QED
    BY <2>1, <2>2
<1> QED
  BY <1>1, <1>2, <1>3, <1>4

\* An iteration that leaves the descriptors and what was reported of them.
LEMMA GoOnStep ==
    ASSUME ChatAssumed, MainType, SystemType, Distinct, OpenListed, AheadListed,
           C!Entry, C!GoOn, user_counter' = user_counter, connected' = connected,
           \A j \in 0 .. user_counter :
              fds'[j].fd = fds[j].fd /\ fds'[j].revents = fds[j].revents
    PROVE  Distinct' /\ OpenListed' /\ AheadListed'
<1>1. user_counter \in Nat /\ i \in Nat /\ i <= user_counter
  BY Entried DEF MainType, C!Entry
<1>2. Distinct'
  BY <1>1 DEF Distinct
<1>3. OpenListed'
  <2>1. C!Users' = C!Users
    BY <1>1 DEF C!Users
  <2> QED
    BY <2>1 DEF OpenListed
<1>4. AheadListed'
  <2>1. todo' = todo \ {fds[i].fd} /\ i' = i + 1
    BY DEF C!Entry, C!GoOn
  <2>2. Ahead' = Ahead \ {i}
    BY <1>1, <2>1 DEF Ahead
  <2>3. \A j \in Ahead : j \in 0 .. user_counter /\ fds'[j].fd = fds[j].fd
    BY <1>1 DEF Ahead
  <2>4. \A j \in Ahead : fds[j].fd = fds[i].fd => j = i
    BY <1>1, <2>3, Entried
  <2>5. {fds'[j].fd : j \in Ahead'} = {fds[j].fd : j \in Ahead} \ {fds[i].fd}
    BY <2>2, <2>3, <2>4
  <2> QED
    BY <2>1, <2>5 DEF AheadListed
<1> QED
  BY <1>2, <1>3, <1>4

\* The last entry takes the place of the one whose connection is closed.
LEMMA RemoveStep ==
    ASSUME ChatAssumed, MainType, SystemType, Distinct, OpenListed, AheadListed,
           C!User, NEW bufs, C!Remove(bufs)
    PROVE  /\ MainType' /\ SystemType'
           /\ Distinct' /\ OpenListed' /\ AheadListed'
<1> DEFINE from(j) == IF j = i THEN user_counter ELSE j
           f == fds[i].fd
<1>1. i \in 1 .. user_counter /\ user_counter \in Nat /\ POLL_LIMIT \in Nat
      /\ user_counter <= POLL_LIMIT
  BY Entried DEF C!User, C!Entry, MainType
<1>2. /\ connected' = connected \ {f} /\ hup' = hup \ {f} /\ err' = err \ {f}
      /\ user_counter' = user_counter - 1 /\ i' = i
      /\ UNCHANGED <<queued, unread>>
      /\ todo' = todo \ {f}
  BY DEF C!Remove, C!User, C!Entry
<1>3. f \in connected /\ i \in C!Entries /\ user_counter \in C!Entries /\ connected \subseteq Descriptors
  BY <1>1, Entried DEF SystemType
<1>4. fds' = [fds EXCEPT ![i] = fds[user_counter]]
  BY DEF C!Remove
<1>5. \A j \in 0 .. user_counter - 1 : j \in C!Entries /\ fds'[j] = fds[from(j)]
  BY <1>1, <1>4 DEF MainType, C!Entries
<1>6. \A j \in 0 .. user_counter - 1 : /\ from(j) \in 0 .. user_counter /\ from(j) # i
                                       /\ j >= 1 => from(j) >= 1
                                       /\ j >= i => from(j) >= i + 1
  <2>1. ASSUME NEW j \in 0 .. user_counter - 1
        PROVE  /\ from(j) \in 0 .. user_counter /\ from(j) # i
               /\ j >= 1 => from(j) >= 1
               /\ j >= i => from(j) >= i + 1
    <3>1. CASE j = i
      BY <1>1, <2>1, <3>1
    <3>2. CASE j # i
      BY <1>1, <2>1, <3>2
    <3> QED
      BY <3>1, <3>2
  <2> QED
    BY <2>1
<1>7. \A k \in 1 .. user_counter : k # i =>
         \E j \in 1 .. user_counter - 1 : from(j) = k /\ (k > i => j >= i)
  <2>1. ASSUME NEW k \in 1 .. user_counter, k # i
        PROVE  \E j \in 1 .. user_counter - 1 : from(j) = k /\ (k > i => j >= i)
    <3>1. CASE k = user_counter
      <4>1. i \in 1 .. user_counter - 1 /\ from(i) = k
        BY <1>1, <2>1, <3>1
      <4> QED
        BY <1>1, <4>1
    <3>2. CASE k # user_counter
      <4>1. k \in 1 .. user_counter - 1 /\ from(k) = k
        BY <1>1, <2>1, <3>2
      <4> QED
        BY <1>1, <4>1
    <3> QED
      BY <3>1, <3>2
  <2> QED
    BY <2>1
<1>8. \A j, k \in 0 .. user_counter - 1 : from(j) = from(k) => j = k
  <2>1. ASSUME NEW j \in 0 .. user_counter - 1, NEW k \in 0 .. user_counter - 1,
               from(j) = from(k)
        PROVE  j = k
    BY <1>1, <2>1
  <2> QED
    BY <2>1
<1>9. \A k \in 0 .. user_counter : k # i => fds[k].fd # f
  BY <1>1, Entried
<1> HIDE DEF from, f
<1>10. MainType'
  <2>1. fds' \in [C!Entries -> Pollfd]
    BY <1>3, <1>4 DEF MainType
  <2> QED
    BY <1>1, <1>2, <2>1 DEF MainType
<1>11. SystemType'
  BY <1>1, <1>2 DEF SystemType
<1>12. Distinct'
  <2>1. fds'[0] = fds[0]
    BY <1>1, <1>4 DEF MainType, C!Entries
  <2>2. ASSUME NEW j \in 1 .. user_counter', NEW k \in 1 .. user_counter',
               fds'[j].fd = fds'[k].fd
        PROVE  j = k
    <3>1. j \in 0 .. user_counter - 1 /\ k \in 0 .. user_counter - 1
      BY <1>1, <1>2
    <3>2. from(j) = from(k)
      BY <1>5, <1>6, <2>2, <3>1, Entried
    <3> QED
      BY <1>8, <3>1, <3>2
  <2> QED
    BY <2>1, <2>2 DEF Distinct
<1>13. OpenListed'
  <2>1. C!Users' = C!Users \ {f}
    <3>1. ASSUME NEW x \in C!Users' PROVE x \in C!Users \ {f}
      <4>1. PICK j \in 1 .. user_counter - 1 : x = fds'[j].fd
        BY <1>2, <3>1 DEF C!Users
      <4>2. j \in 0 .. user_counter - 1 /\ j >= 1
        BY <1>1
      <4>3. x = fds[from(j)].fd /\ from(j) \in 0 .. user_counter /\ from(j) # i /\ from(j) >= 1
        BY <1>5, <1>6, <4>1, <4>2
      <4>4. from(j) \in 1 .. user_counter
        BY <1>1, <4>3
      <4> QED
        BY <1>9, <4>3, <4>4 DEF C!Users
    <3>2. ASSUME NEW x \in C!Users \ {f} PROVE x \in C!Users'
      <4>1. PICK k \in 1 .. user_counter : x = fds[k].fd /\ k # i
        BY <3>2 DEF C!Users, f
      <4>2. PICK j \in 1 .. user_counter - 1 : from(j) = k
        BY <1>7, <4>1
      <4>3. j \in 0 .. user_counter - 1
        BY <1>1
      <4> QED
        BY <1>2, <1>5, <4>1, <4>2, <4>3 DEF C!Users
    <3> QED
      BY <3>1, <3>2
  <2>2. Cardinality(connected') = user_counter - 1
    BY <1>2, <1>3, Entried, FS_RemoveElement DEF OpenListed
  <2> QED
    BY <1>2, <2>1, <2>2 DEF OpenListed
<1>14. AheadListed'
  <2>1. Ahead' = {j \in i .. user_counter - 1 : fds'[j].revents # {}}
    BY <1>2 DEF Ahead
  <2>2. ASSUME NEW x \in {fds'[j].fd : j \in Ahead'} PROVE x \in todo'
    <3>1. PICK j \in i .. user_counter - 1 : x = fds'[j].fd /\ fds'[j].revents # {}
      BY <2>1, <2>2
    <3>2. j \in 0 .. user_counter - 1 /\ j >= i
      BY <1>1
    <3>3. /\ from(j) \in 0 .. user_counter /\ from(j) # i /\ from(j) >= i + 1
          /\ x = fds[from(j)].fd /\ fds[from(j)].revents # {}
      BY <1>5, <1>6, <3>1, <3>2
    <3>4. from(j) \in i .. user_counter
      BY <1>1, <3>3
    <3>5. x \in todo
      BY <3>3, <3>4 DEF AheadListed, Ahead
    <3> QED
      BY <1>2, <1>9, <3>3, <3>5
  <2>3. ASSUME NEW x \in todo' PROVE x \in {fds'[j].fd : j \in Ahead'}
    <3>1. PICK k \in Ahead : x = fds[k].fd
      BY <1>2, <2>3 DEF AheadListed
    <3>2. k \in 1 .. user_counter /\ k >= i /\ fds[k].revents # {} /\ k # i
      BY <1>1, <1>2, <2>3, <3>1 DEF Ahead, f
    <3>3. PICK j \in 1 .. user_counter - 1 : from(j) = k /\ j >= i
      BY <1>1, <1>7, <3>2
    <3>4. j \in 0 .. user_counter - 1 /\ j \in i .. user_counter - 1
      BY <1>1, <3>3
    <3>5. fds'[j] = fds[k]
      BY <1>5, <3>3, <3>4
    <3> QED
      BY <2>1, <3>1, <3>2, <3>4, <3>5
  <2> QED
    BY <2>2, <2>3 DEF AheadListed
<1> QED
  BY <1>10, <1>11, <1>12, <1>13, <1>14

\* A connection is accepted into a new entry, of which nothing is reported.
LEMMA PollAcceptStep ==
    ASSUME ChatAssumed, MainType, SystemType, Distinct, OpenListed, AheadListed, C!AcceptUser
    PROVE  /\ MainType' /\ SystemType'
           /\ Distinct' /\ OpenListed' /\ AheadListed'
<1> DEFINE connfd == C!Min(Descriptors \ connected)
           entry == [fd |-> connfd, events |-> {"IN", "RDHUP", "ERR"}, revents |-> {}]
           new == user_counter + 1
<1>1. /\ fds' = [fds EXCEPT ![new] = entry] /\ user_counter' = new
      /\ queued' = queued - 1 /\ connected' = connected \cup {connfd}
      /\ unread' = [unread EXCEPT ![connfd] = 0]
      /\ UNCHANGED <<hup, err>>
      /\ i \in 0 .. user_counter /\ fds[i].fd = C!listenfd /\ "IN" \in fds[i].revents
      /\ i' = i + 1 /\ todo' = todo \ {C!listenfd} /\ ~C!Full
  BY DEF C!AcceptUser, C!NewConnection, C!Entry, C!Event, C!GoOn, MainType
<1>2. connfd \in Descriptors \ connected
  BY <1>1, FreeDescriptor
<1>3. i = 0 /\ queued > 0
  BY <1>1, Entried DEF SystemType
<1>4. user_counter \in Nat /\ POLL_LIMIT \in Nat /\ new \in C!Entries /\ new <= POLL_LIMIT
  BY <1>1, Entried DEF C!Full, MainType, C!Entries
<1>5. entry \in Pollfd /\ entry.fd = connfd /\ entry.revents = {}
  BY <1>2 DEF Pollfd, C!Bits
<1> HIDE DEF connfd, entry
<1>6. \A j \in 0 .. user_counter : fds'[j] = fds[j]
  BY <1>1, <1>4, Entried DEF MainType
<1>7. fds'[new] = entry
  BY <1>1, <1>4 DEF MainType
<1>8. MainType'
  BY <1>1, <1>3, <1>4, <1>5 DEF MainType
<1>9. SystemType'
  BY <1>1, <1>2, <1>3 DEF SystemType
<1>10. Distinct'
  <2>1. \A j \in 1 .. user_counter' : j \in 0 .. user_counter \/ j = new
    BY <1>1, <1>4
  <2>2. \A j \in 0 .. user_counter : fds'[j].fd # fds'[new].fd
    BY <1>2, <1>5, <1>6, <1>7, Entried
  <2> QED
    BY <1>4, <1>6, <2>1, <2>2, Entried DEF Distinct
<1>11. OpenListed'
  <2>1. 1 .. new = 1 .. user_counter \cup {new}
    BY <1>4
  <2>2. \A j \in 1 .. user_counter : fds'[j] = fds[j]
    BY <1>4, <1>6
  <2>3. C!Users' = C!Users \cup {connfd}
    BY <1>1, <1>5, <1>7, <2>1, <2>2 DEF C!Users
  <2>4. Cardinality(connected') = user_counter + 1
    BY <1>1, <1>2, Entried, FS_AddElement DEF OpenListed
  <2> QED
    BY <1>1, <2>3, <2>4 DEF OpenListed
<1>12. AheadListed'
  <2>1. Ahead' = Ahead \ {0}
    <3>1. i' .. user_counter' = 1 .. new
      BY <1>1, <1>3
    <3>2. \A j \in 1 .. new :
             fds'[j].revents # {} <=> j \in 1 .. user_counter /\ fds[j].revents # {}
      BY <1>4, <1>5, <1>6, <1>7
    <3>3. Ahead' = {j \in 1 .. new : fds'[j].revents # {}}
      BY <3>1 DEF Ahead
    <3>4. Ahead' = {j \in 1 .. user_counter : fds[j].revents # {}}
      BY <1>4, <3>2, <3>3
    <3>5. Ahead = {j \in 0 .. user_counter : fds[j].revents # {}}
      BY <1>3 DEF Ahead
    <3>6. 1 .. user_counter = (0 .. user_counter) \ {0}
      BY <1>4
    <3> QED
      BY <3>4, <3>5, <3>6
  <2>2. \A j \in Ahead : j \in 0 .. user_counter /\ fds'[j] = fds[j]
    BY <1>3, <1>6 DEF Ahead
  <2>3. {fds'[j].fd : j \in Ahead'} = {fds[j].fd : j \in Ahead} \ {C!listenfd}
    BY <2>1, <2>2, Entried
  <2> QED
    BY <1>1, <2>3 DEF AheadListed
<1> QED
  BY <1>8, <1>9, <1>10, <1>11, <1>12

\* Poll reports of the entries in use, and starts the loop anew.
LEMMA PollReportsStep ==
    ASSUME ChatAssumed, MainType, SystemType, Distinct, OpenListed, C!Poll
    PROVE  /\ MainType' /\ SystemType'
           /\ Distinct' /\ OpenListed' /\ AheadListed'
<1>0. fds' = [j \in C!Entries |-> IF j > user_counter THEN fds[j]
                                ELSE [fds[j] EXCEPT !.revents = C!Reported(fds[j])]]
  BY DEF C!Poll
<1>1. /\ todo' = {fds[j].fd : j \in {k \in 0 .. user_counter : fds'[k].revents # {}}}
      /\ i' = 0
      /\ UNCHANGED <<user_counter, queued, connected, unread, hup, err>>
  BY DEF C!Poll, C!system
<1>2. user_counter \in Nat /\ 0 \in 0 .. user_counter
  BY Entried
<1>3. \A entry \in Pollfd : C!Reported(entry) \in SUBSET C!Bits
  BY DEF Pollfd, C!Reported, C!Bits
<1>4. \A j \in 0 .. user_counter :
         fds'[j].fd = fds[j].fd /\ fds'[j].revents = C!Reported(fds[j])
  <2>1. ASSUME NEW j \in 0 .. user_counter
        PROVE  fds'[j].fd = fds[j].fd /\ fds'[j].revents = C!Reported(fds[j])
    <3>1. fds'[j] = [fds[j] EXCEPT !.revents = C!Reported(fds[j])] /\ fds[j] \in Pollfd
      BY <1>0, <1>2, Entried
    <3> QED
      BY <3>1 DEF Pollfd
  <2> QED
    BY <2>1
<1>5. MainType'
  <2>1. fds' \in [C!Entries -> Pollfd]
    <3>1. \A entry \in Pollfd : [entry EXCEPT !.revents = C!Reported(entry)] \in Pollfd
      BY <1>3 DEF Pollfd
    <3> QED
      BY <1>0, <3>1 DEF MainType
  <2> QED
    BY <1>1, <1>2, <2>1 DEF MainType
<1>6. SystemType'
  <2>1. "IN" \in fds'[0].revents => queued > 0
    BY <1>2, <1>4, Entried DEF C!Reported
  <2> QED
    BY <1>1, <2>1 DEF SystemType
<1>7. Distinct'
  BY <1>1, <1>2, <1>4 DEF Distinct
<1>8. OpenListed'
  <2>1. \A j \in 1 .. user_counter : fds'[j].fd = fds[j].fd
    BY <1>2, <1>4
  <2>2. C!Users' = C!Users
    BY <1>1, <2>1 DEF C!Users
  <2> QED
    BY <1>1, <2>2 DEF OpenListed
<1>9. AheadListed'
  <2>1. Ahead' = {k \in 0 .. user_counter : fds'[k].revents # {}}
    BY <1>1 DEF Ahead
  <2>2. \A j \in Ahead' : fds'[j].fd = fds[j].fd
    BY <1>4, <2>1
  <2>3. {fds'[j].fd : j \in Ahead'} = {fds[j].fd : j \in Ahead'}
    BY <2>2
  <2>4. todo' = {fds[j].fd : j \in Ahead'}
    BY <1>1, <2>1
  <2> QED
    BY <2>3, <2>4 DEF AheadListed
<1> QED
  BY <1>5, <1>6, <1>7, <1>8, <1>9

\* What the clients do leaves all that main keeps.
LEMMA PollClientStep ==
    ASSUME MainType, SystemType, Distinct, OpenListed, AheadListed,
           \/ C!Connect \/ \E f \in Descriptors : C!Say(f) \/ C!Leave(f) \/ C!Reset(f)
    PROVE  /\ MainType' /\ SystemType'
           /\ Distinct' /\ OpenListed' /\ AheadListed'
<1>1. UNCHANGED <<C!program, connected>>
  BY DEF C!Connect, C!Say, C!Leave, C!Reset
<1>2. MainType' /\ Distinct' /\ OpenListed' /\ AheadListed'
  BY <1>1 DEF C!program, MainType, Distinct, OpenListed, C!Users, AheadListed, Ahead
<1>3. SystemType'
  <2>1. CASE C!Connect
    BY <2>1 DEF C!Connect, C!program, SystemType
  <2>2. CASE \E f \in Descriptors : C!Say(f) \/ C!Leave(f) \/ C!Reset(f)
    <3>1. PICK f \in Descriptors : C!Say(f) \/ C!Leave(f) \/ C!Reset(f)
      BY <2>2
    <3>2. f \in connected /\ queued' = queued /\ connected' = connected
      BY <3>1 DEF C!Say, C!Leave, C!Reset
    <3>3. hup' \in {hup, hup \cup {f}} /\ err' \in {err, err \cup {f}} /\ err' \subseteq hup'
      BY <3>1 DEF C!Say, C!Leave, C!Reset, SystemType
    <3>4. unread' \in [Descriptors -> Nat]
      BY <3>1 DEF C!Say, C!Leave, C!Reset, SystemType
    <3> QED
      BY <1>1, <3>2, <3>3, <3>4 DEF C!program, SystemType
  <2> QED
    BY <2>1, <2>2
<1> QED
  BY <1>2, <1>3

\* The branches that close nothing and accept nobody.
LEMMA EntryStep ==
    ASSUME ChatAssumed, MainType, SystemType, Distinct, OpenListed, AheadListed,
           \/ C!NothingReported \/ C!AcceptFails \/ C!AcceptFull \/ C!ErrorSeen
           \/ C!Read \/ C!NothingToWrite \/ C!Write
    PROVE  /\ MainType' /\ SystemType'
           /\ Distinct' /\ OpenListed' /\ AheadListed'
           /\ \A j \in 0 .. user_counter :
                 fds'[j].fd = fds[j].fd /\ fds'[j].revents = fds[j].revents
<1>1. C!Entry /\ C!GoOn /\ user_counter' = user_counter /\ connected' = connected /\ hup' = hup
  BY DEF C!NothingReported, C!AcceptFails, C!AcceptFull, C!ErrorSeen, C!Read,
         C!NothingToWrite, C!Write,
         C!NewConnection, C!User, C!Input, C!Output, C!system
<1>2. i \in 0 .. user_counter /\ i \in Nat /\ user_counter \in Nat /\ i' = i + 1
  BY <1>1, Entried DEF C!Entry, C!GoOn, MainType
<1>3. /\ fds' \in [C!Entries -> Pollfd]
      /\ \A j \in 0 .. user_counter :
            fds'[j].fd = fds[j].fd /\ fds'[j].revents = fds[j].revents
  <2>1. CASE \/ C!NothingReported \/ C!AcceptFails \/ C!AcceptFull \/ C!ErrorSeen
             \/ C!NothingToWrite
    BY <2>1 DEF C!NothingReported, C!AcceptFails, C!AcceptFull, C!ErrorSeen,
                C!NothingToWrite, MainType
  <2> DEFINE added(j, more) == [fds[j] EXCEPT !.events = @ \cup more]
  <2>2. \A j \in C!Entries, more \in SUBSET C!Bits :
           /\ added(j, more) \in Pollfd
           /\ added(j, more).fd = fds[j].fd /\ added(j, more).revents = fds[j].revents
    BY DEF MainType, Pollfd
  <2>3. CASE C!Read
    <3>1. PICK told \in SUBSET C!Others :
             fds' = [j \in C!Entries |->
                        IF j \in told
                        THEN [fds[j] EXCEPT !.events = @ \cup (C!Bits \ {"IN"}) \cup {"OUT"}]
                        ELSE fds[j]]
      BY <2>3 DEF C!Read
    <3>2. (C!Bits \ {"IN"}) \cup {"OUT"} \in SUBSET C!Bits
      BY DEF C!Bits
    <3>3. \A j \in C!Entries :
             fds'[j] = IF j \in told THEN added(j, (C!Bits \ {"IN"}) \cup {"OUT"})
                       ELSE fds[j]
      <4>1. \A j \in C!Entries : [fds[j] EXCEPT !.events = @ \cup (C!Bits \ {"IN"}) \cup {"OUT"}]
                               = added(j, (C!Bits \ {"IN"}) \cup {"OUT"})
        BY DEF MainType, Pollfd
      <4> QED
        BY <3>1, <4>1
    <3> HIDE DEF added
    <3>4. fds' \in [C!Entries -> Pollfd]
      <4>1. \A j \in C!Entries : fds'[j] \in Pollfd
        BY <2>2, <3>2, <3>3 DEF MainType
      <4> QED
        BY <3>1, <4>1
    <3> QED
      BY <2>2, <3>2, <3>3, <3>4, Entried
  <2>4. CASE C!Write
    <3>1. fds' = [fds EXCEPT ![i].events = @ \cup (C!Bits \ {"OUT"}) \cup {"IN"}]
      BY <2>4 DEF C!Write
    <3>2. (C!Bits \ {"OUT"}) \cup {"IN"} \in SUBSET C!Bits
      BY DEF C!Bits
    <3>3. i \in C!Entries
      BY <1>2, Entried
    <3>4. fds' = [fds EXCEPT ![i] = added(i, (C!Bits \ {"OUT"}) \cup {"IN"})]
      BY <3>1, <3>3 DEF MainType, Pollfd
    <3> HIDE DEF added
    <3> QED
      BY <2>2, <3>2, <3>3, <3>4, Entried DEF MainType
  <2> QED
    BY <2>1, <2>3, <2>4
<1>4. MainType'
  <2>1. i' \in 0 .. user_counter' + 1
    BY <1>1, <1>2
  <2> QED
    BY <1>1, <1>3, <2>1 DEF MainType
<1>5. SystemType'
  <2>1. err' \subseteq err
    BY DEF C!NothingReported, C!AcceptFails, C!AcceptFull, C!ErrorSeen, C!Read,
           C!NothingToWrite, C!Write, C!system
  <2>2. queued' \in Nat
    <3>1. CASE C!AcceptFull
      <4>1. i \in 0 .. user_counter /\ fds[i].fd = C!listenfd /\ "IN" \in fds[i].revents
        BY <1>2, <3>1 DEF C!AcceptFull, C!NewConnection, C!Event
      <4>2. i = 0
        BY <4>1, Entried
      <4>3. queued > 0 /\ queued' = queued - 1
        BY <3>1, <4>1, <4>2 DEF C!AcceptFull, SystemType
      <4> QED
        BY <4>3 DEF SystemType
    <3>2. CASE ~C!AcceptFull
      BY <3>2 DEF C!NothingReported, C!AcceptFails, C!ErrorSeen, C!Read,
                  C!NothingToWrite, C!Write, C!system,
                  SystemType
    <3> QED
      BY <3>1, <3>2
  <2>3. unread' \in [Descriptors -> Nat]
    <3>1. CASE C!Read
      <4>1. PICK rest \in {0} \cup 0 .. unread[fds[i].fd] - 1 :
               unread' = [unread EXCEPT ![fds[i].fd] = rest]
        BY <3>1 DEF C!Read
      <4>2. rest \in Nat
        BY <4>1
      <4> QED
        BY <4>1, <4>2 DEF SystemType
    <3>2. CASE ~C!Read
      BY <3>2 DEF C!NothingReported, C!AcceptFails, C!AcceptFull, C!ErrorSeen,
                  C!NothingToWrite, C!Write, C!system,
                  SystemType
    <3> QED
      BY <3>1, <3>2
  <2> QED
    BY <1>1, <1>2, <2>1, <2>2, <2>3 DEF SystemType
<1> QED
  BY <1>1, <1>3, <1>4, <1>5, GoOnStep

\* The inductive invariant.
ChatInv == MainType /\ SystemType /\ Distinct /\ OpenListed /\ AheadListed

\* It holds in every behaviour of the server.
LEMMA ChatInvariant == ChatAssumed => (C!Spec => []ChatInv)
<1> SUFFICES ASSUME ChatAssumed PROVE C!Spec => []ChatInv
  OBVIOUS
<1>1. C!Init => ChatInv
  <2> SUFFICES ASSUME C!Init PROVE ChatInv
    OBVIOUS
  <2>0. POLL_LIMIT \in Nat
    BY DEF ChatAssumed, C!LimitAssumption
  <2>1. \A j \in C!Entries :
           fds[j] = IF j = 0 THEN [fd |-> C!listenfd, events |-> {"IN", "ERR"}, revents |-> {}]
                    ELSE [fd |-> -1, events |-> {}, revents |-> {}]
    BY DEF C!Init
  <2>2. MainType
    <3>1. fds \in [C!Entries -> Pollfd]
      BY DEF C!Init, Pollfd, C!Bits
    <3>2. user_counter = 0 /\ i = 1
      BY DEF C!Init
    <3> QED
      BY <2>0, <3>1, <3>2 DEF MainType
  <2>3. SystemType
    BY DEF C!Init, SystemType
  <2>4. user_counter = 0 /\ connected = {} /\ i = 1 /\ todo = {}
    BY DEF C!Init
  <2>5. 1 .. user_counter = {} /\ i .. user_counter = {}
    BY <2>4
  <2>6. Distinct
    <3>1. 0 \in C!Entries
      BY <2>0 DEF C!Entries
    <3>2. fds[0].fd = C!listenfd
      BY <2>1, <3>1
    <3> QED
      BY <2>5, <3>2 DEF Distinct
  <2>7. OpenListed
    BY <2>4, <2>5, FS_EmptySet DEF OpenListed, C!Users
  <2>8. AheadListed
    BY <2>4, <2>5 DEF AheadListed, Ahead
  <2> QED
    BY <2>2, <2>3, <2>6, <2>7, <2>8 DEF ChatInv
<1>2. ChatInv /\ [C!Next]_C!vars => ChatInv'
  <2> SUFFICES ASSUME ChatInv, [C!Next]_C!vars PROVE ChatInv'
    OBVIOUS
  <2>0. MainType /\ SystemType /\ Distinct /\ OpenListed /\ AheadListed
    BY DEF ChatInv
  <2>1. CASE C!Connect \/ \E f \in Descriptors : C!Say(f) \/ C!Leave(f) \/ C!Reset(f)
    BY <2>0, <2>1, PollClientStep DEF ChatInv
  <2>2. CASE C!Poll
    BY <2>0, <2>2, PollReportsStep DEF ChatInv
  <2>3. CASE C!AcceptUser
    BY <2>0, <2>3, PollAcceptStep DEF ChatInv
  <2>4. CASE C!UserLeft \/ C!ReadError
    <3>1. C!User /\ \E bufs : C!Remove(bufs)
      BY <2>4 DEF C!UserLeft, C!ReadError, C!Input
    <3> QED
      BY <2>0, <3>1, RemoveStep DEF ChatInv
  <2>5. CASE \/ C!NothingReported \/ C!AcceptFails \/ C!AcceptFull \/ C!ErrorSeen
             \/ C!Read \/ C!NothingToWrite \/ C!Write
    BY <2>0, <2>5, EntryStep DEF ChatInv
  <2>6. CASE UNCHANGED C!vars
    BY <2>0, <2>6 DEF C!vars, ChatInv, MainType, SystemType, Distinct, OpenListed, C!Users,
                      AheadListed, Ahead
  <2> QED
    BY <2>1, <2>2, <2>3, <2>4, <2>5, <2>6 DEF C!Next, C!Server
<1> QED
  BY <1>1, <1>2, PTL DEF C!Spec

\* TableExact holds of the server around poll: whatever is accepted and removed,
\* the entries in use are the open connections, each once.
THEOREM ChatTableStaysExact == ChatAssumed => (C!Spec => []C!TableExact)
<1>1. ChatInv => C!TableExact
  <2> SUFFICES ASSUME ChatInv PROVE C!TableExact
    OBVIOUS
  <2>1. user_counter \in 0 .. POLL_LIMIT
    BY DEF ChatInv, MainType
  <2>2. C!Cardinality(connected) = user_counter
    BY SameSize DEF ChatInv, OpenListed
  <2> QED
    BY <2>1, <2>2 DEF ChatInv, SystemType, Distinct, OpenListed, C!TableExact
<1> QED
  BY <1>1, ChatInvariant, PTL

\* BatchExact holds of the server: moving the last entry into the place of the
\* removed one and visiting that place again neither loses nor repeats what poll
\* has reported.
THEOREM BatchStaysExact == ChatAssumed => (C!Spec => []C!BatchExact)
<1> SUFFICES ASSUME ChatAssumed PROVE C!Spec => []C!BatchExact
  OBVIOUS
<1>1. ChatInv => C!BatchExact
  <2> SUFFICES ASSUME ChatInv PROVE C!BatchExact
    OBVIOUS
  <2>0. MainType /\ SystemType /\ Distinct /\ OpenListed /\ AheadListed
    BY DEF ChatInv
  <2>1. Ahead \subseteq 0 .. user_counter /\ IsFiniteSet(Ahead)
    <3>1. i \in Nat /\ user_counter \in Nat
      BY <2>0, Entried DEF MainType
    <3>2. Ahead \subseteq 0 .. user_counter /\ IsFiniteSet(0 .. user_counter)
      BY <3>1, FS_Interval DEF Ahead
    <3> QED
      BY <3>2, FS_Subset
  <2>2. Cardinality(Ahead) = Cardinality(todo)
    <3> DEFINE g == [j \in Ahead |-> fds[j].fd]
    <3>1. g \in Bijection(Ahead, todo)
      <4>1. \A j \in Ahead : fds[j].fd \in todo
        BY <2>0 DEF AheadListed
      <4>2. \A x \in todo : \E j \in Ahead : fds[j].fd = x
        BY <2>0 DEF AheadListed
      <4>3. \A j, k \in Ahead : fds[j].fd = fds[k].fd => j = k
        BY <2>0, <2>1, Entried
      <4> QED
        BY <4>1, <4>2, <4>3 DEF Bijection, Injection, Surjection, IsInjective
    <3>2. ExistsBijection(Ahead, todo)
      BY <3>1 DEF ExistsBijection
    <3> QED
      BY <2>1, <3>2, FS_Bijection
  <2>3. C!Cardinality(Ahead) = C!Cardinality(todo)
    BY <2>2, SameSize
  <2> QED
    BY <2>0, <2>3 DEF C!BatchExact, Ahead, AheadListed
<1> QED
  BY <1>1, ChatInvariant, PTL

\* Of the history and of users[]: buffers hold messages, and a write_buf points
\* to one of them.
Buffers ==
    /\ write_buf \in [Descriptors -> Descriptors \cup {C!null}] /\ heard \in Nat
    /\ buf \in [Descriptors -> C!Message \cup {C!Nothing}]
    /\ owed \in [Descriptors -> C!Message \cup {C!Nothing}]

\* Where only input was reported, there is some, or a reset has taken it away
\* since: recv never finds the mere end of a connection.
Input(j) == /\ "IN" \in fds[j].revents /\ fds[j].revents \cap {"ERR", "RDHUP"} = {}
            /\ j # 0
There(f) == unread[f] > 0 \/ f \in err
InputThere == \A j \in Ahead : Input(j) => There(fds[j].fd)

\* Everybody can be seen to leave; and whoever is owed a message is still there,
\* is asked whether he can be written to, and will be written that message: his
\* write_buf points to the buffer of its sender, who is there too, and it is
\* still what that buffer holds.
NobodyForgotten ==
    /\ \A g \in Descriptors : owed[g] # C!Nothing =>
          /\ g \in connected
          /\ write_buf[g] = owed[g].by /\ write_buf[g] \in connected \ {g}
          /\ buf[write_buf[g]] = owed[g]
    /\ \A j \in 1 .. user_counter :
          /\ "RDHUP" \in fds[j].events
          /\ owed[fds[j].fd] # C!Nothing => "OUT" \in fds[j].events

\* The steps of the system and of the server that leave the buffers alone.
BuffersAlone == UNCHANGED <<write_buf, buf, heard, owed>>
LEMMA OthersLeaveBuffers ==
    ASSUME \/ C!Connect \/ \E f \in Descriptors : C!Say(f) \/ C!Leave(f) \/ C!Reset(f)
           \/ C!Poll \/ C!NothingReported \/ C!AcceptFails \/ C!AcceptFull
           \/ C!AcceptUser \/ C!ErrorSeen \/ C!NothingToWrite
    PROVE  BuffersAlone
<1>1. CASE C!Connect \/ \E f \in Descriptors : C!Say(f) \/ C!Leave(f) \/ C!Reset(f)
  <2>1. UNCHANGED C!program
    BY <1>1 DEF C!Connect, C!Say, C!Leave, C!Reset
  <2> QED
    BY <2>1 DEF C!program, C!users, BuffersAlone
<1>2. CASE \/ C!Poll \/ C!NothingReported \/ C!AcceptFails \/ C!AcceptFull
           \/ C!AcceptUser \/ C!ErrorSeen \/ C!NothingToWrite
  <2>1. UNCHANGED C!users
    BY <1>2 DEF C!Poll, C!NothingReported, C!AcceptFails, C!AcceptFull, C!AcceptUser,
                C!ErrorSeen, C!NothingToWrite
  <2> QED
    BY <2>1 DEF C!users, BuffersAlone
<1> QED
  BY <1>1, <1>2

\* Who is being read, written to or removed.
LEMMA TheUser ==
    ASSUME ChatAssumed, ChatInv, C!User
    PROVE  /\ i \in 1 .. user_counter /\ i \in C!Entries /\ user_counter \in Nat
           /\ fds[i].fd \in connected /\ connected \subseteq Descriptors
           /\ fds[user_counter].fd \in connected
           /\ C!listenfd \notin Descriptors
<1>0. MainType /\ SystemType /\ Distinct /\ OpenListed
  BY DEF ChatInv
<1>1. i \in 0 .. user_counter /\ fds[i].fd # C!listenfd /\ user_counter \in Nat
  BY <1>0, Entried DEF C!User, C!Entry, MainType
<1>2. i \in 1 .. user_counter /\ user_counter \in 1 .. user_counter
  BY <1>0, <1>1, Entried
<1> QED
  BY <1>0, <1>1, <1>2, Entried DEF SystemType

\* Types are kept.
LEMMA BuffersStep ==
    ASSUME ChatAssumed, ChatInv, Buffers, C!Next
    PROVE  Buffers'
<1>1. ASSUME BuffersAlone PROVE Buffers'
  BY <1>1 DEF BuffersAlone, Buffers
<1>2. ASSUME C!User, NEW bufs \in [Descriptors -> C!Message \cup {C!Nothing}],
             C!Remove(bufs)
      PROVE  Buffers'
  <2>1. /\ write_buf' = [write_buf EXCEPT ![fds[i].fd] = write_buf[fds[user_counter].fd]]
        /\ buf' = [bufs EXCEPT ![fds[i].fd] = bufs[fds[user_counter].fd]]
        /\ owed' = [g \in Descriptors |-> IF g = fds[i].fd \/ owed[g].by = fds[i].fd
                                          THEN C!Nothing ELSE owed[g]]
        /\ heard' = heard
    BY <1>2 DEF C!Remove
  <2>2. fds[i].fd \in Descriptors /\ fds[user_counter].fd \in Descriptors
    BY <1>2, TheUser
  <2> QED
    BY <2>1, <2>2 DEF Buffers
<1>3. CASE C!UserLeft
  BY <1>2, <1>3 DEF C!UserLeft, Buffers
<1>4. CASE C!ReadError
  <2>1. C!User /\ C!Remove([buf EXCEPT ![fds[i].fd] = C!Nothing])
    BY <1>4 DEF C!ReadError, C!Input
  <2>2. [buf EXCEPT ![fds[i].fd] = C!Nothing] \in [Descriptors -> C!Message \cup {C!Nothing}]
    BY DEF Buffers
  <2> QED
    BY <1>2, <2>1, <2>2
<1>5. CASE C!Read
  <2> DEFINE f == fds[i].fd
             message == IF unread[f] > 0 THEN [by |-> f, n |-> heard + 1] ELSE C!Nothing
             told == IF unread[f] > 0 THEN C!Others ELSE {}
  <2>1. C!User /\ f \in Descriptors
    BY <1>5, TheUser DEF C!Read, C!Input
  <2>2. message \in C!Message \cup {C!Nothing}
    BY <2>1 DEF C!Message, Buffers
  <2>3. /\ buf' = [buf EXCEPT ![f] = message]
        /\ heard' = IF unread[f] > 0 THEN heard + 1 ELSE heard
        /\ write_buf' = C!Pointing(f, told)
    BY <1>5 DEF C!Read
  <2>4. owed' = IF unread[f] > 0
                THEN [g \in Descriptors |-> IF g \in connected \ {f} THEN message ELSE owed[g]]
                ELSE owed
    BY <1>5 DEF C!Read
  <2> HIDE DEF f, message, told
  <2>5. write_buf' \in [Descriptors -> Descriptors \cup {C!null}]
    BY <2>1, <2>3 DEF C!Pointing, Buffers
  <2>6. owed' \in [Descriptors -> C!Message \cup {C!Nothing}]
    BY <2>2, <2>4 DEF Buffers
  <2>7. buf' \in [Descriptors -> C!Message \cup {C!Nothing}]
    BY <2>2, <2>3 DEF Buffers
  <2>8. heard' \in Nat
    BY <2>3 DEF Buffers
  <2> QED
    BY <2>5, <2>6, <2>7, <2>8 DEF Buffers
<1>6. CASE C!Write
  <2>1. /\ owed' \in {owed, [owed EXCEPT ![fds[i].fd] = C!Nothing]}
        /\ write_buf' = [write_buf EXCEPT ![fds[i].fd] = C!null]
        /\ UNCHANGED <<buf, heard>>
    BY <1>6 DEF C!Write
  <2> QED
    BY <2>1 DEF Buffers
<1> QED
  BY <1>1, <1>3, <1>4, <1>5, <1>6, OthersLeaveBuffers DEF C!Next, C!Server

\* Input stays where the entries ahead are entries that were ahead.
LEMMA InputKept ==
    ASSUME InputThere,
           \A j \in Ahead' : j # 0 =>
              \E k \in Ahead : /\ k # 0 /\ fds'[j].revents = fds[k].revents
                               /\ fds'[j].fd = fds[k].fd
                               /\ There(fds[k].fd) => There(fds[j].fd)'
    PROVE  InputThere'
<1> SUFFICES ASSUME NEW j \in Ahead', Input(j)' PROVE There(fds[j].fd)'
  BY DEF InputThere
<1>1. j # 0 /\ "IN" \in fds'[j].revents /\ fds'[j].revents \cap {"ERR", "RDHUP"} = {}
  BY DEF Input
<1>2. PICK k \in Ahead : /\ k # 0 /\ fds'[j].revents = fds[k].revents
                         /\ fds'[j].fd = fds[k].fd
                         /\ There(fds[k].fd) => There(fds[j].fd)'
  BY <1>1
<1>3. There(fds[k].fd)
  BY <1>1, <1>2 DEF InputThere, Input
<1> QED
  BY <1>2, <1>3 DEF There

\* What poll reports of input is there, and nobody else reads it.
LEMMA InputStep ==
    ASSUME ChatAssumed, ChatInv, InputThere, NobodyForgotten, C!Next
    PROVE  InputThere'
<1>0. MainType /\ SystemType /\ Distinct /\ OpenListed /\ AheadListed
  BY DEF ChatInv
<1>00. /\ user_counter \in Nat /\ i \in Nat /\ i <= user_counter + 1
       /\ Ahead \subseteq 0 .. user_counter
  BY <1>0, Entried DEF MainType, Ahead
<1>1. CASE C!Connect \/ \E f \in Descriptors : C!Say(f) \/ C!Leave(f) \/ C!Reset(f)
  <2>1. UNCHANGED <<fds, user_counter, i>>
    BY <1>1 DEF C!Connect, C!Say, C!Leave, C!Reset, C!program
  <2>2. ASSUME NEW g \in Descriptors, There(g) PROVE There(g)'
    <3>1. CASE C!Connect
      BY <2>2, <3>1 DEF C!Connect, There
    <3>2. ASSUME NEW f \in Descriptors, C!Say(f) \/ C!Leave(f) \/ C!Reset(f)
          PROVE  There(g)'
      <4>1. CASE C!Say(f)
        BY <1>0, <2>2, <4>1 DEF C!Say, There, SystemType
      <4>2. CASE C!Leave(f)
        BY <2>2, <4>2 DEF C!Leave, There
      <4>3. CASE C!Reset(f)
        BY <1>0, <2>2, <4>3 DEF C!Reset, There, SystemType
      <4> QED
        BY <3>2, <4>1, <4>2, <4>3
    <3> QED
      BY <1>1, <3>1, <3>2
  <2>3. Ahead' = Ahead
    BY <2>1 DEF Ahead
  <2>4. \A j \in Ahead : j # 0 => fds[j].fd \in Descriptors
    BY <1>0, <1>00, Entried DEF SystemType
  <2> QED
    BY <2>1, <2>2, <2>3, <2>4, InputKept
<1>2. CASE C!Poll
  <2>1. fds' = [j \in C!Entries |-> IF j > user_counter THEN fds[j]
                                    ELSE [fds[j] EXCEPT !.revents = C!Reported(fds[j])]]
    BY <1>2 DEF C!Poll
  <2>2. UNCHANGED <<user_counter, unread, err>> /\ i' = 0
    BY <1>2 DEF C!Poll, C!system
  <2>3. ASSUME NEW j \in Ahead', Input(j)' PROVE There(fds[j].fd)'
    <3>1. j \in 0 .. user_counter /\ j # 0
      BY <2>2, <2>3 DEF Ahead, Input
    <3>2. j \in 1 .. user_counter /\ ~(j > user_counter) /\ j \in C!Entries /\ fds[j] \in Pollfd
      BY <1>0, <1>00, <3>1, Entried
    <3>3. fds'[j] = [fds[j] EXCEPT !.revents = C!Reported(fds[j])]
      BY <2>1, <3>2
    <3>4. fds'[j].fd = fds[j].fd /\ fds'[j].revents = C!Reported(fds[j])
      BY <3>2, <3>3 DEF Pollfd
    <3>5. fds[j].fd # C!listenfd /\ "RDHUP" \in fds[j].events
      BY <1>0, <3>1, <3>2, Entried DEF NobodyForgotten
    <3>6. "IN" \in C!Reported(fds[j]) /\ "RDHUP" \notin C!Reported(fds[j])
      BY <2>3, <3>4 DEF Input
    <3>7. unread[fds[j].fd] > 0
      BY <3>5, <3>6 DEF C!Reported
    <3> QED
      BY <2>2, <3>4, <3>7 DEF There
  <2> QED
    BY <2>3 DEF InputThere
<1>3. ASSUME C!Entry, C!GoOn, user_counter' = user_counter,
             \A j \in 0 .. user_counter :
                fds'[j].fd = fds[j].fd /\ fds'[j].revents = fds[j].revents,
             \A g \in connected \ {fds[i].fd} : There(g) => There(g)'
      PROVE  InputThere'
  <2>1. Ahead' \subseteq Ahead \ {i}
    BY <1>00, <1>3 DEF C!Entry, C!GoOn, Ahead
  <2>2. i \in 0 .. user_counter
    BY <1>00, <1>3 DEF C!Entry
  <2>3. \A j \in Ahead' : j # 0 => fds[j].fd \in connected \ {fds[i].fd}
    BY <1>0, <1>00, <2>1, <2>2, Entried
  <2> QED
    BY <1>00, <1>3, <2>1, <2>3, InputKept
<1>4. CASE \/ C!NothingReported \/ C!AcceptFails \/ C!AcceptFull \/ C!ErrorSeen
           \/ C!NothingToWrite
  <2>1. C!Entry /\ C!GoOn /\ UNCHANGED <<fds, user_counter, unread>>
    BY <1>4 DEF C!NothingReported, C!AcceptFails, C!AcceptFull, C!ErrorSeen,
                C!NothingToWrite, C!NewConnection, C!User, C!Output, C!system
  <2>2. err \ {fds[i].fd} \subseteq err'
    BY <1>4 DEF C!NothingReported, C!AcceptFails, C!AcceptFull, C!ErrorSeen,
                C!NothingToWrite, C!system
  <2> QED
    BY <1>3, <2>1, <2>2 DEF There
<1>5. CASE C!Read \/ C!Write
  <2>1. C!Entry /\ C!GoOn /\ UNCHANGED user_counter
    BY <1>5 DEF C!Read, C!Write, C!Input, C!Output, C!User
  <2>2. /\ err \ {fds[i].fd} \subseteq err'
        /\ \A g \in Descriptors \ {fds[i].fd} : unread'[g] = unread[g]
    <3>1. CASE C!Read
      BY <1>0, <3>1 DEF C!Read, SystemType
    <3>2. CASE C!Write
      BY <3>2 DEF C!Write
    <3> QED
      BY <1>5, <3>1, <3>2
  <2>3. \A j \in 0 .. user_counter :
           fds'[j].fd = fds[j].fd /\ fds'[j].revents = fds[j].revents
    BY <1>0, <1>5, EntryStep
  <2> QED
    BY <1>0, <1>3, <2>1, <2>2, <2>3 DEF There, SystemType
<1>6. CASE C!AcceptUser
  <2> DEFINE connfd == C!Min(Descriptors \ connected)
             new == user_counter + 1
             entry == [fd |-> connfd, events |-> {"IN", "RDHUP", "ERR"}, revents |-> {}]
  <2>1. /\ fds' = [fds EXCEPT ![new] = entry] /\ user_counter' = new
        /\ unread' = [unread EXCEPT ![connfd] = 0] /\ UNCHANGED err
        /\ i' = i + 1 /\ ~C!Full
    BY <1>6 DEF C!AcceptUser, C!NewConnection, C!GoOn
  <2>2. connfd \notin connected
    BY <1>0, <2>1, FreeDescriptor
  <2>3. entry.revents = {}
    OBVIOUS
  <2> HIDE DEF connfd, entry
  <2>4. new \in C!Entries
    BY <1>0, <1>00, <2>1, Entried DEF C!Full, C!Entries, MainType
  <2>5. fds'[new].revents = {} /\ \A j \in 0 .. user_counter : fds'[j] = fds[j]
    BY <1>0, <1>00, <2>1, <2>3, <2>4, Entried DEF MainType
  <2>6. ASSUME NEW j \in Ahead', j # 0
        PROVE  j \in Ahead /\ fds'[j] = fds[j] /\ fds[j].fd \in connected
    <3>1. j \in i + 1 .. new /\ j # new
      BY <2>1, <2>5, <2>6 DEF Ahead
    <3>2. j \in i .. user_counter /\ j \in 0 .. user_counter
      BY <1>00, <3>1
    <3> QED
      BY <1>0, <2>5, <2>6, <3>2, Entried DEF Ahead
  <2>7. \A g \in connected : There(g) => There(g)'
    BY <1>0, <2>1, <2>2 DEF There, SystemType
  <2> QED
    BY <2>6, <2>7, InputKept
<1>7. ASSUME C!User, NEW bufs, C!Remove(bufs) PROVE InputThere'
  <2> DEFINE f == fds[i].fd
  <2>1. /\ fds' = [fds EXCEPT ![i] = fds[user_counter]] /\ user_counter' = user_counter - 1
        /\ i' = i /\ err' = err \ {f} /\ UNCHANGED unread
    BY <1>7 DEF C!Remove
  <2>2. i \in 1 .. user_counter
    BY <1>7, TheUser
  <2>3. ASSUME NEW j \in Ahead'
        PROVE  \E k \in Ahead : k # 0 /\ fds'[j] = fds[k] /\ fds[k].fd # f
    <3>1. j \in i .. user_counter - 1 /\ fds'[j].revents # {}
      BY <2>1, <2>3 DEF Ahead
    <3>2. j \in 0 .. user_counter /\ user_counter \in 0 .. user_counter /\ j # user_counter
      BY <1>00, <2>2, <3>1
    <3>3. fds'[j] = IF j = i THEN fds[user_counter] ELSE fds[j]
      BY <1>0, <2>1, <3>2, Entried DEF MainType
    <3>4. CASE j = i
      <4>1. user_counter \in Ahead /\ user_counter # i /\ user_counter # 0
        BY <1>00, <2>2, <3>1, <3>2, <3>3, <3>4 DEF Ahead
      <4>2. fds[user_counter].fd # f
        BY <1>0, <2>2, <4>1, Entried
      <4> QED
        BY <3>3, <3>4, <4>1, <4>2
    <3>5. CASE j # i
      <4>1. j \in Ahead /\ j # 0
        BY <1>00, <2>2, <3>1, <3>3, <3>5 DEF Ahead
      <4>2. fds[j].fd # f
        BY <1>0, <2>2, <3>2, <3>5, Entried
      <4> QED
        BY <3>3, <3>5, <4>1, <4>2
    <3> QED
      BY <3>4, <3>5
  <2>4. \A g : g # f /\ There(g) => There(g)'
    BY <2>1 DEF There
  <2> HIDE DEF f
  <2> QED
    BY <2>3, <2>4, InputKept
<1>8. CASE C!UserLeft \/ C!ReadError
  BY <1>7, <1>8 DEF C!UserLeft, C!ReadError, C!Input
<1> QED
  BY <1>1, <1>2, <1>4, <1>5, <1>6, <1>8 DEF C!Next, C!Server

\* Setting bits and forgetting debts does no harm.
LEMMA BitsKept ==
    ASSUME ChatAssumed, ChatInv, NobodyForgotten,
           UNCHANGED <<user_counter, connected, buf>>,
           \A g \in Descriptors : owed'[g] # C!Nothing =>
              owed'[g] = owed[g] /\ write_buf'[g] = write_buf[g],
           \A j \in 1 .. user_counter : /\ fds'[j].fd = fds[j].fd
                                        /\ fds[j].events \subseteq fds'[j].events
    PROVE  NobodyForgotten'
<1>1. \A j \in 1 .. user_counter : fds[j].fd \in Descriptors
  BY DEF ChatInv, OpenListed, C!Users, SystemType
<1>2. ASSUME NEW g \in Descriptors, owed'[g] # C!Nothing
      PROVE  /\ g \in connected'
             /\ write_buf'[g] = owed'[g].by /\ write_buf'[g] \in connected' \ {g}
             /\ buf'[write_buf'[g]] = owed'[g]
  BY <1>2 DEF NobodyForgotten
<1>3. ASSUME NEW j \in 1 .. user_counter'
      PROVE  /\ "RDHUP" \in fds'[j].events
             /\ owed'[fds'[j].fd] # C!Nothing => "OUT" \in fds'[j].events
  BY <1>1, <1>3 DEF NobodyForgotten
<1> QED
  BY <1>2, <1>3 DEF NobodyForgotten

\* What was read is owed to all others, in the buffer they are now to be written
\* from, and their bits are set.
LEMMA ReadRemembers ==
    ASSUME ChatAssumed, ChatInv, Buffers, InputThere, NobodyForgotten, C!Read
    PROVE  NobodyForgotten'
<1> DEFINE f == fds[i].fd
           message == [by |-> f, n |-> heard + 1]
           new == (C!Bits \ {"IN"}) \cup {"OUT"}
           with(entry) == [entry EXCEPT !.events = @ \cup new]
<1>0. MainType /\ SystemType /\ Distinct /\ OpenListed
  BY DEF ChatInv
<1>1. C!User /\ C!Input
  BY DEF C!Read, C!Input
<1>2. /\ i \in 1 .. user_counter /\ user_counter \in Nat /\ f \in connected
      /\ connected \subseteq Descriptors /\ C!listenfd \notin Descriptors
  BY <1>1, TheUser
<1>3. unread[f] > 0
  <2>1. i \in Ahead /\ Input(i)
    BY <1>1, <1>2 DEF C!Input, C!Event, Ahead, Input
  <2>2. There(f)
    BY <2>1 DEF InputThere
  <2>3. unread[f] > 0 \/ f \notin err
    BY DEF C!Read
  <2> QED
    BY <2>2, <2>3 DEF There
<1>4. /\ UNCHANGED <<user_counter, connected>>
      /\ buf' = [buf EXCEPT ![f] = message]
      /\ write_buf' = C!Pointing(f, C!Others)
      /\ owed' = [g \in Descriptors |-> IF g \in connected \ {f} THEN message ELSE owed[g]]
      /\ fds' = [j \in C!Entries |->
                  IF j \in C!Others
                  THEN [fds[j] EXCEPT !.events = @ \cup (C!Bits \ {"IN"}) \cup {"OUT"}]
                  ELSE fds[j]]
  BY <1>3 DEF C!Read
<1>5. message # C!Nothing /\ message.by = f
  BY <1>2 DEF C!Nothing
<1>6. \A entry \in Pollfd : /\ with(entry).fd = entry.fd
                            /\ entry.events \subseteq with(entry).events
                            /\ "OUT" \in with(entry).events
  BY DEF Pollfd
<1>7. \A j \in 1 .. user_counter : /\ j \in C!Entries /\ fds[j] \in Pollfd
                                   /\ fds[j].fd \in connected
  BY <1>0, <1>2, Entried
<1>8. \A j \in 1 .. user_counter : fds'[j] = IF j # i THEN with(fds[j]) ELSE fds[j]
  <2>1. \A entry \in Pollfd :
           [entry EXCEPT !.events = @ \cup (C!Bits \ {"IN"}) \cup {"OUT"}] = with(entry)
    BY DEF Pollfd
  <2>2. \A j \in 1 .. user_counter : j \in C!Others <=> j # i
    BY DEF C!Others
  <2> HIDE DEF with
  <2> QED
    BY <1>4, <1>7, <2>1, <2>2
<1>9. \A j \in 1 .. user_counter : /\ fds'[j].fd = fds[j].fd
                                   /\ fds[j].events \subseteq fds'[j].events
                                   /\ j # i => "OUT" \in fds'[j].events
  <2> HIDE DEF with
  <2> QED
    BY <1>6, <1>7, <1>8
<1>10. \A g \in Descriptors : write_buf'[g] = IF g \in connected \ {f} THEN f ELSE write_buf[g]
  <2>1. connected = {fds[j].fd : j \in 1 .. user_counter}
    BY <1>0 DEF OpenListed, C!Users
  <2>2. \A j \in 1 .. user_counter : fds[j].fd = f <=> j = i
    BY <1>0, <1>2 DEF Distinct
  <2>3. \A g : g \in connected \ {f} <=> \E j \in C!Others : fds[j].fd = g
    BY <2>1, <2>2 DEF C!Others
  <2> QED
    BY <1>4, <2>3 DEF C!Pointing
<1> HIDE DEF f, message, with, new
<1>11. ASSUME NEW g \in Descriptors, owed'[g] # C!Nothing
       PROVE  /\ g \in connected'
              /\ write_buf'[g] = owed'[g].by /\ write_buf'[g] \in connected' \ {g}
              /\ buf'[write_buf'[g]] = owed'[g]
  <2>1. CASE g \in connected \ {f}
    <3>1. owed'[g] = message /\ write_buf'[g] = f
      BY <1>4, <1>10, <2>1
    <3>2. buf'[f] = message
      BY <1>2, <1>4 DEF Buffers
    <3> QED
      BY <1>2, <1>4, <1>5, <2>1, <3>1, <3>2
  <2>2. CASE g \notin connected \ {f}
    <3>1. owed'[g] = owed[g] /\ write_buf'[g] = write_buf[g]
      BY <1>4, <1>10, <2>2
    <3>2. /\ g \in connected /\ write_buf[g] = owed[g].by /\ write_buf[g] \in connected \ {g}
          /\ buf[write_buf[g]] = owed[g]
      BY <1>11, <3>1 DEF NobodyForgotten
    <3>3. write_buf[g] # f
      BY <2>2, <3>2
    <3>4. buf'[write_buf[g]] = buf[write_buf[g]]
      BY <1>2, <1>4, <3>2, <3>3 DEF Buffers
    <3> QED
      BY <1>4, <3>1, <3>2, <3>4
  <2> QED
    BY <2>1, <2>2
<1>12. ASSUME NEW j \in 1 .. user_counter'
       PROVE  /\ "RDHUP" \in fds'[j].events
              /\ owed'[fds'[j].fd] # C!Nothing => "OUT" \in fds'[j].events
  <2>1. j \in 1 .. user_counter
    BY <1>4, <1>12
  <2>2. CASE j = i
    <3>1. owed'[f] = owed[f]
      BY <1>2, <1>4
    <3> QED
      BY <1>9, <2>1, <2>2, <3>1 DEF NobodyForgotten, f
  <2>3. CASE j # i
    BY <1>9, <2>1, <2>3 DEF NobodyForgotten
  <2> QED
    BY <2>2, <2>3
<1> QED
  BY <1>11, <1>12 DEF NobodyForgotten

\* The moved entry keeps its bits, and its user what he is owed and points to.
LEMMA RemoveRemembers ==
    ASSUME ChatAssumed, ChatInv, Buffers, NobodyForgotten, C!User,
           NEW bufs \in {buf, [buf EXCEPT ![fds[i].fd] = C!Nothing]}, C!Remove(bufs)
    PROVE  NobodyForgotten'
<1> DEFINE f == fds[i].fd
           last == fds[user_counter].fd
<1>0. MainType /\ SystemType /\ Distinct /\ OpenListed
  BY DEF ChatInv
<1>1. /\ connected' = connected \ {f}
      /\ write_buf' = [write_buf EXCEPT ![f] = write_buf[last]]
      /\ buf' = [bufs EXCEPT ![f] = bufs[last]]
      /\ owed' = [g \in Descriptors |-> IF g = f \/ owed[g].by = f THEN C!Nothing
                                        ELSE owed[g]]
      /\ user_counter' = user_counter - 1 /\ fds' = [fds EXCEPT ![i] = fds[user_counter]]
  BY DEF C!Remove
<1>2. i \in 1 .. user_counter /\ user_counter \in Nat
  BY TheUser
<1>3. \A j \in 1 .. user_counter' :
         \E k \in 1 .. user_counter : fds'[j] = fds[k]
  <2>1. ASSUME NEW j \in 1 .. user_counter'
        PROVE  \E k \in 1 .. user_counter : fds'[j] = fds[k]
    <3>1. j \in 1 .. user_counter /\ user_counter \in 1 .. user_counter
      BY <1>1, <1>2
    <3>2. j \in C!Entries
      BY <1>0, <1>2, <3>1, Entried
    <3>3. fds'[j] = IF j = i THEN fds[user_counter] ELSE fds[j]
      BY <1>0, <1>1, <3>2 DEF MainType
    <3> QED
      BY <3>1, <3>3
  <2> QED
    BY <2>1
<1>4. \A g \in Descriptors \ {f} : write_buf'[g] = write_buf[g] /\ buf'[g] = buf[g]
  BY <1>1 DEF Buffers
<1>5. \A g \in Descriptors : owed'[g] # C!Nothing =>
         owed'[g] = owed[g] /\ g # f /\ owed[g].by # f
  BY <1>1
<1>6. connected \subseteq Descriptors
  BY TheUser
<1>7. \A j \in 1 .. user_counter : fds[j].fd \in Descriptors
  BY <1>0, <1>6 DEF OpenListed, C!Users
<1> HIDE DEF f, last
<1>8. ASSUME NEW g \in Descriptors, owed'[g] # C!Nothing
      PROVE  /\ g \in connected'
             /\ write_buf'[g] = owed'[g].by /\ write_buf'[g] \in connected' \ {g}
             /\ buf'[write_buf'[g]] = owed'[g]
  <2>1. owed'[g] = owed[g] /\ g # f /\ owed[g].by # f
    BY <1>5, <1>8
  <2>2. /\ g \in connected /\ write_buf[g] = owed[g].by /\ write_buf[g] \in connected \ {g}
        /\ buf[write_buf[g]] = owed[g]
    BY <1>8, <2>1 DEF NobodyForgotten
  <2>3. write_buf'[g] = write_buf[g] /\ buf'[write_buf[g]] = buf[write_buf[g]]
    BY <1>4, <1>6, <2>1, <2>2
  <2> QED
    BY <1>1, <2>1, <2>2, <2>3
<1>9. ASSUME NEW j \in 1 .. user_counter'
      PROVE  /\ "RDHUP" \in fds'[j].events
             /\ owed'[fds'[j].fd] # C!Nothing => "OUT" \in fds'[j].events
  <2>1. PICK k \in 1 .. user_counter : fds'[j] = fds[k]
    BY <1>3
  <2>2. owed'[fds[k].fd] # C!Nothing => owed[fds[k].fd] # C!Nothing
    BY <1>5, <1>7
  <2> QED
    BY <2>1, <2>2 DEF NobodyForgotten
<1> QED
  BY <1>8, <1>9 DEF NobodyForgotten

\* The new entry, whose descriptor nobody has owed anything to.
LEMMA AcceptRemembers ==
    ASSUME ChatAssumed, ChatInv, NobodyForgotten, C!AcceptUser
    PROVE  NobodyForgotten'
<1> DEFINE connfd == C!Min(Descriptors \ connected)
           entry == [fd |-> connfd, events |-> {"IN", "RDHUP", "ERR"}, revents |-> {}]
           new == user_counter + 1
<1>0. MainType /\ SystemType /\ Distinct /\ OpenListed
  BY DEF ChatInv
<1>1. /\ fds' = [fds EXCEPT ![new] = entry] /\ user_counter' = new
      /\ connected' = connected \cup {connfd} /\ ~C!Full
  BY DEF C!AcceptUser
<1>2. UNCHANGED <<write_buf, buf, owed>>
  BY OthersLeaveBuffers DEF BuffersAlone
<1>3. connfd \in Descriptors \ connected
  BY <1>0, <1>1, FreeDescriptor
<1>4. entry.fd = connfd /\ "RDHUP" \in entry.events
  OBVIOUS
<1> HIDE DEF connfd, entry
<1>5. user_counter \in Nat /\ new \in C!Entries
  BY <1>0, <1>1, Entried DEF C!Full, C!Entries, MainType
<1>6. fds'[new] = entry /\ \A j \in 1 .. user_counter : fds'[j] = fds[j]
  BY <1>0, <1>1, <1>5, Entried DEF MainType
<1>7. 1 .. user_counter' = 1 .. user_counter \cup {new}
  BY <1>1, <1>5
<1>8. owed[connfd] = C!Nothing
  BY <1>3 DEF NobodyForgotten
<1>9. \A j \in 1 .. user_counter' :
         /\ "RDHUP" \in fds'[j].events
         /\ owed'[fds'[j].fd] # C!Nothing => "OUT" \in fds'[j].events
  BY <1>2, <1>4, <1>6, <1>7, <1>8 DEF NobodyForgotten
<1>10. \A g \in Descriptors : owed'[g] # C!Nothing =>
          /\ g \in connected'
          /\ write_buf'[g] = owed'[g].by /\ write_buf'[g] \in connected' \ {g}
          /\ buf'[write_buf'[g]] = owed'[g]
  BY <1>1, <1>2 DEF NobodyForgotten
<1> QED
  BY <1>9, <1>10 DEF NobodyForgotten

\* The steps that at most set bits.
LEMMA OthersRemember ==
    ASSUME ChatAssumed, ChatInv, Buffers, NobodyForgotten,
           \/ C!Connect \/ \E f \in Descriptors : C!Say(f) \/ C!Leave(f) \/ C!Reset(f)
           \/ C!Poll \/ C!NothingReported \/ C!AcceptFails \/ C!AcceptFull
           \/ C!ErrorSeen \/ C!NothingToWrite \/ C!Write
    PROVE  NobodyForgotten'
<1>0. MainType /\ SystemType /\ Distinct /\ OpenListed
  BY DEF ChatInv
<1>1. ASSUME UNCHANGED <<fds, user_counter, connected>>, BuffersAlone
      PROVE  NobodyForgotten'
  BY <1>1 DEF NobodyForgotten, BuffersAlone
<1>2. CASE C!Connect \/ \E f \in Descriptors : C!Say(f) \/ C!Leave(f) \/ C!Reset(f)
  <2>1. UNCHANGED <<fds, user_counter, connected>>
    BY <1>2 DEF C!Connect, C!Say, C!Leave, C!Reset, C!program
  <2> QED
    BY <1>1, <1>2, <2>1, OthersLeaveBuffers
<1>3. CASE \/ C!NothingReported \/ C!AcceptFails \/ C!AcceptFull \/ C!ErrorSeen
           \/ C!NothingToWrite
  <2>1. UNCHANGED <<fds, user_counter, connected>>
    BY <1>3 DEF C!NothingReported, C!AcceptFails, C!AcceptFull, C!ErrorSeen,
                C!NothingToWrite, C!system
  <2> QED
    BY <1>1, <1>3, <2>1, OthersLeaveBuffers
<1>4. \A j \in 1 .. user_counter : j \in C!Entries /\ fds[j] \in Pollfd
  BY <1>0, Entried
<1>5. CASE C!Poll
  <2>1. /\ UNCHANGED <<user_counter, connected>> /\ BuffersAlone
        /\ fds' = [j \in C!Entries |-> IF j > user_counter THEN fds[j]
                                ELSE [fds[j] EXCEPT !.revents = C!Reported(fds[j])]]
    BY <1>5, OthersLeaveBuffers DEF C!Poll, C!system
  <2>2. ASSUME NEW j \in 1 .. user_counter
        PROVE  fds'[j].fd = fds[j].fd /\ fds'[j].events = fds[j].events
    <3>1. ~(j > user_counter)
      BY <1>0, Entried
    <3>2. fds'[j] = [fds[j] EXCEPT !.revents = C!Reported(fds[j])] /\ fds[j] \in Pollfd
      BY <1>4, <2>1, <3>1
    <3> QED
      BY <3>2 DEF Pollfd
  <2> QED
    BY <2>1, <2>2, BitsKept DEF BuffersAlone
<1>6. CASE C!Write
  <2> DEFINE f == fds[i].fd
             new == (C!Bits \ {"OUT"}) \cup {"IN"}
  <2>1. /\ UNCHANGED <<user_counter, connected, buf>>
        /\ write_buf' = [write_buf EXCEPT ![f] = C!null]
        /\ owed' = IF buf[write_buf[f]] = owed[f] THEN [owed EXCEPT ![f] = C!Nothing]
                   ELSE owed
        /\ fds' = [fds EXCEPT ![i].events = @ \cup (C!Bits \ {"OUT"}) \cup {"IN"}]
    BY <1>6 DEF C!Write
  <2>2. ASSUME NEW j \in 1 .. user_counter
        PROVE  fds'[j].fd = fds[j].fd /\ fds[j].events \subseteq fds'[j].events
    <3>1. fds[j] \in Pollfd /\ j \in C!Entries
      BY <1>4
    <3>2. fds'[j] = fds[j] \/ fds'[j] = [fds[j] EXCEPT !.events = @ \cup new]
      BY <1>0, <2>1, <3>1 DEF MainType, Pollfd
    <3> HIDE DEF new
    <3> QED
      BY <3>1, <3>2 DEF Pollfd
  <2>3. f \in Descriptors
    BY <1>6, TheUser DEF C!Write, C!Output
  <2>4. ASSUME NEW g \in Descriptors, owed'[g] # C!Nothing
        PROVE  owed'[g] = owed[g] /\ write_buf'[g] = write_buf[g]
    <3>1. g # f
      <4>1. owed[f] # C!Nothing => buf[write_buf[f]] = owed[f]
        BY <2>3 DEF NobodyForgotten
      <4>2. owed'[f] = C!Nothing
        BY <2>1, <2>3, <4>1 DEF Buffers
      <4> QED
        BY <2>4, <4>2
    <3> QED
      BY <2>1, <2>3, <3>1 DEF Buffers
  <2> QED
    BY <2>1, <2>2, <2>4, BitsKept
<1> QED
  BY <1>2, <1>3, <1>5, <1>6

\* What EveryoneServed rests on: whatever entries are moved, descriptors are
\* used again and buffers are filled anew, the next poll asks for whoever may
\* leave and for everybody who is owed a message, and what he will be written
\* is that message, the newest.
THEOREM NobodyIsForgotten == ChatAssumed => (C!Spec => []NobodyForgotten)
<1> SUFFICES ASSUME ChatAssumed PROVE C!Spec => []NobodyForgotten
  OBVIOUS
<1> DEFINE Inv == Buffers /\ InputThere /\ NobodyForgotten
<1>1. C!Init => Inv
  <2> SUFFICES ASSUME C!Init PROVE Inv
    OBVIOUS
  <2>1. /\ user_counter = 0 /\ i = 1 /\ heard = 0
        /\ write_buf = [f \in Descriptors |-> C!null]
        /\ buf = [f \in Descriptors |-> C!Nothing]
        /\ owed = [f \in Descriptors |-> C!Nothing]
    BY DEF C!Init
  <2>2. 1 .. user_counter = {} /\ Ahead = {}
    BY <2>1 DEF Ahead
  <2>3. Buffers
    BY <2>1 DEF Buffers
  <2>4. InputThere /\ NobodyForgotten
    BY <2>1, <2>2 DEF InputThere, NobodyForgotten
  <2> QED
    BY <2>3, <2>4
<1>2. ChatInv /\ Inv /\ [C!Next]_C!vars => Inv'
  <2> SUFFICES ASSUME ChatInv, Inv, [C!Next]_C!vars PROVE Inv'
    OBVIOUS
  <2>1. CASE C!Next
    <3>1. Buffers' /\ InputThere'
      BY <2>1, BuffersStep, InputStep
    <3>2. CASE \/ C!Connect \/ \E f \in Descriptors : C!Say(f) \/ C!Leave(f) \/ C!Reset(f)
               \/ C!Poll \/ C!NothingReported \/ C!AcceptFails \/ C!AcceptFull
               \/ C!ErrorSeen \/ C!NothingToWrite \/ C!Write
      BY <3>1, <3>2, OthersRemember
    <3>3. CASE C!UserLeft \/ C!ReadError
      <4>1. C!User /\ \E bufs \in {buf, [buf EXCEPT ![fds[i].fd] = C!Nothing]} : C!Remove(bufs)
        BY <3>3 DEF C!UserLeft, C!ReadError, C!Input
      <4> QED
        BY <3>1, <4>1, RemoveRemembers
    <3>4. CASE C!AcceptUser
      BY <3>1, <3>4, AcceptRemembers
    <3>5. CASE C!Read
      BY <3>1, <3>5, ReadRemembers
    <3> QED
      BY <2>1, <3>2, <3>3, <3>4, <3>5 DEF C!Next, C!Server
  <2>2. CASE UNCHANGED C!vars
    BY <2>2 DEF C!vars, Buffers, InputThere, Input, There, Ahead, NobodyForgotten
  <2> QED
    BY <2>1, <2>2
<1> QED
  BY <1>1, <1>2, ChatInvariant, PTL DEF C!Spec
=============================================================================
