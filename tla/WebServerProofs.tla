--------------------------- MODULE WebServerProofs ---------------------------
(***************************************************************************)
(* Proofs about WebServer, for any number of descriptors and workers, any  *)
(* limit of the pool's queue, any sizes, and whatever clients do.          *)
(***************************************************************************)
EXTENDS WebServer, FiniteSetTheorems, TLAPS

USE FdsAssumption, WorkersAssumption, LimitAssumption, SizeAssumption,
    BatchAssumption, BoundAssumption

\* The workers that are anywhere in process() or close_conn() of a connection.
Crew(fd) == {w \in Workers : worker[w].pc # "idle" /\ worker[w].fd = fd}

\* Where main and the workers can be, and how often the listening socket still
\* announces a connection.
ThreadInv ==
    /\ pc \in {"wait", "exited"} => events = {}
    /\ pc = "write" => out.fd \in Fds
    /\ \A w \in Workers : IF worker[w].pc = "idle" THEN worker[w] = Idle
                          ELSE worker[w].fd \in Fds
    /\ backlog >= One(newConn) + One([fd |-> Listen, ev |-> "IN"] \in events)

\* An open connection is registered and in one hand; what is left of a closed
\* one is the worker that has closed it, in whose hand it was.
OpenInv(fd) ==
    /\ Holders(fd) = One(fd \notin dropped)
    /\ epoll[fd] # "none" /\ obj[fd].set
    /\ \A w \in Crew(fd) : worker[w].pc \in Busy
ClosedInv(fd) ==
    /\ epoll[fd] = "none" /\ InBatch(fd) = 0 /\ InWrite(fd) = 0 /\ InQueue(fd) = 0
    /\ \A w \in Crew(fd) : worker[w].pc \in Closing \cup {"answer"}
    /\ \A v, w \in Crew(fd) : v = w
    /\ obj[fd].set <=> \E w \in Crew(fd) : worker[w].pc = "reset"
ConnInv(fd) == IF sock[fd].open THEN OpenInv(fd) ELSE ClosedInv(fd)
HandInv == "descriptor" \notin raced => \A fd \in Fds : ConnInv(fd)

\* The connections that m_user_count counts: the open ones and those whose
\* worker has yet to store its count.  What a worker has loaded is still what
\* is stored, if nobody else has changed it since.
Opened == {fd \in Fds : sock[fd].open}
Leaving == {w \in Workers : worker[w].pc \in Closing}
CountInv ==
    raced = {} =>
        /\ m_user_count = Cardinality(Opened) + Cardinality(Leaving)
        /\ \A w \in Workers : worker[w].pc = "store" => worker[w].count = m_user_count

IInv == TypeOK /\ ThreadInv /\ HandInv /\ CountInv

-----------------------------------------------------------------------------
(* Types and threads.                                                      *)

LEMMA FreshTypes == Fresh \in Object /\ Closed \in Socket
BY DEF Object, Socket, Fresh, Closed, Pieces, Unfinished

LEMMA WorkerRecords ==
    /\ Idle \in WorkerState
    /\ \A r \in WorkerState :
        /\ \A to \in Busy \cup Closing : [r EXCEPT !.pc = to] \in WorkerState
        /\ \A n \in Int, to \in Busy \cup Closing :
              [r EXCEPT !.pc = to, !.count = n] \in WorkerState
        /\ \A fd \in Fds : [r EXCEPT !.pc = "process", !.fd = fd] \in WorkerState
<1>1. Idle \in WorkerState
  BY DEF WorkerState, Idle
<1>2. ASSUME NEW r \in WorkerState
      PROVE  /\ \A to \in Busy \cup Closing : [r EXCEPT !.pc = to] \in WorkerState
             /\ \A n \in Int, to \in Busy \cup Closing :
                   [r EXCEPT !.pc = to, !.count = n] \in WorkerState
             /\ \A fd \in Fds : [r EXCEPT !.pc = "process", !.fd = fd] \in WorkerState
  BY <1>2 DEF WorkerState, Busy
<1> QED
  BY <1>1, <1>2

LEMMA Records ==
    /\ Fresh \in Object /\ Closed \in Socket
    /\ \A r \in Object :
        /\ \A b \in BOOLEAN : [r EXCEPT !.set = b] \in Object
        /\ [r EXCEPT !.begun = TRUE] \in Object
        /\ \A p \in Pieces : [r EXCEPT !.buf = p] \in Object
        /\ \A b \in BOOLEAN, n \in {0, FileLen} :
              [r EXCEPT !.m_write_idx = HeadLen, !.linger = b, !.file = n] \in Object
    /\ \A s \in Socket :
        /\ [s EXCEPT !.fin = TRUE] \in Socket /\ [s EXCEPT !.open = TRUE] \in Socket
        /\ \A n \in 0 .. SndBuf :
              /\ [s EXCEPT !.buffer = n] \in Socket
              /\ [s EXCEPT !.buffer = n, !.asks = "nothing"] \in Socket
        /\ \A p \in Pieces :
              /\ [s EXCEPT !.unread = p] \in Socket
              /\ \A a \in {"part", "waits", "overlooked"} :
                    [s EXCEPT !.asks = a, !.unread = p] \in Socket
<1>1. Fresh \in Object /\ Closed \in Socket
  BY DEF Object, Socket, Fresh, Closed, Pieces, Unfinished
<1>2. \A r \in Object :
        /\ \A b \in BOOLEAN : [r EXCEPT !.set = b] \in Object
        /\ [r EXCEPT !.begun = TRUE] \in Object
        /\ \A p \in Pieces : [r EXCEPT !.buf = p] \in Object
        /\ \A b \in BOOLEAN, n \in {0, FileLen} :
              [r EXCEPT !.m_write_idx = HeadLen, !.linger = b, !.file = n] \in Object
  BY DEF Object
<1>3. ASSUME NEW s \in Socket
      PROVE  /\ [s EXCEPT !.fin = TRUE] \in Socket /\ [s EXCEPT !.open = TRUE] \in Socket
             /\ \A n \in 0 .. SndBuf :
                   /\ [s EXCEPT !.buffer = n] \in Socket
                   /\ [s EXCEPT !.buffer = n, !.asks = "nothing"] \in Socket
             /\ \A p \in Pieces :
                   /\ [s EXCEPT !.unread = p] \in Socket
                   /\ \A a \in {"part", "waits", "overlooked"} :
                         [s EXCEPT !.asks = a, !.unread = p] \in Socket
  BY <1>3 DEF Socket
<1> QED
  BY <1>1, <1>2, <1>3

LEMMA TypeInit == Init => TypeOK /\ ThreadInv
<1> SUFFICES ASSUME Init PROVE TypeOK /\ ThreadInv
  OBVIOUS
<1>1. MainType
  BY DEF Init, MainType
<1>5. ListenType
  BY DEF Init, ListenType
<1>6. HistoryType
  <2>1. raced = {} /\ dropped = {} /\ cut = FALSE /\ arrived = 0 /\ said = 0
    BY DEF Init
  <2>2. arrived \in 0 .. MaxConns /\ said \in 0 .. MaxSaid
    BY <2>1
  <2>3. raced \in SUBSET Races /\ dropped \in SUBSET Fds /\ cut \in BOOLEAN
    BY <2>1, Zenon
  <2> QED
    BY <2>2, <2>3 DEF HistoryType
<1>2. PoolType
  <2>1. queue = <<>> /\ worker = [w \in Workers |-> Idle]
    BY DEF Init
  <2>2. worker \in [Workers -> WorkerState]
    BY <2>1, WorkerRecords
  <2>3. queue \in Seq(Fds) /\ Len(queue) <= QueueLimit + 1
    BY <2>1
  <2> QED
    BY <2>2, <2>3 DEF PoolType
<1>3. ObjectType /\ SocketType
  <2>1. [Fresh EXCEPT !.set = FALSE] \in Object
    BY Records
  <2> QED
    BY <2>1, FreshTypes DEF Init, ObjectType, SocketType
<1>4. ThreadInv
  BY DEF Init, ThreadInv, Idle, One
<1> QED
  BY <1>1, <1>2, <1>3, <1>4, <1>5, <1>6 DEF TypeOK

LEMMA TypeSame ==
    /\ MainType /\ UNCHANGED mainVars => MainType'
    /\ PoolType /\ UNCHANGED poolVars => PoolType'
    /\ ObjectType /\ UNCHANGED <<obj, m_user_count>> => ObjectType'
    /\ SocketType /\ UNCHANGED <<epoll, sock>> => SocketType'
    /\ ListenType /\ UNCHANGED listenVars => ListenType'
    /\ HistoryType /\ UNCHANGED <<history, bounds>> => HistoryType'
BY DEF MainType, PoolType, ObjectType, SocketType, ListenType, HistoryType,
       mainVars, poolVars, listenVars, history, bounds

LEMMA ArmType ==
    ASSUME SocketType, NEW fd \in Fds, NEW ev \in {"IN", "OUT"}, Arm(fd, ev)
    PROVE  epoll' \in [Fds -> {"none", "off", "IN", "OUT"}]
BY DEF SocketType, Arm

\* writev does not send more than the send buffer has room for.
LEMMA SendsFit ==
    ASSUME SocketType, ObjectType, NEW fd \in Fds, NEW n \in 1 .. SndBuf, Sends(fd, n)
    PROVE  sock[fd].buffer + n \in 0 .. SndBuf
<1>1. sock[fd].buffer \in 0 .. SndBuf
  BY DEF SocketType, Socket
<1>2. Length(fd) \in Nat
  BY DEF ObjectType, Object, Length
<1>3. n <= SndBuf - sock[fd].buffer
  BY <1>1, <1>2 DEF Sends, Least
<1> QED
  BY <1>1, <1>3

LEMMA RemoveType ==
    ASSUME SocketType, NEW fd \in Fds, Remove(fd)
    PROVE  SocketType'
BY Records DEF SocketType, Remove

LEMMA CloseConnType ==
    ASSUME SocketType, ObjectType, raced \in SUBSET Races,
           NEW fd \in Fds, CloseConn(fd)
    PROVE  SocketType' /\ ObjectType' /\ raced' \in SUBSET Races
<1>1. CASE obj[fd].set /\ Remove(fd) /\ obj' = Forgotten(fd)
             /\ m_user_count' = m_user_count - 1 /\ raced' = CountRace(Workers)
  <2>1. ObjectType'
    <3>1. [obj[fd] EXCEPT !.set = FALSE] \in Object
      BY Records DEF ObjectType
    <3> QED
      BY <1>1, <3>1 DEF Forgotten, ObjectType
  <2>2. raced' \in SUBSET Races
    BY <1>1 DEF CountRace, Races
  <2> QED
    BY <1>1, <2>1, <2>2, RemoveType
<1>2. CASE UNCHANGED <<sock, epoll, obj, m_user_count, raced>>
  BY <1>2 DEF ObjectType, SocketType
<1> QED
  BY <1>1, <1>2 DEF CloseConn

\* Main handles an event of the batch, or goes on with it.
LEMMA HandlingType ==
    ASSUME MainType, NEW fd, NEW ev, Handling(fd, ev),
           pc' \in {"batch", "write"},
           out' \in [fd : Fds \cup {0}, to_send : Int, have : Nat]
    PROVE  MainType'
BY DEF Handling, MainType

LEMMA TypeStepMain == TypeOK /\ ThreadInv /\ Main => TypeOK'
<1> SUFFICES ASSUME TypeOK, ThreadInv, Main PROVE TypeOK'
  OBVIOUS
<1> USE TypeSame DEF TypeOK
<1>h. ASSUME NEW fd, NEW ev, Handling(fd, ev), UNCHANGED <<pc, out>> PROVE MainType'
  BY <1>h, HandlingType DEF Handling, MainType
<1>r. HistoryType => raced \in SUBSET Races
  BY DEF HistoryType
<1>c. raced' \in SUBSET Races /\ UNCHANGED <<dropped, bounds>> /\ cut' \in BOOLEAN
          => HistoryType'
  BY DEF HistoryType, bounds
<1>1. ASSUME EpollWait PROVE TypeOK'
  <2>1. MainType'
    BY <1>1 DEF EpollWait, MainType, Reported
  <2>2. SocketType'
    BY <1>1 DEF EpollWait, SocketType, Disarmed
  <2>3. ListenType'
    BY <1>1 DEF EpollWait, ListenType
  <2> QED
    BY <1>1, <2>1, <2>2, <2>3 DEF EpollWait
<1>2. ASSUME AcceptFails \/ ShowError PROVE TypeOK'
  <2>1. MainType'
    BY <1>2, <1>h DEF AcceptFails, ShowError
  <2>2. backlog' \in Nat
    BY <1>2 DEF AcceptFails, ShowError, ListenType, ThreadInv, One, Handling
  <2>3. ListenType'
    BY <1>2, <2>2 DEF AcceptFails, ShowError, ListenType
  <2> QED
    BY <1>2, <2>1, <2>3 DEF AcceptFails, ShowError
<1>3. ASSUME BatchEnd PROVE TypeOK'
  <2>1. MainType'
    BY <1>3 DEF BatchEnd, MainType
  <2> QED
    BY <1>3, <2>1 DEF BatchEnd
<1>4. ASSUME WriteMore PROVE TypeOK'
  <2>1. PICK n \in 1 .. SndBuf :
          /\ Sends(out.fd, n)
          /\ sock' = [sock EXCEPT ![out.fd].buffer = @ + n]
          /\ obj' = [obj EXCEPT ![out.fd].begun = TRUE]
          /\ out' = [out EXCEPT !.to_send = @ - n, !.have = @ + n]
    BY <1>4 DEF WriteMore
  <2>2. out.fd \in Fds
    BY <1>4 DEF WriteMore, ThreadInv
  <2>3. MainType'
    <3>1. out.to_send - n \in Int /\ out.have + n \in Nat
      BY DEF MainType
    <3>2. out' \in [fd : Fds \cup {0}, to_send : Int, have : Nat]
      BY <2>1, <3>1 DEF MainType
    <3> QED
      BY <1>4, <3>2 DEF WriteMore, MainType
  <2>4. sock[out.fd].buffer + n \in 0 .. SndBuf
    BY <2>1, <2>2, SendsFit
  <2>5. SocketType'
    BY <1>4, <2>1, <2>2, <2>4, Records DEF WriteMore, SocketType
  <2>6. ObjectType'
    BY <1>4, <2>1, <2>2, Records DEF WriteMore, ObjectType
  <2> QED
    BY <1>4, <2>3, <2>5, <2>6 DEF WriteMore
<1>5. ASSUME WriteKeep PROVE TypeOK'
  <2>1. PICK n \in 1 .. SndBuf :
          /\ Sends(out.fd, n)
          /\ sock' = [sock EXCEPT ![out.fd].buffer = @ + n, ![out.fd].asks = "nothing"]
          /\ cut' = (cut \/ ~Intact(out.fd, n))
    BY <1>5 DEF WriteKeep
  <2>2. out.fd \in Fds
    BY <1>5 DEF WriteKeep, ThreadInv
  <2>3. MainType'
    BY <1>5 DEF WriteKeep, MainType
  <2>4. sock[out.fd].buffer + n \in 0 .. SndBuf
    BY <2>1, <2>2, SendsFit
  <2>5. SocketType'
    <3>1. epoll' \in [Fds -> {"none", "off", "IN", "OUT"}]
      BY <1>5, <2>2, ArmType DEF WriteKeep
    <3>2. sock' \in [Fds -> Socket]
      <4>1. sock[out.fd] \in Socket
        BY <2>2 DEF SocketType
      <4>2. [sock[out.fd] EXCEPT !.buffer = sock[out.fd].buffer + n,
                                 !.asks = "nothing"] \in Socket
        BY <2>4, <4>1, Records
      <4> QED
        BY <2>1, <2>2, <4>2 DEF SocketType
    <3> QED
      BY <3>1, <3>2 DEF SocketType
  <2>6. ObjectType'
    BY <1>5, <2>1, <2>2, Records DEF WriteKeep, ObjectType
  <2>7. cut' \in BOOLEAN
    BY <2>1 DEF HistoryType
  <2> QED
    BY <1>5, <1>c, <1>r, <2>3, <2>5, <2>6, <2>7 DEF WriteKeep
<1>6. ASSUME WriteClose \/ WriteFails PROVE TypeOK'
  <2>2. out.fd \in Fds
    BY <1>6 DEF WriteClose, WriteFails, ThreadInv
  <2>3. MainType'
    BY <1>6 DEF WriteClose, WriteFails, MainType
  <2>4. cut' \in BOOLEAN
    BY <1>6 DEF WriteClose, WriteFails, HistoryType
  <2> QED
    BY <1>6, <1>c, <1>r, <2>2, <2>3, <2>4, CloseConnType DEF WriteClose, WriteFails
<1>7. ASSUME WriteLater PROVE TypeOK'
  <2>1. MainType' /\ out.fd \in Fds
    BY <1>7 DEF WriteLater, MainType, ThreadInv
  <2>2. SocketType'
    BY <1>7, <2>1, ArmType DEF WriteLater, SocketType
  <2> QED
    BY <1>7, <2>1, <2>2 DEF WriteLater
<1>8. ASSUME NEW fd \in Fds, Accept(fd) PROVE TypeOK'
  <2>1. MainType'
    <3>1. Handling(Listen, "IN") /\ UNCHANGED <<pc, out>>
      BY <1>8 DEF Accept
    <3> QED
      BY <3>1, <1>h
  <2>2. ObjectType'
    <3>1. obj' = [obj EXCEPT ![fd] = Fresh] /\ m_user_count' = m_user_count + 1
      BY <1>8 DEF Accept
    <3> QED
      BY <3>1, FreshTypes DEF ObjectType
  <2>3. SocketType'
    <3>1. [Closed EXCEPT !.open = TRUE] \in Socket
      BY FreshTypes, Records
    <3>2. /\ sock' = [sock EXCEPT ![fd] = [Closed EXCEPT !.open = TRUE]]
          /\ epoll' = [epoll EXCEPT ![fd] = "IN"]
      BY <1>8 DEF Accept
    <3> QED
      BY <3>1, <3>2 DEF SocketType
  <2>4. ListenType'
    BY <1>8 DEF Accept, ListenType, ThreadInv, One, Handling
  <2>5. HistoryType'
    BY <1>8 DEF Accept, HistoryType, CountRace, Races, bounds
  <2> QED
    BY <1>8, <2>1, <2>2, <2>3, <2>4, <2>5 DEF Accept
<1>9. ASSUME NEW fd \in Fds, HandleHup(fd) \/ HandleInClose(fd) PROVE TypeOK'
  <2>1. MainType'
    BY <1>9, <1>h DEF HandleHup, HandleInClose
  <2>2. cut' \in BOOLEAN
    BY <1>9 DEF HandleHup, HandleInClose, HistoryType
  <2> QED
    BY <1>9, <1>c, <1>r, <2>1, <2>2, CloseConnType DEF HandleHup, HandleInClose
<1>10. ASSUME NEW fd \in Fds, HandleIn(fd) PROVE TypeOK'
  <2>1. MainType'
    BY <1>10, <1>h DEF HandleIn
  <2>2. ObjectType'
    <3>1. obj[fd] \in Object /\ sock[fd].unread \in Pieces /\ obj[fd].buf \in Pieces
      BY DEF ObjectType, SocketType, Object, Socket
    <3> QED
      BY <1>10, <3>1, Records DEF HandleIn, ObjectType
  <2>3. SocketType'
    BY <1>10, Records DEF HandleIn, SocketType, Pieces, Unfinished
  <2>4. PoolType' /\ HistoryType'
    <3>1. CASE HasRoom /\ queue' = Append(queue, fd) /\ UNCHANGED dropped
      BY <1>10, <3>1 DEF HandleIn, HasRoom, PoolType, HistoryType, bounds
    <3>2. CASE dropped' = dropped \cup {fd} /\ UNCHANGED queue
      BY <1>10, <3>2 DEF HandleIn, PoolType, HistoryType, bounds
    <3> QED
      BY <1>10, <3>1, <3>2 DEF HandleIn
  <2> QED
    BY <1>10, <2>1, <2>2, <2>3, <2>4 DEF HandleIn
<1>11. ASSUME NEW fd \in Fds, HandleOutNothing(fd) PROVE TypeOK'
  <2>1. MainType'
    BY <1>11, <1>h DEF HandleOutNothing
  <2>2. ObjectType'
    <3>1. obj[fd].set \in BOOLEAN
      BY DEF ObjectType, Object
    <3> QED
      BY <1>11, <3>1, Records DEF HandleOutNothing, ObjectType
  <2>3. SocketType'
    BY <1>11, ArmType DEF HandleOutNothing, SocketType
  <2> QED
    BY <1>11, <2>1, <2>2, <2>3 DEF HandleOutNothing
<1>12. ASSUME NEW fd \in Fds, HandleOut(fd) PROVE TypeOK'
  <2>1. out' \in [fd : Fds \cup {0}, to_send : Int, have : Nat]
    BY <1>12 DEF HandleOut, ObjectType, Object
  <2>2. MainType'
    BY <1>12, <2>1, HandlingType DEF HandleOut
  <2> QED
    BY <1>12, <2>2 DEF HandleOut
<1> QED
  BY <1>1, <1>2, <1>3, <1>4, <1>5, <1>6, <1>7, <1>8, <1>9, <1>10, <1>11, <1>12 DEF Main

LEMMA TypeStepWork == ASSUME NEW w \in Workers PROVE TypeOK /\ ThreadInv /\ Work(w) => TypeOK'
<1> SUFFICES ASSUME TypeOK, ThreadInv, Work(w) PROVE TypeOK'
  OBVIOUS
<1> USE TypeSame DEF TypeOK
<1>0. worker[w].pc # "idle" => worker[w].fd \in Fds
  BY DEF ThreadInv
<1>w. ASSUME NEW r \in WorkerState, worker' = [worker EXCEPT ![w] = r], UNCHANGED queue
      PROVE  PoolType'
  BY <1>w DEF PoolType
<1>s. worker[w] \in WorkerState
  BY DEF PoolType
<1>g. ASSUME NEW to \in Busy \cup Closing, Goto(w, to), UNCHANGED queue PROVE PoolType'
  <2>1. worker' = [worker EXCEPT ![w] = [worker[w] EXCEPT !.pc = to]]
    BY <1>g DEF Goto
  <2> QED
    BY <1>g, <1>s, <1>w, <2>1, WorkerRecords
<1>1. ASSUME Take(w) PROVE TypeOK'
  <2>1. Head(queue) \in Fds /\ Tail(queue) \in Seq(Fds) /\ Len(Tail(queue)) <= QueueLimit + 1
    BY <1>1 DEF Take, PoolType
  <2>2. PoolType'
    <3>1. [Idle EXCEPT !.pc = "process", !.fd = Head(queue)]
              \in WorkerState
      BY <2>1, WorkerRecords
    <3> QED
      BY <1>1, <2>1, <3>1 DEF Take, PoolType
  <2> QED
    BY <1>1, <2>2 DEF Take
<1>2. ASSUME Process(w) PROVE TypeOK'
  <2>0. worker[w].fd \in Fds
    BY <1>0, <1>2 DEF Process, WStep
  <2>1. CASE (Goto(w, "more") \/ Goto(w, "close")) /\ UNCHANGED obj
    <3>1. PoolType'
      BY <1>2, <1>g, <2>1 DEF Process, Busy
    <3> QED
      BY <1>2, <2>1, <3>1 DEF Process
  <2>2. CASE /\ Goto(w, "answer")
             /\ \E linger \in BOOLEAN : obj' = Answered(worker[w].fd, linger)
    <3>1. PoolType'
      BY <1>2, <1>g, <2>2 DEF Process, Busy
    <3>2. PICK linger \in BOOLEAN : obj' = Answered(worker[w].fd, linger)
      BY <2>2
    <3>3. ObjectType'
      <4> DEFINE fd == worker[w].fd
                 o(n) == [obj[fd] EXCEPT !.m_write_idx = HeadLen, !.linger = linger,
                                         !.file = n]
      <4>1. \A n \in {0, FileLen} : o(n) \in Object
        BY <2>0, Records DEF ObjectType
      <4>2. PICK n \in {0, FileLen} : obj' = [obj EXCEPT ![fd] = o(n)]
        BY <3>2 DEF Answered
      <4> HIDE DEF o
      <4>3. obj' \in [Fds -> Object] /\ m_user_count' = m_user_count
        BY <1>2, <2>0, <4>1, <4>2 DEF Process, ObjectType
      <4> QED
        BY <4>3 DEF ObjectType
    <3> QED
      BY <1>2, <3>1, <3>3 DEF Process
  <2> QED
    BY <1>2, <2>1, <2>2 DEF Process
<1>3. ASSUME Rearm(w) PROVE TypeOK'
  <2>1. PICK from \in {"more", "answer"} :
            WStep(w, from) /\ Arm(worker[w].fd, WaitsFor(from))
    BY <1>3 DEF Rearm
  <2>2. worker[w].fd \in Fds
    BY <1>0, <2>1 DEF WStep
  <2>3. SocketType'
    <3>1. WaitsFor(from) \in {"IN", "OUT"}
      BY DEF WaitsFor
    <3>2. epoll' \in [Fds -> {"none", "off", "IN", "OUT"}]
      BY <2>1, <2>2, <3>1, ArmType
    <3> QED
      BY <1>3, <3>2 DEF Rearm, SocketType
  <2>4. PoolType'
    BY <1>3, <1>w, WorkerRecords DEF Rearm
  <2> QED
    BY <1>3, <2>3, <2>4 DEF Rearm
<1>4. ASSUME WorkerClose(w) PROVE TypeOK'
  <2>0. worker[w].fd \in Fds
    BY <1>0, <1>4 DEF WorkerClose, WStep
  <2>1. PoolType'
    BY <1>4, <1>g DEF WorkerClose, Busy, Closing
  <2>2. SocketType'
    BY <1>4, <2>0, RemoveType DEF WorkerClose, SocketType
  <2> QED
    BY <1>4, <2>1, <2>2 DEF WorkerClose
<1>5. ASSUME WorkerReset(w) PROVE TypeOK'
  <2>0. worker[w].fd \in Fds
    BY <1>0, <1>5 DEF WorkerReset, WStep
  <2>1. PoolType'
    BY <1>5, <1>g DEF WorkerReset, Closing
  <2>2. ObjectType'
    <3>1. [obj[worker[w].fd] EXCEPT !.set = FALSE] \in Object
      BY <2>0, Records DEF ObjectType
    <3> QED
      BY <1>5, <3>1 DEF WorkerReset, ObjectType
  <2> QED
    BY <1>5, <2>1, <2>2 DEF WorkerReset
<1>6. ASSUME WorkerLoad(w) PROVE TypeOK'
  <2>1. PoolType'
    <3>1. [worker[w] EXCEPT !.pc = "store", !.count = m_user_count] \in WorkerState
      BY <1>s, WorkerRecords DEF ObjectType, Closing
    <3>2. worker' = [worker EXCEPT ![w] = [worker[w] EXCEPT !.pc = "store",
                                                            !.count = m_user_count]]
      BY <1>6 DEF WorkerLoad
    <3> QED
      BY <1>6, <1>w, <3>1, <3>2 DEF WorkerLoad
  <2> QED
    BY <1>6, <2>1 DEF WorkerLoad
<1>7. ASSUME WorkerStore(w) PROVE TypeOK'
  <2>1. PoolType'
    <3>1. worker' = [worker EXCEPT ![w].pc = "answer", ![w].count = 0] /\ UNCHANGED queue
      BY <1>7 DEF WorkerStore
    <3>2. worker' = [worker EXCEPT ![w] = [worker[w] EXCEPT !.pc = "answer", !.count = 0]]
      BY <3>1
    <3>3. [worker[w] EXCEPT !.pc = "answer", !.count = 0] \in WorkerState
      <4>1. "answer" \in Busy \cup Closing /\ 0 \in Int
        BY DEF Busy
      <4> QED
        BY <1>s, <4>1, WorkerRecords
    <3> QED
      BY <1>w, <3>1, <3>2, <3>3
  <2>2. ObjectType'
    <3>1. worker[w].count - 1 \in Int
      BY <1>s DEF WorkerState
    <3> QED
      BY <1>7, <3>1 DEF WorkerStore, ObjectType
  <2>3. HistoryType'
    BY <1>7 DEF WorkerStore, HistoryType, CountRace, Races, bounds
  <2> QED
    BY <1>7, <2>1, <2>2, <2>3 DEF WorkerStore
<1> QED
  BY <1>1, <1>2, <1>3, <1>4, <1>5, <1>6, <1>7 DEF Work

LEMMA TypeStepClient ==
    TypeOK /\ (Connect \/ \E fd \in Fds : Say(fd) \/ Drain(fd) \/ HangUp(fd))
        => TypeOK'
<1> SUFFICES ASSUME TypeOK,
                    Connect \/ \E fd \in Fds : Say(fd) \/ Drain(fd) \/ HangUp(fd)
             PROVE  TypeOK'
  OBVIOUS
<1> USE TypeSame DEF TypeOK
<1>1. ASSUME Connect PROVE TypeOK'
  <2>1. ListenType' /\ HistoryType'
    BY <1>1 DEF Connect, ListenType, HistoryType, history
  <2> QED
    BY <1>1, <2>1 DEF Connect
<1>2. ASSUME NEW fd \in Fds, Say(fd) \/ Drain(fd) \/ HangUp(fd) PROVE TypeOK'
  <2>1. Client(fd) /\ UNCHANGED epoll
    BY <1>2 DEF Say, SayPart, SayAll, SayOverlooked, Drain, HangUp, Client
  <2>2. SocketType'
    <3>1. PICK s \in Socket : sock' = [sock EXCEPT ![fd] = s]
      <4>1. sock[fd] \in Socket
        BY DEF SocketType
      <4>2. CASE SayPart(fd)
        <5>1. sock' = [sock EXCEPT ![fd] = [sock[fd] EXCEPT !.asks = "part", !.unread = "part"]]
          BY <4>2 DEF SayPart
        <5>2. [sock[fd] EXCEPT !.asks = "part", !.unread = "part"] \in Socket
          BY <4>1, Records DEF Pieces, Unfinished
        <5> QED
          BY <5>1, <5>2
      <4>3. CASE SayAll(fd)
        <5>1. PICK what \in Asked :
                sock' = [sock EXCEPT ![fd] = [sock[fd] EXCEPT !.asks = "waits", !.unread = what]]
          BY <4>3 DEF SayAll
        <5>2. what \in Pieces
          BY DEF Pieces
        <5>3. [sock[fd] EXCEPT !.asks = "waits", !.unread = what] \in Socket
          BY <4>1, <5>2, Records
        <5> QED
          BY <5>1, <5>3
      <4>4. CASE Drain(fd)
        <5>1. sock' = [sock EXCEPT ![fd] = [sock[fd] EXCEPT !.buffer = 0]]
          BY <4>4 DEF Drain
        <5>2. 0 \in 0 .. SndBuf
          OBVIOUS
        <5>3. [sock[fd] EXCEPT !.buffer = 0] \in Socket
          BY <4>1, <5>2, Records
        <5> QED
          BY <5>1, <5>3
      <4>5. CASE HangUp(fd)
        BY <4>1, <4>5, Records DEF HangUp
      <4>6. CASE SayOverlooked(fd)
        <5>1. sock' = [sock EXCEPT ![fd] = [sock[fd] EXCEPT !.asks = "overlooked",
                                                            !.unread = "overlooked"]]
          BY <4>6 DEF SayOverlooked
        <5>2. [sock[fd] EXCEPT !.asks = "overlooked", !.unread = "overlooked"] \in Socket
          BY <4>1, Records DEF Pieces, Unfinished
        <5> QED
          BY <5>1, <5>2
      <4> QED
        BY <1>2, <4>2, <4>3, <4>4, <4>5, <4>6 DEF Say
    <3> QED
      BY <2>1, <3>1 DEF SocketType
  <2>3. HistoryType'
    BY <1>2, <2>1 DEF Say, SayPart, SayAll, SayOverlooked, Drain, HangUp, Client,
                      HistoryType, history
  <2> QED
    BY <2>1, <2>2, <2>3 DEF Client
<1> QED
  BY <1>1, <1>2

LEMMA ThreadStep == TypeOK /\ ThreadInv /\ [Next]_vars => ThreadInv'
<1> SUFFICES ASSUME TypeOK, ThreadInv, [Next]_vars PROVE ThreadInv'
  OBVIOUS
<1> DEFINE Announced == [fd |-> Listen, ev |-> "IN"]
           Where == /\ pc \in {"wait", "exited"} => events = {}
                    /\ pc = "write" => out.fd \in Fds
           Who == \A w \in Workers : IF worker[w].pc = "idle" THEN worker[w] = Idle
                                      ELSE worker[w].fd \in Fds
           Backed == backlog >= One(newConn) + One(Announced \in events)
<1>0. ThreadInv <=> Where /\ Who /\ Backed
  BY DEF ThreadInv
<1>n. ThreadInv' <=> Where' /\ Who' /\ Backed'
  BY DEF ThreadInv
<1>a. UNCHANGED mainVars => Where'
  BY <1>0 DEF mainVars
<1>b. UNCHANGED worker => Who'
  BY <1>0
<1>c. UNCHANGED <<listenVars, events>> => Backed'
  BY <1>0 DEF listenVars
<1>l. Listen \notin Fds
  BY DEF Listen
<1>d. ASSUME NEW fd \in Fds, NEW ev, Handling(fd, ev), UNCHANGED listenVars PROVE Backed'
  <2>1. [fd |-> fd, ev |-> ev] # Announced
    BY <1>l
  <2>2. Announced \in events' <=> Announced \in events
    BY <1>d, <2>1 DEF Handling
  <2> QED
    BY <1>0, <1>d, <2>2 DEF listenVars, One
<1>i. ASSUME NEW w \in Workers, worker' = [worker EXCEPT ![w] = Idle] PROVE Who'
  BY <1>0, <1>i DEF TypeOK, PoolType, Idle
<1>e. ASSUME NEW w \in Workers, NEW r, worker' = [worker EXCEPT ![w] = r],
             r.pc # "idle", r.fd \in Fds
      PROVE  Who'
  BY <1>0, <1>e DEF TypeOK, PoolType, Idle
<1>g. ASSUME NEW w \in Workers, worker[w].pc # "idle", NEW to, to # "idle", Goto(w, to)
      PROVE  Who'
  <2>1. worker[w] \in WorkerState /\ worker[w].fd \in Fds
    BY <1>0, <1>g DEF TypeOK, PoolType
  <2> DEFINE r == [worker[w] EXCEPT !.pc = to]
  <2>2. r.pc # "idle" /\ r.fd \in Fds
    BY <1>g, <2>1 DEF WorkerState
  <2>3. worker' = [worker EXCEPT ![w] = r]
    BY <1>g DEF Goto
  <2> QED
    BY <1>e, <2>2, <2>3
<1> HIDE DEF Where, Who, Backed
<1> USE <1>a, <1>b, <1>c, <1>n
<1>1. ASSUME EpollWait PROVE ThreadInv'
  <2>1. Where'
    BY <1>1 DEF EpollWait, Where
  <2>2. Announced \notin Reported
    BY <1>l DEF Reported
  <2>3. events = {}
    BY <1>0, <1>1 DEF Where, EpollWait
  <2>4. Backed'
    BY <1>0, <1>1, <2>2, <2>3 DEF EpollWait, Backed, One
  <2> QED
    BY <1>1, <2>1, <2>4 DEF EpollWait, poolVars
<1>2. ASSUME AcceptFails \/ ShowError PROVE ThreadInv'
  <2>1. Where'
    BY <1>2 DEF AcceptFails, ShowError, Handling, Where
  <2>2. Announced \in events /\ Announced \notin events'
    BY <1>2 DEF AcceptFails, ShowError, Handling
  <2>3. backlog' \in {backlog, backlog - 1} /\ UNCHANGED newConn
    BY <1>2 DEF AcceptFails, ShowError, TypeOK, ListenType
  <2>4. Backed'
    BY <1>0, <2>2, <2>3 DEF Backed, One, TypeOK, ListenType
  <2> QED
    BY <1>2, <2>1, <2>4 DEF AcceptFails, ShowError, poolVars
<1>3. ASSUME BatchEnd PROVE ThreadInv'
  <2>1. Where'
    BY <1>3 DEF BatchEnd, Where
  <2> QED
    BY <1>3, <2>1 DEF BatchEnd, poolVars
<1>4. ASSUME WriteMore \/ WriteKeep \/ WriteClose \/ WriteLater \/ WriteFails
      PROVE  ThreadInv'
  <2>1. pc = "write" /\ UNCHANGED <<events, worker, listenVars>>
    BY <1>4 DEF WriteMore, WriteKeep, WriteClose, WriteLater, WriteFails, poolVars
  <2>2. pc' = "batch" \/ (pc' = "write" /\ out'.fd = out.fd)
    BY <1>4 DEF WriteMore, WriteKeep, WriteClose, WriteLater, WriteFails, TypeOK, MainType
  <2>3. Where'
    BY <1>0, <2>1, <2>2 DEF Where
  <2> QED
    BY <2>1, <2>3
<1>5. ASSUME NEW fd \in Fds, Accept(fd) PROVE ThreadInv'
  <2>1. Where'
    BY <1>5 DEF Accept, Handling, Where
  <2>2. Announced \in events /\ Announced \notin events'
    BY <1>5 DEF Accept, Handling
  <2>3. backlog' = backlog - 1 /\ UNCHANGED newConn
    BY <1>5 DEF Accept
  <2>4. Backed'
    BY <1>0, <2>2, <2>3 DEF Backed, One, TypeOK, ListenType
  <2> QED
    BY <1>5, <2>1, <2>4 DEF Accept, poolVars
<1>6. ASSUME NEW fd \in Fds, \/ HandleHup(fd) \/ HandleInClose(fd) \/ HandleIn(fd)
                             \/ HandleOutNothing(fd) \/ HandleOut(fd)
      PROVE  ThreadInv'
  <2>1. PICK ev \in {"HUP", "IN", "OUT"} : Handling(fd, ev)
    BY <1>6 DEF HandleHup, HandleInClose, HandleIn, HandleOutNothing, HandleOut
  <2>2. UNCHANGED <<worker, listenVars>>
    BY <1>6 DEF HandleHup, HandleInClose, HandleIn, HandleOutNothing, HandleOut, poolVars
  <2>3. pc' = "batch" \/ (pc' = "write" /\ out'.fd \in Fds)
    <3>1. CASE HandleOut(fd)
      <4>1. out' = [fd |-> fd, to_send |-> obj[fd].m_write_idx, have |-> 0] /\ pc' = "write"
        BY <3>1 DEF HandleOut
      <4> QED
        BY <4>1
    <3>2. CASE HandleHup(fd) \/ HandleInClose(fd) \/ HandleIn(fd) \/ HandleOutNothing(fd)
      BY <2>1, <3>2 DEF HandleHup, HandleInClose, HandleIn, HandleOutNothing, Handling
    <3> QED
      BY <1>6, <3>1, <3>2
  <2>4. Where'
    BY <2>3 DEF Where
  <2> QED
    BY <1>d, <2>1, <2>2, <2>4
<1>7. ASSUME NEW w \in Workers, Take(w) PROVE ThreadInv'
  <2>1. Head(queue) \in Fds
    BY <1>7 DEF Take, TypeOK, PoolType
  <2> DEFINE r == [Idle EXCEPT !.pc = "process", !.fd = Head(queue)]
  <2>2. r.pc # "idle" /\ r.fd \in Fds
    BY <2>1 DEF Idle
  <2>3. worker' = [worker EXCEPT ![w] = r]
    BY <1>7 DEF Take
  <2>4. Who'
    BY <1>e, <2>2, <2>3
  <2> QED
    BY <1>7, <2>4 DEF Take, mainVars
<1>8. ASSUME NEW w \in Workers, Process(w) \/ WorkerClose(w) \/ WorkerReset(w)
      PROVE  ThreadInv'
  <2>1. worker[w].pc # "idle"
    BY <1>8 DEF Process, WorkerClose, WorkerReset, WStep
  <2>2. Who'
    BY <1>8, <1>g, <2>1 DEF Process, WorkerClose, WorkerReset
  <2> QED
    BY <1>8, <2>2 DEF Process, WorkerClose, WorkerReset, mainVars
<1>9. ASSUME NEW w \in Workers, Rearm(w) PROVE ThreadInv'
  <2>1. worker' = [worker EXCEPT ![w] = Idle]
    BY <1>9 DEF Rearm
  <2>2. Who'
    BY <1>i, <2>1
  <2> QED
    BY <1>9, <2>2 DEF Rearm, mainVars
<1>10. ASSUME NEW w \in Workers, WorkerLoad(w) \/ WorkerStore(w) PROVE ThreadInv'
  <2>1. worker[w] \in WorkerState /\ worker[w].pc # "idle" /\ worker[w].fd \in Fds
    BY <1>0, <1>10 DEF WorkerLoad, WorkerStore, WStep, TypeOK, PoolType, Who
  <2>2. ASSUME NEW to \in {"store", "answer"}, NEW n,
               worker' = [worker EXCEPT ![w] = [worker[w] EXCEPT !.pc = to, !.count = n]]
        PROVE  Who'
    <3> DEFINE r == [worker[w] EXCEPT !.pc = to, !.count = n]
    <3>1. r.pc # "idle" /\ r.fd \in Fds
      BY <2>1 DEF WorkerState
    <3>2. worker' = [worker EXCEPT ![w] = r]
      BY <2>2
    <3> QED
      BY <1>e, <3>1, <3>2
  <2>3. CASE WorkerLoad(w)
    <3>1. worker' = [worker EXCEPT ![w] = [worker[w] EXCEPT !.pc = "store",
                                                            !.count = m_user_count]]
      BY <2>3 DEF WorkerLoad
    <3> QED
      BY <2>2, <2>3, <3>1 DEF WorkerLoad, mainVars
  <2>4. CASE WorkerStore(w)
    <3>1. worker' = [worker EXCEPT ![w] = [worker[w] EXCEPT !.pc = "answer", !.count = 0]]
      BY <2>4 DEF WorkerStore
    <3> QED
      BY <2>2, <2>4, <3>1 DEF WorkerStore, mainVars
  <2> QED
    BY <1>10, <2>3, <2>4
<1>11. ASSUME Connect PROVE ThreadInv'
  <2>1. Backed'
    BY <1>0, <1>11 DEF Connect, Backed, One, TypeOK, ListenType, mainVars
  <2> QED
    BY <1>11, <2>1 DEF Connect, poolVars
<1>12. ASSUME NEW fd \in Fds, Say(fd) \/ Drain(fd) \/ HangUp(fd)
       PROVE  ThreadInv'
  <2>1. Client(fd)
    BY <1>12 DEF Say, SayPart, SayAll, SayOverlooked, Drain, HangUp
  <2> QED
    BY <2>1 DEF Client, mainVars, poolVars
<1>13. CASE UNCHANGED vars
  BY <1>13 DEF vars, mainVars, listenVars
<1> QED
  BY <1>1, <1>2, <1>3, <1>4, <1>5, <1>6, <1>7, <1>8, <1>9, <1>10, <1>11, <1>12, <1>13
  DEF Next, Main, Work

LEMMA TypeStep == TypeOK /\ ThreadInv /\ [Next]_vars => TypeOK'
<1> SUFFICES ASSUME TypeOK, ThreadInv, [Next]_vars PROVE TypeOK'
  OBVIOUS
<1>1. CASE UNCHANGED vars
  BY <1>1, TypeSame
  DEF TypeOK, vars, mainVars, poolVars, listenVars, history, bounds
<1> QED
  BY <1>1, TypeStepMain, TypeStepWork, TypeStepClient DEF Next

LEMMA TypeInvariant == Spec => [](TypeOK /\ ThreadInv)
BY TypeInit, TypeStep, ThreadStep, PTL DEF Spec

\* Every variable keeps its type: the pool never holds more than its limit and
\* one request, and accept() is only called when a connection waits.
THEOREM TypeCorrect == Spec => []TypeOK
BY TypeInvariant, PTL

-----------------------------------------------------------------------------
(* Counting hands.                                                         *)

\* Two sets that differ in one element at most.
LEMMA OneDiffers ==
    ASSUME NEW A, NEW B, NEW x, IsFiniteSet(A), A \ {x} = B \ {x}
    PROVE  /\ IsFiniteSet(B)
           /\ Cardinality(A) \in Nat /\ Cardinality(B) \in Nat
           /\ Cardinality(B) = Cardinality(A) - One(x \in A) + One(x \in B)
<1> DEFINE C == A \ {x}
<1>1. IsFiniteSet(C) /\ Cardinality(C) \in Nat
  BY FS_RemoveElement, FS_CardinalityType
<1>2. x \notin C
  OBVIOUS
<1>3. /\ x \in A => A = C \cup {x}
      /\ x \notin A => A = C
      /\ x \in B => B = C \cup {x}
      /\ x \notin B => B = C
  OBVIOUS
<1> HIDE DEF C
<1>4. IsFiniteSet(C \cup {x}) /\ Cardinality(C \cup {x}) = Cardinality(C) + 1
  BY <1>1, <1>2, FS_AddElement
<1>5. ASSUME NEW D, D = A \/ D = B
      PROVE  IsFiniteSet(D) /\ Cardinality(D) = Cardinality(C) + One(x \in D)
  <2>1. CASE x \in D
    <3>1. D = C \cup {x}
      BY <1>3, <1>5, <2>1
    <3> QED
      BY <1>4, <2>1, <3>1 DEF One
  <2>2. CASE x \notin D
    <3>1. D = C
      BY <1>3, <1>5, <2>2
    <3> QED
      BY <1>1, <2>2, <3>1 DEF One
  <2> QED
    BY <2>1, <2>2
<1> QED
  BY <1>1, <1>5 DEF One

\* Of a set that is counted: it is empty, or there is something in it.
LEMMA CountZero ==
    ASSUME NEW A, IsFiniteSet(A)
    PROVE  /\ Cardinality(A) \in Nat
           /\ Cardinality(A) = 0 <=> A = {}
           /\ Cardinality(A) = 1 => \A x, y \in A : x = y
<1>1. Cardinality(A) \in Nat /\ (Cardinality(A) = 0 <=> A = {})
  BY FS_CardinalityType, FS_EmptySet
<1>2. Cardinality(A) = 1 => \E x : A = {x}
  BY FS_Singleton
<1> QED
  BY <1>1, <1>2

LEMMA HandsFinite ==
    ASSUME TypeOK, NEW f \in Fds
    PROVE  /\ IsFiniteSet({e \in events : e.fd = f})
           /\ IsFiniteSet({k \in DOMAIN queue : queue[k] = f})
           /\ IsFiniteSet({w \in Workers : worker[w].fd = f /\ worker[w].pc \in Busy})
<1>1. IsFiniteSet({e \in events : e.fd = f})
  <2> DEFINE E(ev) == [fd |-> f, ev |-> ev]
             All == (({} \cup {E("IN")}) \cup {E("OUT")}) \cup {E("HUP")}
  <2>1. IsFiniteSet({} \cup {E("IN")})
    BY FS_EmptySet, FS_AddElement
  <2>2. IsFiniteSet(({} \cup {E("IN")}) \cup {E("OUT")})
    BY <2>1, FS_AddElement
  <2>3. IsFiniteSet(All)
    BY <2>2, FS_AddElement
  <2>4. {e \in events : e.fd = f} \in SUBSET All
    BY DEF TypeOK, MainType, Listen
  <2> QED
    BY <2>3, <2>4, FS_Subset
<1>2. IsFiniteSet({k \in DOMAIN queue : queue[k] = f})
  <2>1. Len(queue) \in Nat /\ DOMAIN queue = 1 .. Len(queue)
    BY DEF TypeOK, PoolType
  <2>2. IsFiniteSet(1 .. Len(queue))
    BY <2>1, FS_Interval
  <2>3. {k \in DOMAIN queue : queue[k] = f} \in SUBSET (1 .. Len(queue))
    BY <2>1
  <2> QED
    BY <2>2, <2>3, FS_Subset
<1>3. IsFiniteSet({w \in Workers : worker[w].fd = f /\ worker[w].pc \in Busy})
  BY FS_Subset
<1> QED
  BY <1>1, <1>2, <1>3

LEMMA HandTypes ==
    ASSUME TypeOK, NEW f \in Fds
    PROVE  /\ InTable(f) \in {0, 1} /\ InWrite(f) \in {0, 1}
           /\ InBatch(f) \in Nat /\ InQueue(f) \in Nat /\ InHand(f) \in Nat
BY HandsFinite, CountZero DEF InTable, InWrite, InBatch, InQueue, InHand, One

\* Nobody in process() with a connection, nobody in hand.
LEMMA CrewBusy ==
    ASSUME TypeOK, ThreadInv, NEW f \in Fds
    PROVE  /\ InHand(f) = 0 => \A w \in Crew(f) : worker[w].pc \notin Busy
           /\ InHand(f) = 1 => \A v, w \in Crew(f) :
                 worker[v].pc \in Busy /\ worker[w].pc \in Busy => v = w
           /\ \A w \in Crew(f) : worker[w].pc \in Busy => InHand(f) >= 1
           /\ Crew(f) = {} => InHand(f) = 0
<1> DEFINE B == {w \in Workers : worker[w].fd = f /\ worker[w].pc \in Busy}
<1>1. IsFiniteSet(B) /\ InHand(f) = Cardinality(B)
  BY HandsFinite DEF InHand
<1>2. \A w \in Workers : w \in B <=> w \in Crew(f) /\ worker[w].pc \in Busy
  BY DEF Crew, Busy
<1>3. Crew(f) \subseteq Workers
  BY DEF Crew
<1> HIDE DEF B
<1>5. B \subseteq Workers
  BY DEF B
<1>4. /\ Cardinality(B) \in Nat /\ (Cardinality(B) = 0 <=> B = {})
      /\ Cardinality(B) = 1 => \A x, y \in B : x = y
  BY <1>1, CountZero
<1> QED
  BY <1>1, <1>2, <1>3, <1>4, <1>5

\* An event is handled: it leaves the batch.
LEMMA BatchLeaves ==
    ASSUME TypeOK, NEW f \in Fds, NEW fd \in Fds \cup {Listen}, NEW ev, Handling(fd, ev)
    PROVE  InBatch(f)' = InBatch(f) - One(f = fd)
<1> DEFINE e == [fd |-> fd, ev |-> ev]
           A == {d \in events : d.fd = f}
           B == {d \in events' : d.fd = f}
<1>1. events' = events \ {e} /\ e \in events /\ e.fd = fd
  BY DEF Handling
<1> HIDE DEF e
<1>2. A \ {e} = B \ {e} /\ (e \in A <=> f = fd) /\ e \notin B
  BY <1>1
<1>3. IsFiniteSet(A)
  BY HandsFinite
<1>4. Cardinality(B) = Cardinality(A) - One(e \in A) + One(e \in B) /\ Cardinality(A) \in Nat
  BY <1>2, <1>3, OneDiffers
<1> QED
  BY <1>2, <1>4 DEF InBatch, One

\* A worker goes on.
LEMMA HandMoves ==
    ASSUME TypeOK, NEW f \in Fds, NEW w \in Workers, NEW r,
           worker' = [worker EXCEPT ![w] = r]
    PROVE  InHand(f)' = InHand(f) - One(worker[w].fd = f /\ worker[w].pc \in Busy)
                                  + One(r.fd = f /\ r.pc \in Busy)
<1> DEFINE A == {v \in Workers : worker[v].fd = f /\ worker[v].pc \in Busy}
           B == {v \in Workers : worker'[v].fd = f /\ worker'[v].pc \in Busy}
<1>0. worker'[w] = r /\ \A v \in Workers \ {w} : worker'[v] = worker[v]
  BY DEF TypeOK, PoolType
<1>1. A \ {w} = B \ {w}
  BY <1>0
<1>2. /\ w \in A <=> worker[w].fd = f /\ worker[w].pc \in Busy
      /\ w \in B <=> r.fd = f /\ r.pc \in Busy
  BY <1>0
<1>3. IsFiniteSet(A)
  BY HandsFinite
<1>4. Cardinality(B) = Cardinality(A) - One(w \in A) + One(w \in B) /\ Cardinality(A) \in Nat
  BY <1>1, <1>3, OneDiffers
<1> QED
  BY <1>2, <1>4 DEF InHand, One

\* A request joins the queue at its end, or leaves it at its head.
LEMMA QueueGrows ==
    ASSUME TypeOK, NEW f \in Fds, NEW fd \in Fds, queue' = Append(queue, fd)
    PROVE  InQueue(f)' = InQueue(f) + One(f = fd)
<1> DEFINE A == {k \in DOMAIN queue : queue[k] = f}
           B == {k \in DOMAIN queue' : queue'[k] = f}
           n == Len(queue) + 1
<1>0. /\ Len(queue) \in Nat /\ DOMAIN queue = 1 .. Len(queue) /\ DOMAIN queue' = 1 .. n
      /\ queue'[n] = fd /\ \A k \in DOMAIN queue : queue'[k] = queue[k]
  BY DEF TypeOK, PoolType
<1>1. A \ {n} = B \ {n} /\ n \notin A /\ (n \in B <=> f = fd)
  BY <1>0
<1>3. IsFiniteSet(A)
  BY HandsFinite
<1>5. InQueue(f) = Cardinality(A) /\ InQueue(f)' = Cardinality(B)
  BY DEF InQueue
<1> HIDE DEF A, B, n
<1>4. Cardinality(B) = Cardinality(A) - One(n \in A) + One(n \in B) /\ Cardinality(A) \in Nat
  BY <1>1, <1>3, OneDiffers
<1> QED
  BY <1>1, <1>4, <1>5 DEF One

LEMMA QueueShrinks ==
    ASSUME TypeOK, NEW f \in Fds, queue # <<>>, queue' = Tail(queue)
    PROVE  InQueue(f)' = InQueue(f) - One(f = Head(queue))
<1> DEFINE A == {k \in DOMAIN queue : queue[k] = f}
           B == {k \in DOMAIN queue' : queue'[k] = f}
           C == A \ {1}
           shift == [k \in B |-> k + 1]
<1>0. /\ Len(queue) \in Nat \ {0} /\ DOMAIN queue = 1 .. Len(queue)
      /\ DOMAIN queue' = 1 .. Len(queue) - 1 /\ queue[1] = Head(queue)
      /\ \A k \in DOMAIN queue' : queue'[k] = queue[k + 1]
  BY DEF TypeOK, PoolType
<1>1. IsFiniteSet(A)
  BY HandsFinite
<1>2. /\ IsFiniteSet(C) /\ Cardinality(A) \in Nat
      /\ Cardinality(C) = Cardinality(A) - One(1 \in A)
  <2>1. A \ {1} = C \ {1} /\ 1 \notin C
    OBVIOUS
  <2> HIDE DEF A, C
  <2>2. /\ IsFiniteSet(C) /\ Cardinality(A) \in Nat
        /\ Cardinality(C) = Cardinality(A) - One(1 \in A) + One(1 \in C)
    BY <1>1, <2>1, OneDiffers
  <2> QED
    BY <2>1, <2>2 DEF One
<1>3. Cardinality(B) = Cardinality(C)
  <2>1. \A k \in B : k + 1 \in C
    BY <1>0
  <2>2. \A k \in C : k - 1 \in B
    BY <1>0
  <2>3. B \subseteq Int /\ C \subseteq Int
    BY <1>0
  <2> HIDE DEF A, B, C
  <2>4. shift \in Bijection(B, C)
    <3>1. shift \in [B -> C]
      BY <2>1
    <3>2. \A a, b \in B : shift[a] = shift[b] => a = b
      BY <2>3
    <3>3. \A c \in C : \E b \in B : shift[b] = c
      <4> SUFFICES ASSUME NEW c \in C PROVE \E b \in B : shift[b] = c
        OBVIOUS
      <4>1. c - 1 \in B /\ c \in Int
        BY <2>2, <2>3
      <4>2. shift[c - 1] = c
        BY <4>1
      <4> QED
        BY <4>1, <4>2
    <3> QED
      <4>1. shift \in Injection(B, C)
        BY <3>1, <3>2 DEF Injection, IsInjective
      <4>2. shift \in Surjection(B, C)
        BY <3>1, <3>3 DEF Surjection
      <4> QED
        BY <4>1, <4>2 DEF Bijection
  <2>5. IsFiniteSet(B)
    BY <1>2, <2>4, FS_Injection DEF Bijection
  <2> QED
    BY <2>4, <2>5, FS_Bijection DEF ExistsBijection
<1>4. 1 \in A <=> f = Head(queue)
  BY <1>0
<1>5. InQueue(f) = Cardinality(A) /\ InQueue(f)' = Cardinality(B)
  BY DEF InQueue
<1> HIDE DEF A, B, C
<1> QED
  BY <1>2, <1>3, <1>4, <1>5 DEF One

-----------------------------------------------------------------------------
(* From hand to hand.                                                      *)

\* What a step leaves alone of a connection.
LinkSame(f) ==
    /\ sock'[f].open = sock[f].open /\ epoll'[f] = epoll[f]
    /\ obj'[f].set = obj[f].set /\ (f \in dropped' <=> f \in dropped)
MainSame(f) == InBatch(f)' = InBatch(f) /\ InWrite(f)' = InWrite(f)
QueueSame(f) == InQueue(f)' = InQueue(f)
CrewSame(f) ==
    /\ InHand(f)' = InHand(f) /\ Crew(f)' = Crew(f)
    /\ \A w \in Crew(f) : worker'[w].pc = worker[w].pc

LEMMA Same ==
    ASSUME NEW f \in Fds
    PROVE  /\ UNCHANGED events => InBatch(f)' = InBatch(f)
           /\ UNCHANGED <<pc, out>> => InWrite(f)' = InWrite(f)
           /\ pc # "write" /\ pc' # "write" => InWrite(f) = 0 /\ InWrite(f)' = 0
           /\ UNCHANGED queue => QueueSame(f)
           /\ UNCHANGED worker => CrewSame(f)
BY DEF QueueSame, CrewSame, InBatch, InWrite, InQueue, InHand, Crew, One

LEMMA ConnSame ==
    ASSUME NEW f \in Fds, ConnInv(f), LinkSame(f), MainSame(f), QueueSame(f), CrewSame(f)
    PROVE  ConnInv(f)'
<1>1. InTable(f)' = InTable(f) /\ Holders(f)' = Holders(f)
  BY DEF LinkSame, MainSame, QueueSame, CrewSame, InTable, Holders
<1>2. One(f \notin dropped)' = One(f \notin dropped)
  BY DEF LinkSame, One
<1>3. OpenInv(f) => OpenInv(f)'
  BY <1>1, <1>2 DEF OpenInv, LinkSame, CrewSame
<1>4. ClosedInv(f) => ClosedInv(f)'
  BY DEF ClosedInv, LinkSame, MainSame, QueueSame, CrewSame
<1> QED
  BY <1>3, <1>4 DEF ConnInv, LinkSame

\* Main or the queue has a connection: so nobody else has.
LEMMA Held ==
    ASSUME TypeOK, ThreadInv, NEW f \in Fds, ConnInv(f),
           InBatch(f) + InWrite(f) + InQueue(f) >= 1
    PROVE  /\ sock[f].open /\ obj[f].set /\ epoll[f] # "none" /\ f \notin dropped
           /\ InTable(f) = 0 /\ InBatch(f) + InWrite(f) + InQueue(f) = 1
           /\ InHand(f) = 0 /\ Crew(f) = {}
<1>1. sock[f].open
  BY HandTypes DEF ConnInv, ClosedInv
<1>2. OpenInv(f)
  BY <1>1 DEF ConnInv
<1>3. /\ f \notin dropped /\ InTable(f) = 0 /\ InHand(f) = 0
      /\ InBatch(f) + InWrite(f) + InQueue(f) = 1
  BY <1>2, HandTypes DEF OpenInv, Holders, One
<1>4. Crew(f) = {}
  BY <1>2, <1>3, CrewBusy DEF OpenInv
<1> QED
  BY <1>1, <1>2, <1>3, <1>4 DEF OpenInv

\* A worker has it.
LEMMA HeldByWorker ==
    ASSUME TypeOK, ThreadInv, NEW f \in Fds, ConnInv(f), NEW w \in Crew(f),
           worker[w].pc \in Busy, sock[f].open \/ worker[w].pc # "answer"
    PROVE  /\ sock[f].open /\ obj[f].set /\ epoll[f] # "none" /\ f \notin dropped
           /\ InTable(f) = 0 /\ InBatch(f) = 0 /\ InWrite(f) = 0 /\ InQueue(f) = 0
           /\ InHand(f) = 1 /\ Crew(f) = {w}
<1>1. sock[f].open
  BY DEF ConnInv, ClosedInv, Busy, Closing
<1>2. OpenInv(f)
  BY <1>1 DEF ConnInv
<1>3. InHand(f) >= 1
  BY CrewBusy
<1>4. /\ f \notin dropped /\ InTable(f) = 0 /\ InHand(f) = 1
      /\ InBatch(f) = 0 /\ InWrite(f) = 0 /\ InQueue(f) = 0
  <2>1. InTable(f) + InBatch(f) + InWrite(f) + InQueue(f) + InHand(f) = One(f \notin dropped)
    BY <1>2 DEF OpenInv, Holders
  <2>2. /\ f \in dropped => One(f \notin dropped) = 0
        /\ f \notin dropped => One(f \notin dropped) = 1
    BY DEF One
  <2>3. InHand(f) \in Nat /\ InTable(f) \in Nat /\ InBatch(f) \in Nat
        /\ InWrite(f) \in Nat /\ InQueue(f) \in Nat
    BY HandTypes
  <2>4. f \notin dropped
    BY <1>3, <2>1, <2>2, <2>3
  <2> QED
    BY <1>3, <2>1, <2>2, <2>3, <2>4
<1>5. Crew(f) = {w}
  BY <1>2, <1>4, CrewBusy DEF OpenInv
<1> QED
  BY <1>1, <1>2, <1>4, <1>5 DEF OpenInv

\* What main does to the descriptor it has does not touch the others.
LEMMA ElseSame ==
    ASSUME TypeOK, NEW f \in Fds, NEW fd \in Fds, f # fd
    PROVE  /\ CloseConn(fd) /\ UNCHANGED dropped => LinkSame(f)
           /\ Remove(fd) /\ UNCHANGED <<obj, dropped>> => LinkSame(f)
           /\ \A ev : Arm(fd, ev) => epoll'[f] = epoll[f]
<1>1. ASSUME NEW ev, Arm(fd, ev) PROVE epoll'[f] = epoll[f]
  BY <1>1 DEF Arm, TypeOK, SocketType
<1>2. Remove(fd) => sock'[f] = sock[f] /\ epoll'[f] = epoll[f]
  BY DEF Remove, TypeOK, SocketType
<1>3. CloseConn(fd) => sock'[f] = sock[f] /\ epoll'[f] = epoll[f] /\ obj'[f] = obj[f]
  BY <1>2 DEF CloseConn, Forgotten, TypeOK, ObjectType
<1> QED
  BY <1>1, <1>2, <1>3 DEF LinkSame

\* Main closes the connection it has, which it lets go of.
LEMMA MainCloses ==
    ASSUME TypeOK, ThreadInv, NEW f \in Fds, ConnInv(f),
           InBatch(f) + InWrite(f) + InQueue(f) >= 1,
           InBatch(f)' = 0, InWrite(f)' = 0, UNCHANGED <<queue, worker>>,
           InQueue(f) = 0, CloseConn(f)
    PROVE  ConnInv(f)'
<1>1. obj[f].set /\ Crew(f) = {}
  BY Held
<1>2. Remove(f) /\ obj' = Forgotten(f)
  BY <1>1 DEF CloseConn
<1>3. ~sock'[f].open /\ epoll'[f] = "none"
  BY <1>2 DEF Remove, Closed, TypeOK, SocketType
<1>4. ~obj'[f].set
  <2>1. obj[f] \in Object
    BY DEF TypeOK, ObjectType
  <2> QED
    BY <1>2, <2>1 DEF Forgotten, TypeOK, ObjectType, Object
<1>5. InQueue(f)' = 0 /\ Crew(f)' = {}
  BY <1>1, Same DEF QueueSame, CrewSame
<1>6. ClosedInv(f)'
  BY <1>3, <1>4, <1>5 DEF ClosedInv
<1> QED
  BY <1>3, <1>6 DEF ConnInv

\* Main, or a worker that lets go of it, arms the descriptor of an open
\* connection: now the epoll table has it.
LEMMA Armed ==
    ASSUME TypeOK, ThreadInv, NEW f \in Fds, NEW ev \in {"IN", "OUT"}, Arm(f, ev),
           sock[f].open, obj[f].set, epoll[f] # "none", f \notin dropped,
           UNCHANGED dropped, sock'[f].open = sock[f].open, obj'[f].set = obj[f].set,
           InBatch(f)' = 0, InWrite(f)' = 0, InQueue(f)' = 0, InHand(f)' = 0, Crew(f)' = {}
    PROVE  ConnInv(f)'
<1>1. epoll'[f] = ev
  BY DEF Arm, TypeOK, SocketType
<1>2. InTable(f)' = 1
  BY <1>1 DEF InTable, One
<1>3. Holders(f)' = 1
  BY <1>2 DEF Holders
<1>4. OpenInv(f)'
  BY <1>1, <1>3 DEF OpenInv, One
<1> QED
  BY <1>4 DEF ConnInv

LEMMA HandInit == Init => HandInv
<1> SUFFICES ASSUME Init PROVE HandInv
  OBVIOUS
<1> SUFFICES ASSUME NEW f \in Fds PROVE ConnInv(f)
  BY DEF HandInv
<1>1. Crew(f) = {} /\ InWrite(f) = 0
  BY DEF Init, Crew, Idle, InWrite, One
<1>2. InBatch(f) = 0 /\ InQueue(f) = 0
  <2>1. {e \in events : e.fd = f} = {} /\ {k \in DOMAIN queue : queue[k] = f} = {}
    BY DEF Init
  <2> QED
    BY <2>1, FS_EmptySet DEF InBatch, InQueue
<1>3. epoll[f] = "none" /\ ~sock[f].open
  BY DEF Init, Closed
<1>4. ~obj[f].set
  <2>1. obj[f] = [Fresh EXCEPT !.set = FALSE]
    BY DEF Init
  <2> QED
    BY <2>1 DEF Fresh
<1> QED
  BY <1>1, <1>2, <1>3, <1>4 DEF ConnInv, ClosedInv

\* A race, once it has occurred, has occurred.
LEMMA RaceStays == TypeOK /\ [Next]_vars => raced \subseteq raced'
<1> SUFFICES ASSUME TypeOK, [Next]_vars PROVE raced \subseteq raced'
  OBVIOUS
<1>1. \A W : raced \subseteq CountRace(W)
  BY DEF CountRace
<1>2. \A fd : CloseConn(fd) => raced \subseteq raced'
  BY <1>1 DEF CloseConn
<1>3. CASE Main
  <2>1. CASE EpollWait \/ AcceptFails \/ ShowError \/ BatchEnd \/ WriteMore \/ WriteLater
    BY <2>1 DEF EpollWait, AcceptFails, ShowError, BatchEnd, WriteMore, WriteLater, history
  <2>2. CASE WriteKeep \/ WriteClose \/ WriteFails
    BY <1>2, <2>2 DEF WriteKeep, WriteClose, WriteFails
  <2>3. ASSUME NEW fd \in Fds, Accept(fd) PROVE raced \subseteq raced'
    BY <1>1, <2>3 DEF Accept
  <2>4. ASSUME NEW fd \in Fds, \/ HandleHup(fd) \/ HandleInClose(fd) \/ HandleIn(fd)
                               \/ HandleOutNothing(fd) \/ HandleOut(fd)
        PROVE  raced \subseteq raced'
    BY <1>2, <2>4
    DEF HandleHup, HandleInClose, HandleIn, HandleOutNothing, HandleOut, history
  <2> QED
    BY <1>3, <2>1, <2>2, <2>3, <2>4 DEF Main
<1>4. ASSUME NEW w \in Workers, Work(w) PROVE raced \subseteq raced'
  <2>1. CASE Take(w) \/ Process(w) \/ Rearm(w)
    BY <2>1 DEF Take, Process, Rearm, history
  <2>2. CASE WorkerClose(w) \/ WorkerReset(w) \/ WorkerLoad(w)
    BY <2>2 DEF WorkerClose, WorkerReset, WorkerLoad, history
  <2>3. CASE WorkerStore(w)
    BY <1>1, <2>3 DEF WorkerStore
  <2> QED
    BY <1>4, <2>1, <2>2, <2>3 DEF Work
<1>5. CASE Connect \/ \E fd \in Fds : Say(fd) \/ Drain(fd) \/ HangUp(fd)
  BY <1>5 DEF Connect, Say, SayPart, SayAll, SayOverlooked, Drain, HangUp, Client, history
<1>6. CASE UNCHANGED vars
  BY <1>6 DEF vars
<1> QED
  BY <1>3, <1>4, <1>5, <1>6 DEF Next

\* Main waits, accepts and ends a batch.
LEMMA HandWait ==
    ASSUME TypeOK, ThreadInv, NEW f \in Fds, ConnInv(f),
           EpollWait \/ AcceptFails \/ ShowError \/ BatchEnd
    PROVE  ConnInv(f)'
<1>1. CASE EpollWait
  <2>1. CrewSame(f) /\ QueueSame(f) /\ InWrite(f) = 0 /\ InWrite(f)' = 0
    BY <1>1, Same DEF EpollWait, poolVars
  <2>2. InBatch(f) = 0
    <3>1. {e \in events : e.fd = f} = {}
      BY <1>1 DEF ThreadInv, EpollWait
    <3> QED
      BY <3>1, FS_EmptySet DEF InBatch
  <2> DEFINE B == {e \in events' : e.fd = f}
  <2>3. B = {e \in Reported : e.fd = f}
    BY <1>1 DEF EpollWait, Listen
  <2>4. CASE \E e \in Reported : e.fd = f
    <3>1. PICK e \in Reported : e.fd = f
      BY <2>4
    <3>2. B = {e}
      BY <2>3, <3>1 DEF Reported, Ready
    <3>3. InBatch(f)' = 1
      BY <3>2, FS_Singleton DEF InBatch
    <3>4. epoll[f] \in {"IN", "OUT"} /\ epoll'[f] = "off"
      BY <1>1, <3>1 DEF Reported, Ready, EpollWait, Disarmed
    <3>5. InTable(f) = 1 /\ InTable(f)' = 0
      BY <3>4 DEF InTable, One
    <3>6. sock[f].open /\ OpenInv(f)
      BY <3>4 DEF ConnInv, ClosedInv
    <3>7. Holders(f)' = Holders(f)
      BY <2>1, <2>2, <3>3, <3>5 DEF Holders, CrewSame, QueueSame
    <3>8. OpenInv(f)'
      BY <1>1, <2>1, <3>4, <3>6, <3>7 DEF OpenInv, CrewSame, EpollWait, history, One
    <3>9. sock'[f].open
      BY <1>1, <3>6 DEF EpollWait
    <3> QED
      BY <3>8, <3>9 DEF ConnInv
  <2>5. CASE ~ \E e \in Reported : e.fd = f
    <3>1. B = {}
      BY <2>3, <2>5
    <3>2. InBatch(f)' = 0
      BY <3>1, FS_EmptySet DEF InBatch
    <3>3. LinkSame(f)
      BY <1>1, <2>5 DEF EpollWait, Disarmed, LinkSame, history
    <3> QED
      BY <2>1, <2>2, <3>2, <3>3, ConnSame DEF MainSame
  <2> QED
    BY <2>4, <2>5
<1>2. CASE AcceptFails \/ ShowError
  <2>1. Handling(Listen, "IN") /\ UNCHANGED <<pc, out, queue, worker, obj, epoll, sock, dropped>>
    BY <1>2 DEF AcceptFails, ShowError, poolVars, history
  <2>2. InBatch(f)' = InBatch(f)
    BY <2>1, BatchLeaves, HandTypes DEF Listen, One
  <2> QED
    BY <2>1, <2>2, Same, ConnSame DEF MainSame, LinkSame
<1>3. CASE BatchEnd
  <2>1. /\ UNCHANGED <<events, queue, worker, obj, epoll, sock, dropped>>
        /\ pc # "write" /\ pc' # "write"
    BY <1>3 DEF BatchEnd, poolVars, history
  <2> QED
    BY <2>1, Same, ConnSame DEF MainSame, LinkSame
<1> QED
  BY <1>1, <1>2, <1>3

\* A new connection: nobody has anything of its descriptor.
LEMMA HandAccept ==
    ASSUME TypeOK, ThreadInv, NEW f \in Fds, ConnInv(f), NEW fd \in Fds, Accept(fd),
           "descriptor" \notin raced'
    PROVE  ConnInv(f)'
<1>1. /\ Handling(Listen, "IN") /\ UNCHANGED <<pc, out, queue, worker>>
      /\ sock' = [sock EXCEPT ![fd] = [Closed EXCEPT !.open = TRUE]]
      /\ obj' = [obj EXCEPT ![fd] = Fresh] /\ epoll' = [epoll EXCEPT ![fd] = "IN"]
      /\ dropped' = dropped \ {fd} /\ ~sock[fd].open
  BY DEF Accept, poolVars, IsLowest
<1>2. InBatch(f)' = InBatch(f)
  BY <1>1, BatchLeaves, HandTypes DEF Listen, One
<1>3. InWrite(f)' = InWrite(f) /\ QueueSame(f) /\ CrewSame(f)
  BY <1>1, Same
<1>4. CASE f # fd
  <2>1. LinkSame(f)
    BY <1>1, <1>4 DEF LinkSame, TypeOK, SocketType, ObjectType
  <2> QED
    BY <1>2, <1>3, <2>1, ConnSame DEF MainSame
<1>5. CASE f = fd
  <2>1. ~ \E w \in Workers : worker[w] # Idle /\ worker[w].fd = fd
    BY DEF Accept
  <2>2. Crew(f) = {}
    BY <1>5, <2>1 DEF Crew, Idle
  <2>3. InHand(f) = 0
    BY <2>2, CrewBusy
  <2>4. InBatch(f) = 0 /\ InWrite(f) = 0 /\ InQueue(f) = 0
    BY <1>1, <1>5 DEF ConnInv, ClosedInv
  <2>5. epoll'[f] = "IN" /\ sock'[f].open /\ obj'[f].set /\ f \notin dropped'
    <3>1. sock'[f] = [Closed EXCEPT !.open = TRUE] /\ obj'[f] = Fresh
      BY <1>1, <1>5 DEF TypeOK, SocketType, ObjectType
    <3> QED
      BY <1>1, <1>5, <3>1 DEF TypeOK, SocketType, Closed, Fresh
  <2>6. InTable(f)' = 1
    BY <2>5 DEF InTable, One
  <2>7. Holders(f)' = 1
    BY <1>2, <1>3, <2>3, <2>4, <2>6 DEF Holders, QueueSame, CrewSame
  <2>8. OpenInv(f)'
    BY <1>3, <2>2, <2>5, <2>7 DEF OpenInv, CrewSame, One
  <2> QED
    BY <2>5, <2>8 DEF ConnInv
<1> QED
  BY <1>4, <1>5

\* Main handles an event of a connection: it is main that has it.
LEMMA HandEvent ==
    ASSUME TypeOK, ThreadInv, NEW f \in Fds, ConnInv(f), NEW fd \in Fds,
           \/ HandleHup(fd) \/ HandleInClose(fd) \/ HandleIn(fd)
           \/ HandleOutNothing(fd) \/ HandleOut(fd)
    PROVE  ConnInv(f)'
<1>1. PICK ev : Handling(fd, ev)
  BY DEF HandleHup, HandleInClose, HandleIn, HandleOutNothing, HandleOut
<1>2. UNCHANGED worker
  BY DEF HandleHup, HandleInClose, HandleIn, HandleOutNothing, HandleOut, poolVars
<1>3. CrewSame(f)
  BY <1>2, Same
<1>4. InBatch(f)' = InBatch(f) - One(f = fd)
  BY <1>1, BatchLeaves
<1>5. CASE f # fd
  <2>1. InBatch(f)' = InBatch(f)
    BY <1>4, <1>5, HandTypes DEF One
  <2>2. InWrite(f)' = InWrite(f)
    <3>1. CASE HandleOut(fd)
      BY <1>1, <1>5, <3>1 DEF HandleOut, Handling, InWrite, One
    <3>2. CASE ~HandleOut(fd)
      BY <3>2, Same DEF HandleHup, HandleInClose, HandleIn, HandleOutNothing
    <3> QED
      BY <3>1, <3>2
  <2>3. LinkSame(f) /\ QueueSame(f)
    <3>1. CASE HandleHup(fd) \/ HandleInClose(fd)
      BY <1>5, <3>1, ElseSame, Same DEF HandleHup, HandleInClose, poolVars
    <3>2. CASE HandleIn(fd)
      <4>0. /\ sock' = [sock EXCEPT ![fd].unread = "none"] /\ UNCHANGED epoll
            /\ \E b : obj' = [obj EXCEPT ![fd].buf = b]
        BY <3>2 DEF HandleIn
      <4>1. obj'[f] = obj[f] /\ sock'[f] = sock[f] /\ UNCHANGED epoll
        <5>1. obj'[f] = obj[f]
          BY <1>5, <4>0 DEF TypeOK, ObjectType
        <5>2. sock'[f] = sock[f]
          BY <1>5, <4>0 DEF TypeOK, SocketType
        <5> QED
          BY <4>0, <5>1, <5>2
      <4>2. CASE queue' = Append(queue, fd) /\ UNCHANGED dropped
        <5>1. QueueSame(f)
          BY <1>5, <4>2, QueueGrows, HandTypes DEF QueueSame, One
        <5>2. LinkSame(f)
          BY <4>1, <4>2 DEF LinkSame
        <5> QED
          BY <5>1, <5>2
      <4>3. CASE dropped' = dropped \cup {fd} /\ UNCHANGED queue
        BY <1>5, <4>1, <4>3, Same DEF LinkSame
      <4> QED
        BY <3>2, <4>2, <4>3 DEF HandleIn
    <3>3. CASE HandleOutNothing(fd)
      <4>1. obj'[f] = obj[f] /\ UNCHANGED <<sock, queue, dropped>>
        BY <1>5, <3>3 DEF HandleOutNothing, TypeOK, ObjectType, poolVars, history
      <4>2. epoll'[f] = epoll[f]
        BY <1>5, <3>3, ElseSame DEF HandleOutNothing
      <4> QED
        BY <4>1, <4>2, Same DEF LinkSame
    <3>4. CASE HandleOut(fd)
      BY <3>4, Same DEF HandleOut, LinkSame, poolVars, history
    <3> QED
      BY <3>1, <3>2, <3>3, <3>4
  <2> QED
    BY <1>3, <2>1, <2>2, <2>3, ConnSame DEF MainSame
<1>6. CASE f = fd
  <2>0. InBatch(f) >= 1
    <3> DEFINE B == {e \in events : e.fd = f}
    <3>1. [fd |-> fd, ev |-> ev] \in B
      BY <1>1, <1>6 DEF Handling
    <3>2. IsFiniteSet(B)
      BY HandsFinite
    <3> HIDE DEF B
    <3>3. Cardinality(B) \in Nat /\ Cardinality(B) # 0
      BY <3>1, <3>2, CountZero
    <3> QED
      BY <3>3 DEF B, InBatch
  <2>1. /\ sock[f].open /\ obj[f].set /\ epoll[f] # "none" /\ f \notin dropped
        /\ InTable(f) = 0 /\ InBatch(f) = 1 /\ InWrite(f) = 0 /\ InQueue(f) = 0
        /\ InHand(f) = 0 /\ Crew(f) = {}
    BY <2>0, Held, HandTypes
  <2>2. InBatch(f)' = 0
    BY <1>4, <1>6, <2>1 DEF One
  <2>3. InHand(f)' = 0 /\ Crew(f)' = {}
    BY <1>3, <2>1 DEF CrewSame
  <2>4. CASE HandleHup(fd) \/ HandleInClose(fd)
    <3>1. CloseConn(f) /\ UNCHANGED <<pc, out, queue>>
      BY <1>6, <2>4 DEF HandleHup, HandleInClose, poolVars
    <3>2. InWrite(f)' = 0
      BY <2>1, <3>1, Same
    <3> QED
      BY <1>2, <2>1, <2>2, <3>1, <3>2, MainCloses
  <2>5. CASE HandleIn(fd)
    <3>1. InWrite(f)' = 0 /\ UNCHANGED epoll
      BY <2>1, <2>5, Same DEF HandleIn
    <3>2. sock'[f].open /\ obj'[f].set
      <4>1. /\ sock' = [sock EXCEPT ![fd].unread = "none"] /\ sock[fd] \in Socket
            /\ obj[fd] \in Object
            /\ \E b : obj' = [obj EXCEPT ![fd].buf = b]
        BY <2>5 DEF HandleIn, TypeOK, ObjectType, SocketType
      <4> QED
        BY <1>6, <2>1, <4>1 DEF TypeOK, ObjectType, SocketType, Socket, Object
    <3>3. InTable(f)' = 0
      BY <2>1, <3>1 DEF InTable
    <3>4. InQueue(f)' = One(f \notin dropped')
      <4>1. CASE queue' = Append(queue, fd) /\ UNCHANGED dropped
        BY <1>6, <2>1, <4>1, QueueGrows DEF One
      <4>2. CASE dropped' = dropped \cup {fd} /\ UNCHANGED queue
        BY <1>6, <2>1, <4>2, Same DEF QueueSame, One
      <4> QED
        BY <2>5, <4>1, <4>2 DEF HandleIn
    <3>5. Holders(f)' = One(f \notin dropped')
      BY <2>2, <2>3, <3>1, <3>3, <3>4 DEF Holders, One
    <3>6. OpenInv(f)'
      BY <2>1, <2>3, <3>1, <3>2, <3>5 DEF OpenInv
    <3> QED
      BY <3>2, <3>6 DEF ConnInv
  <2>6. CASE HandleOutNothing(fd)
    <3>1. InWrite(f)' = 0 /\ InQueue(f)' = 0 /\ UNCHANGED <<sock, dropped>> /\ Arm(f, "IN")
      BY <1>6, <2>1, <2>6, Same DEF HandleOutNothing, poolVars, history, QueueSame
    <3>2. obj'[f].set = obj[f].set
      BY <1>6, <2>6 DEF HandleOutNothing, TypeOK, ObjectType, Object, Fresh
    <3> QED
      BY <2>1, <2>2, <2>3, <3>1, <3>2, Armed
  <2>7. CASE HandleOut(fd)
    <3>1. /\ pc' = "write" /\ UNCHANGED <<queue, obj, epoll, sock, dropped>>
          /\ out' = [fd |-> fd, to_send |-> obj[fd].m_write_idx, have |-> 0]
      BY <2>7 DEF HandleOut, poolVars, history
    <3>2. InWrite(f)' = 1 /\ InTable(f)' = 0
      BY <1>6, <2>1, <3>1 DEF InWrite, InTable, One
    <3>3. InQueue(f)' = 0
      BY <2>1, <3>1, Same DEF QueueSame
    <3>4. Holders(f)' = 1
      BY <2>2, <2>3, <3>2, <3>3 DEF Holders
    <3>5. OpenInv(f)'
      BY <2>1, <2>3, <3>1, <3>4 DEF OpenInv, One
    <3> QED
      BY <2>1, <3>1, <3>5 DEF ConnInv
  <2> QED
    BY <2>4, <2>5, <2>6, <2>7
<1> QED
  BY <1>5, <1>6

\* Main writes.
LEMMA HandWrite ==
    ASSUME TypeOK, ThreadInv, NEW f \in Fds, ConnInv(f),
           WriteMore \/ WriteKeep \/ WriteClose \/ WriteLater \/ WriteFails
    PROVE  ConnInv(f)'
<1>1. /\ pc = "write" /\ UNCHANGED <<events, queue, worker, dropped>>
      /\ out.fd \in Fds
  BY DEF WriteMore, WriteKeep, WriteClose, WriteLater, WriteFails, poolVars, history,
         ThreadInv
<1>2. CrewSame(f) /\ QueueSame(f) /\ InBatch(f)' = InBatch(f)
  BY <1>1, Same
<1>o. obj[out.fd] \in Object /\ sock[out.fd] \in Socket
  BY <1>1 DEF TypeOK, ObjectType, SocketType
<1>3. CASE WriteMore
  <2>1. PICK n \in 1 .. SndBuf :
          /\ sock' = [sock EXCEPT ![out.fd].buffer = @ + n]
          /\ obj' = [obj EXCEPT ![out.fd].begun = TRUE]
          /\ out' = [out EXCEPT !.to_send = @ - n, !.have = @ + n]
    BY <1>3 DEF WriteMore
  <2>2. InWrite(f)' = InWrite(f)
    <3>1. out'.fd = out.fd /\ pc' = pc
      BY <1>3, <2>1 DEF WriteMore, TypeOK, MainType
    <3> QED
      BY <3>1 DEF InWrite
  <2>3. sock'[f].open = sock[f].open
    BY <1>1, <1>o, <2>1 DEF TypeOK, SocketType, Socket
  <2>4. obj'[f].set = obj[f].set
    BY <1>1, <1>o, <2>1 DEF TypeOK, ObjectType, Object
  <2>5. LinkSame(f)
    BY <1>1, <1>3, <2>3, <2>4 DEF LinkSame, WriteMore
  <2> QED
    BY <1>2, <2>2, <2>5, ConnSame DEF MainSame
<1>4. ASSUME ~WriteMore PROVE ConnInv(f)'
  <2>1. pc' = "batch"
    BY <1>4 DEF WriteKeep, WriteClose, WriteLater, WriteFails
  <2>2. InWrite(f)' = 0 /\ InWrite(f) = One(f = out.fd)
    BY <1>1, <2>1 DEF InWrite, One
  <2>3. CASE f # out.fd
    <3>1. InWrite(f) = 0
      BY <2>2, <2>3 DEF One
    <3>2. LinkSame(f)
      <4>1. CASE WriteClose \/ WriteFails
        BY <1>1, <2>3, <4>1, ElseSame DEF WriteClose, WriteFails
      <4>2. CASE WriteKeep
        <5>1. PICK n : sock' = [sock EXCEPT ![out.fd].buffer = @ + n,
                                             ![out.fd].asks = "nothing"]
          BY <4>2 DEF WriteKeep
        <5>2. sock'[f] = sock[f] /\ obj'[f] = obj[f]
          BY <1>1, <2>3, <4>2, <5>1 DEF WriteKeep, TypeOK, ObjectType, SocketType
        <5>3. epoll'[f] = epoll[f]
          BY <1>1, <2>3, <4>2, ElseSame DEF WriteKeep
        <5> QED
          BY <1>1, <5>2, <5>3 DEF LinkSame
      <4>3. CASE WriteLater
        BY <1>1, <2>3, <4>3, ElseSame DEF WriteLater, LinkSame
      <4> QED
        BY <1>4, <4>1, <4>2, <4>3
    <3> QED
      BY <1>2, <2>2, <3>1, <3>2, ConnSame DEF MainSame
  <2>4. CASE f = out.fd
    <3>1. InWrite(f) = 1
      BY <2>2, <2>4 DEF One
    <3>2. /\ sock[f].open /\ obj[f].set /\ epoll[f] # "none" /\ f \notin dropped
          /\ InTable(f) = 0 /\ InBatch(f) = 0 /\ InQueue(f) = 0
          /\ InHand(f) = 0 /\ Crew(f) = {}
      BY <3>1, Held, HandTypes
    <3>3. /\ InBatch(f)' = 0 /\ InQueue(f)' = 0 /\ InHand(f)' = 0 /\ Crew(f)' = {}
      BY <1>2, <3>2 DEF QueueSame, CrewSame
    <3>4. CASE WriteClose \/ WriteFails
      <4>1. CloseConn(f)
        BY <2>4, <3>4 DEF WriteClose, WriteFails
      <4> QED
        BY <1>1, <2>2, <3>1, <3>2, <3>3, <4>1, MainCloses
    <3>5. CASE WriteKeep
      <4>1. PICK n : sock' = [sock EXCEPT ![f].buffer = @ + n, ![f].asks = "nothing"]
        BY <2>4, <3>5 DEF WriteKeep
      <4>2. sock'[f].open
        BY <1>o, <2>4, <3>2, <4>1 DEF TypeOK, SocketType, Socket
      <4>3. obj'[f].set /\ Arm(f, "IN")
        BY <2>4, <3>5 DEF WriteKeep, Fresh, TypeOK, ObjectType
      <4> QED
        BY <1>1, <2>2, <3>2, <3>3, <4>2, <4>3, Armed
    <3>6. CASE WriteLater
      <4>1. Arm(f, "OUT") /\ UNCHANGED <<obj, sock>>
        BY <2>4, <3>6 DEF WriteLater
      <4> QED
        BY <1>1, <2>2, <3>2, <3>3, <4>1, Armed
    <3> QED
      BY <1>4, <3>4, <3>5, <3>6
  <2> QED
    BY <2>3, <2>4
<1> QED
  BY <1>3, <1>4

\* A worker goes on: the crews of the connections before and after.
LEMMA CrewMoves ==
    ASSUME TypeOK, NEW f \in Fds, NEW w \in Workers, NEW r,
           worker' = [worker EXCEPT ![w] = r]
    PROVE  /\ worker'[w] = r
           /\ \A v \in Crew(f) \ {w} : worker'[v] = worker[v]
           /\ r.pc # "idle" /\ r.fd = f => Crew(f)' = Crew(f) \cup {w}
           /\ ~(r.pc # "idle" /\ r.fd = f) => Crew(f)' = Crew(f) \ {w}
           /\ w \notin Crew(f) /\ ~(r.pc # "idle" /\ r.fd = f) => CrewSame(f)
<1>1. worker'[w] = r /\ \A v \in Workers \ {w} : worker'[v] = worker[v]
  BY DEF TypeOK, PoolType
<1>2. /\ \A v \in Crew(f) \ {w} : worker'[v] = worker[v]
      /\ r.pc # "idle" /\ r.fd = f => Crew(f)' = Crew(f) \cup {w}
      /\ ~(r.pc # "idle" /\ r.fd = f) => Crew(f)' = Crew(f) \ {w}
  BY <1>1 DEF Crew
<1>3. ASSUME w \notin Crew(f), ~(r.pc # "idle" /\ r.fd = f) PROVE CrewSame(f)
  <2>1. Crew(f)' = Crew(f) /\ \A v \in Crew(f) : worker'[v] = worker[v]
    BY <1>2, <1>3
  <2>2. ~(worker[w].fd = f /\ worker[w].pc \in Busy) /\ ~(r.fd = f /\ r.pc \in Busy)
    BY <1>3 DEF Crew, Busy
  <2>3. InHand(f)' = InHand(f)
    <3>1. InHand(f)' = InHand(f) - 0 + 0
      BY <2>2, HandMoves DEF One
    <3> QED
      BY <3>1, HandTypes
  <2> QED
    BY <2>1, <2>3 DEF CrewSame
<1> QED
  BY <1>1, <1>2, <1>3

\* What a worker does with its connection does not touch the others.
LEMMA HandOthers ==
    ASSUME TypeOK, NEW f \in Fds, ConnInv(f), NEW w \in Workers, NEW r,
           worker' = [worker EXCEPT ![w] = r], worker[w].fd # f, r.fd # f,
           UNCHANGED <<pc, events, out, queue>>, LinkSame(f)
    PROVE  ConnInv(f)'
<1>0. w \notin Crew(f)
  BY DEF Crew
<1>1. CrewSame(f)
  BY <1>0, CrewMoves
<1>2. MainSame(f) /\ QueueSame(f)
  BY Same DEF MainSame
<1> QED
  BY <1>1, <1>2, ConnSame

\* A worker takes a request.
LEMMA HandTake ==
    ASSUME TypeOK, ThreadInv, NEW f \in Fds, ConnInv(f), NEW w \in Workers, Take(w)
    PROVE  ConnInv(f)'
<1> DEFINE r == [Idle EXCEPT !.pc = "process", !.fd = Head(queue)]
<1>1. /\ worker[w].pc = "idle" /\ worker' = [worker EXCEPT ![w] = r]
      /\ queue # <<>> /\ queue' = Tail(queue)
      /\ UNCHANGED <<pc, events, out, dropped, obj, epoll, sock>>
  BY DEF Take, WStep, mainVars, history
<1>2. r.pc = "process" /\ r.fd = Head(queue) /\ w \notin Crew(f)
  BY <1>1 DEF Idle, Crew
<1> HIDE DEF r
<1>3. InQueue(f)' = InQueue(f) - One(f = Head(queue))
  BY <1>1, QueueShrinks
<1>4. MainSame(f) /\ LinkSame(f)
  BY <1>1, Same DEF MainSame, LinkSame
<1>5. CASE f # Head(queue)
  <2>1. QueueSame(f)
    BY <1>3, <1>5, HandTypes DEF QueueSame, One
  <2>2. CrewSame(f)
    BY <1>1, <1>2, <1>5, CrewMoves
  <2> QED
    BY <1>4, <2>1, <2>2, ConnSame
<1>6. CASE f = Head(queue)
  <2>1. InQueue(f) >= 1
    <3> DEFINE A == {k \in DOMAIN queue : queue[k] = f}
    <3>1. 1 \in A
      BY <1>1, <1>6 DEF TypeOK, PoolType
    <3>2. IsFiniteSet(A) /\ InQueue(f) = Cardinality(A)
      BY HandsFinite DEF InQueue
    <3> HIDE DEF A
    <3> QED
      BY <3>1, <3>2, CountZero
  <2>2. /\ sock[f].open /\ obj[f].set /\ epoll[f] # "none" /\ f \notin dropped
        /\ InTable(f) = 0 /\ InBatch(f) = 0 /\ InWrite(f) = 0 /\ InQueue(f) = 1
        /\ InHand(f) = 0 /\ Crew(f) = {}
    BY <2>1, Held, HandTypes
  <2>3. InHand(f)' = 1
    <3>1. InHand(f)' = InHand(f) - 0 + 1
      <4>1. ~(worker[w].fd = f /\ worker[w].pc \in Busy) /\ r.fd = f /\ r.pc \in Busy
        BY <1>1, <1>2, <1>6 DEF Busy
      <4> QED
        BY <1>1, <4>1, HandMoves DEF One
    <3> QED
      BY <2>2, <3>1
  <2>4. Crew(f)' = {w} /\ worker'[w].pc \in Busy
    <3>1. worker'[w] = r /\ Crew(f)' = Crew(f) \cup {w}
      BY <1>1, <1>2, <1>6, CrewMoves
    <3> QED
      BY <1>2, <2>2, <3>1 DEF Busy
  <2>5. InQueue(f)' = 0 /\ InTable(f)' = 0
    BY <1>1, <1>3, <1>6, <2>2 DEF One, InTable
  <2>6. Holders(f)' = 1
    BY <1>4, <2>2, <2>3, <2>5 DEF Holders, MainSame
  <2>7. OpenInv(f)'
    BY <1>1, <2>2, <2>4, <2>6 DEF OpenInv, One
  <2> QED
    BY <1>1, <2>2, <2>7 DEF ConnInv
<1> QED
  BY <1>5, <1>6

\* A worker goes on with the connection it has, inside process().
LEMMA HandProcess ==
    ASSUME TypeOK, ThreadInv, NEW f \in Fds, ConnInv(f), NEW w \in Workers, Process(w)
    PROVE  ConnInv(f)'
<1> DEFINE fd == worker[w].fd
<1>1. PICK step \in {"more", "answer", "close"} : Goto(w, step)
  BY DEF Process
<1> DEFINE r == [worker[w] EXCEPT !.pc = step]
<1>2. /\ worker[w].pc = "process" /\ fd \in Fds /\ worker[w] \in WorkerState
      /\ worker' = [worker EXCEPT ![w] = r]
      /\ UNCHANGED <<pc, events, out, queue, dropped, epoll, sock>>
  BY <1>1 DEF Process, WStep, mainVars, history, Goto, ThreadInv, TypeOK, PoolType
<1>3. r.pc = step /\ r.fd = fd
  BY <1>2 DEF WorkerState
<1> HIDE DEF r
<1>4. \A g \in Fds : obj'[g].set = obj[g].set
  <2> SUFFICES ASSUME NEW g \in Fds PROVE obj'[g].set = obj[g].set
    OBVIOUS
  <2>1. CASE UNCHANGED obj
    BY <2>1
  <2>2. CASE \E linger \in BOOLEAN : obj' = Answered(fd, linger)
    <3>1. PICK linger \in BOOLEAN : obj' = Answered(fd, linger)
      BY <2>2
    <3>2. obj[fd] \in Object
      BY <1>2 DEF TypeOK, ObjectType
    <3>3. \E n : obj' = [obj EXCEPT ![fd] = [obj[fd] EXCEPT !.m_write_idx = HeadLen,
                                              !.linger = linger, !.file = n]]
      BY <3>1 DEF Answered
    <3>4. PICK n : obj' = [obj EXCEPT ![fd] = [obj[fd] EXCEPT !.m_write_idx = HeadLen,
                                               !.linger = linger, !.file = n]]
      BY <3>3
    <3> DEFINE o == [obj[fd] EXCEPT !.m_write_idx = HeadLen, !.linger = linger, !.file = n]
    <3>5. o.set = obj[fd].set
      BY <3>2 DEF Object
    <3>6. obj' = [obj EXCEPT ![fd] = o]
      BY <3>4
    <3> HIDE DEF o
    <3> QED
      BY <3>5, <3>6 DEF TypeOK, ObjectType
  <2> QED
    BY <2>1, <2>2 DEF Process
<1>5. LinkSame(f)
  BY <1>2, <1>4 DEF LinkSame
<1>6. CASE f # fd
  BY <1>2, <1>3, <1>5, <1>6, HandOthers
<1>7. CASE f = fd
  <2>1. w \in Crew(f) /\ worker[w].pc \in Busy
    BY <1>2, <1>7 DEF Crew, Busy
  <2>2. /\ sock[f].open /\ obj[f].set /\ epoll[f] # "none" /\ f \notin dropped
        /\ InTable(f) = 0 /\ InBatch(f) = 0 /\ InWrite(f) = 0 /\ InQueue(f) = 0
        /\ InHand(f) = 1 /\ Crew(f) = {w}
    BY <1>2, <2>1, HeldByWorker
  <2>3. InHand(f)' = 1
    <3>1. worker[w].fd = f /\ worker[w].pc \in Busy /\ r.fd = f /\ r.pc \in Busy
      BY <1>3, <1>7, <2>1 DEF Busy
    <3>2. InHand(f) = 1
      BY <2>2
    <3>3. /\ One(worker[w].fd = f /\ worker[w].pc \in Busy) = 1
          /\ One(r.fd = f /\ r.pc \in Busy) = 1
      BY <3>1 DEF One
    <3>4. InHand(f)' = InHand(f) - 1 + 1
      BY <1>2, <3>3, HandMoves
    <3> QED
      BY <3>2, <3>4
  <2>4. Crew(f)' = {w} /\ worker'[w].pc \in Busy
    <3>0. worker' = [worker EXCEPT ![w] = r] /\ r.pc # "idle" /\ r.fd = f
      BY <1>2, <1>3, <1>7
    <3> HIDE DEF fd
    <3>1. worker'[w] = r /\ Crew(f)' = Crew(f) \cup {w}
      BY <3>0, CrewMoves, Zenon
    <3> QED
      BY <1>3, <2>2, <3>1 DEF Busy
  <2>5. MainSame(f) /\ QueueSame(f) /\ InTable(f)' = InTable(f)
    BY <1>2, Same DEF MainSame, InTable, One
  <2>6. Holders(f)' = 1
    <3>1. /\ InTable(f)' = 0 /\ InBatch(f)' = 0 /\ InWrite(f)' = 0 /\ InQueue(f)' = 0
      BY <2>2, <2>5 DEF MainSame, QueueSame
    <3> QED
      BY <2>3, <3>1 DEF Holders
  <2>7. OpenInv(f)'
    BY <1>2, <1>4, <2>2, <2>4, <2>6 DEF OpenInv, One
  <2> QED
    BY <1>2, <2>2, <2>7 DEF ConnInv
<1> QED
  BY <1>6, <1>7

\* It arms the descriptor and lets go of it.
LEMMA HandRearm ==
    ASSUME TypeOK, ThreadInv, NEW f \in Fds, ConnInv(f), NEW w \in Workers, Rearm(w)
    PROVE  ConnInv(f)'
<1> DEFINE fd == worker[w].fd
<1>1. PICK ev \in {"IN", "OUT"} : Arm(fd, ev)
  BY DEF Rearm, WaitsFor
<1>2. /\ worker[w].pc \in {"more", "answer"} /\ fd \in Fds
      /\ worker' = [worker EXCEPT ![w] = Idle]
      /\ UNCHANGED <<pc, events, out, queue, dropped, obj, sock>>
  BY DEF Rearm, WStep, mainVars, history, ThreadInv
<1>3. Idle.pc = "idle" /\ Idle.fd = 0 /\ 0 \notin Fds
  BY DEF Idle
<1>4. CASE f # fd
  <2>1. LinkSame(f)
    BY <1>1, <1>2, <1>4, ElseSame DEF LinkSame
  <2> QED
    BY <1>2, <1>3, <1>4, <2>1, HandOthers
<1>5. CASE f = fd
  <2>1. w \in Crew(f) /\ worker[w].pc \in Busy /\ worker[w].pc # "reset"
    BY <1>2, <1>5 DEF Crew, Busy
  <2>2. MainSame(f) /\ QueueSame(f)
    BY <1>2, Same DEF MainSame
  <2>3. Crew(f)' = Crew(f) \ {w}
    <3>1. /\ worker'[w].pc = "idle"
          /\ \A v \in Workers \ {w} : worker'[v] = worker[v]
      BY <1>2, <1>3 DEF TypeOK, PoolType
    <3> HIDE DEF fd
    <3> QED
      BY <3>1 DEF Crew
  <2>4. CASE sock[f].open
    <3>1. /\ obj[f].set /\ epoll[f] # "none" /\ f \notin dropped
          /\ InBatch(f) = 0 /\ InWrite(f) = 0 /\ InQueue(f) = 0
          /\ InHand(f) = 1 /\ Crew(f) = {w}
      BY <2>1, <2>4, HeldByWorker
    <3>2. InHand(f)' = 0
      <4>1. worker[w].fd = f /\ worker[w].pc \in Busy /\ Idle.pc \notin Busy
        BY <1>3, <1>5, <2>1 DEF Busy
      <4>2. InHand(f)' = InHand(f) - 1 + 0
        BY <1>2, <4>1, HandMoves DEF One
      <4> QED
        BY <3>1, <4>2
    <3>3. Crew(f)' = {}
      BY <2>3, <3>1
    <3> QED
      BY <1>1, <1>2, <1>5, <2>2, <2>4, <3>1, <3>2, <3>3, Armed DEF MainSame, QueueSame
  <2>5. CASE ~sock[f].open
    <3>1. ClosedInv(f)
      BY <2>5 DEF ConnInv
    <3>2. epoll[f] = "none" /\ Crew(f) = {w} /\ ~obj[f].set
      BY <2>1, <3>1 DEF ClosedInv
    <3>3. UNCHANGED epoll /\ Crew(f)' = {}
      BY <1>1, <1>5, <2>3, <3>2 DEF Arm
    <3>4. ClosedInv(f)'
      BY <1>2, <2>2, <3>1, <3>2, <3>3 DEF ClosedInv, MainSame, QueueSame
    <3> QED
      BY <1>2, <2>5, <3>4 DEF ConnInv
  <2> QED
    BY <2>4, <2>5
<1> QED
  BY <1>4, <1>5

\* It closes its connection: removefd, m_sockfd = -1, --m_user_count.
LEMMA HandWorkerCloses ==
    ASSUME TypeOK, ThreadInv, NEW f \in Fds, ConnInv(f), NEW w \in Workers,
           WorkerClose(w) \/ WorkerReset(w) \/ WorkerLoad(w) \/ WorkerStore(w)
    PROVE  ConnInv(f)'
<1> DEFINE fd == worker[w].fd
<1>1. worker[w].pc \in {"close", "reset", "load", "store"}
  BY DEF WorkerClose, WorkerReset, WorkerLoad, WorkerStore, WStep
<1>2. fd \in Fds /\ worker[w] \in WorkerState
  BY <1>1 DEF ThreadInv, TypeOK, PoolType
<1>3. UNCHANGED <<pc, events, out, queue, dropped>>
  BY DEF WorkerClose, WorkerReset, WorkerLoad, WorkerStore, mainVars, history
<1>4. PICK r : /\ worker' = [worker EXCEPT ![w] = r] /\ r.fd = fd
               /\ WorkerClose(w) => Goto(w, r.pc) /\ r.pc \in {"reset", "answer"}
               /\ WorkerReset(w) => r.pc = "load"
               /\ WorkerLoad(w) => r.pc = "store"
               /\ WorkerStore(w) => r.pc = "answer"
  <2>1. /\ WorkerClose(w) => worker[w].pc = "close"
        /\ WorkerReset(w) => worker[w].pc = "reset"
        /\ WorkerLoad(w) => worker[w].pc = "load"
        /\ WorkerStore(w) => worker[w].pc = "store"
    BY DEF WorkerClose, WorkerReset, WorkerLoad, WorkerStore, WStep
  <2>2. CASE WorkerClose(w)
    <3>1. PICK to \in {"reset", "answer"} : Goto(w, to)
      BY <2>2 DEF WorkerClose
    <3> DEFINE r == [worker[w] EXCEPT !.pc = to]
    <3>2. r.pc = to /\ r.fd = fd /\ worker' = [worker EXCEPT ![w] = r]
      BY <1>2, <3>1 DEF WorkerState, Goto
    <3>3. Goto(w, r.pc) /\ r.pc \in {"reset", "answer"}
      BY <3>1, <3>2
    <3> QED
      BY <2>1, <2>2, <3>2, <3>3
  <2>3. CASE WorkerReset(w)
    <3> DEFINE r == [worker[w] EXCEPT !.pc = "load"]
    <3>1. r.pc = "load" /\ r.fd = fd /\ worker' = [worker EXCEPT ![w] = r]
      BY <1>2, <2>3 DEF WorkerState, WorkerReset, Goto
    <3> QED
      BY <2>1, <2>3, <3>1
  <2>4. CASE WorkerLoad(w)
    <3> DEFINE r == [worker[w] EXCEPT !.pc = "store", !.count = m_user_count]
    <3>1. r.pc = "store" /\ r.fd = fd
      BY <1>2 DEF WorkerState
    <3>2. worker' = [worker EXCEPT ![w] = r]
      BY <2>4 DEF WorkerLoad
    <3> QED
      BY <2>1, <2>4, <3>1, <3>2
  <2>5. CASE WorkerStore(w)
    <3> DEFINE r == [worker[w] EXCEPT !.pc = "answer", !.count = 0]
    <3>1. r.pc = "answer" /\ r.fd = fd
      BY <1>2 DEF WorkerState
    <3>2. worker' = [worker EXCEPT ![w] = r]
      <4>1. worker' = [worker EXCEPT ![w].pc = "answer", ![w].count = 0]
        BY <2>5 DEF WorkerStore
      <4> QED
        BY <4>1
    <3> QED
      BY <2>1, <2>5, <3>1, <3>2
  <2> QED
    BY <2>2, <2>3, <2>4, <2>5
<1>5. CASE f # fd
  <2>1. LinkSame(f)
    <3>1. CASE WorkerClose(w)
      BY <1>2, <1>3, <1>5, <3>1, ElseSame DEF WorkerClose, LinkSame
    <3>2. CASE WorkerReset(w)
      BY <1>2, <1>3, <1>5, <3>2 DEF WorkerReset, LinkSame, TypeOK, ObjectType
    <3>3. CASE WorkerLoad(w) \/ WorkerStore(w)
      BY <1>3, <3>3 DEF WorkerLoad, WorkerStore, LinkSame
    <3> QED
      BY <3>1, <3>2, <3>3
  <2> QED
    BY <1>3, <1>4, <1>5, <2>1, HandOthers
<1>6. CASE f = fd
  <2>1. w \in Crew(f)
    BY <1>1, <1>6 DEF Crew
  <2>2. MainSame(f) /\ QueueSame(f)
    BY <1>3, Same DEF MainSame
  <2>3. r.pc # "idle" => Crew(f)' = Crew(f) \cup {w}
    BY <1>4, <1>6, CrewMoves
  <2>4. worker'[w] = r
    BY <1>4, CrewMoves
  <2>5. CASE WorkerClose(w)
    <3>1. worker[w].pc = "close" /\ worker[w].pc \in Busy
      BY <2>5 DEF WorkerClose, WStep, Busy
    <3>2. /\ obj[f].set /\ InBatch(f) = 0 /\ InWrite(f) = 0 /\ InQueue(f) = 0
          /\ Crew(f) = {w}
      BY <2>1, <3>1, HeldByWorker
    <3>3. Remove(f) /\ Goto(w, "reset") /\ UNCHANGED obj
      BY <1>6, <2>5, <3>2 DEF WorkerClose
    <3>4. r.pc = "reset"
      <4>1. [worker[w] EXCEPT !.pc = "reset"].pc = "reset"
        BY <1>2 DEF WorkerState
      <4>2. worker'[w] = [worker[w] EXCEPT !.pc = "reset"]
        BY <3>3 DEF Goto, TypeOK, PoolType
      <4> QED
        BY <2>4, <4>1, <4>2
    <3>5. Crew(f)' = {w}
      BY <2>3, <3>2, <3>4
    <3>6. ~sock'[f].open /\ epoll'[f] = "none"
      BY <3>3 DEF Remove, Closed, TypeOK, SocketType
    <3>7. ClosedInv(f)'
      BY <2>2, <2>4, <3>2, <3>3, <3>4, <3>5, <3>6
      DEF ClosedInv, MainSame, QueueSame, Closing
    <3> QED
      BY <3>6, <3>7 DEF ConnInv
  <2>6. CASE WorkerReset(w) \/ WorkerLoad(w) \/ WorkerStore(w)
    <3>1. worker[w].pc \in Closing
      BY <2>6 DEF WorkerReset, WorkerLoad, WorkerStore, WStep, Closing
    <3>2. ~sock[f].open
      BY <2>1, <3>1 DEF ConnInv, OpenInv, Busy, Closing
    <3>3. ClosedInv(f)
      BY <3>2 DEF ConnInv
    <3>4. Crew(f) = {w} /\ (obj[f].set <=> worker[w].pc = "reset")
      BY <2>1, <3>3 DEF ClosedInv
    <3>5. /\ r.pc \in Closing \cup {"answer"} /\ r.pc # "reset"
          /\ r.pc # "idle" /\ UNCHANGED <<sock, epoll>>
      BY <1>4, <2>6 DEF WorkerReset, WorkerLoad, WorkerStore, Closing
    <3>6. Crew(f)' = {w}
      BY <2>3, <3>4, <3>5
    <3>7. ~obj'[f].set
      <4>1. CASE WorkerReset(w)
        <5>1. obj[f] \in Object /\ obj' = [obj EXCEPT ![f] = [obj[f] EXCEPT !.set = FALSE]]
          BY <1>6, <4>1 DEF WorkerReset, TypeOK, ObjectType
        <5> QED
          BY <5>1 DEF TypeOK, ObjectType, Object
      <4>2. CASE WorkerLoad(w) \/ WorkerStore(w)
        BY <3>4, <4>2 DEF WorkerLoad, WorkerStore, WStep
      <4> QED
        BY <2>6, <4>1, <4>2
    <3>8. ClosedInv(f)'
      BY <2>2, <2>4, <3>3, <3>5, <3>6, <3>7 DEF ClosedInv, MainSame, QueueSame
    <3> QED
      BY <3>2, <3>5, <3>8 DEF ConnInv
  <2> QED
    BY <2>5, <2>6
<1> QED
  BY <1>5, <1>6

\* Clients open and close no socket.
LEMMA ClientsKeep ==
    ASSUME TypeOK, NEW f \in Fds,
           \/ Connect \/ UNCHANGED vars
           \/ \E fd \in Fds : Say(fd) \/ Drain(fd) \/ HangUp(fd)
    PROVE  sock'[f].open = sock[f].open
<1>1. CASE Connect \/ UNCHANGED vars
  BY <1>1 DEF Connect, vars
<1>2. ASSUME NEW fd \in Fds, Say(fd) \/ Drain(fd) \/ HangUp(fd)
      PROVE  sock'[f].open = sock[f].open
  <2>1. sock[fd] \in Socket
    BY DEF TypeOK, SocketType
  <2>2. PICK s : sock' = [sock EXCEPT ![fd] = s] /\ s.open = sock[fd].open
    <3>1. CASE SayPart(fd)
      <4> DEFINE s == [sock[fd] EXCEPT !.asks = "part", !.unread = "part"]
      <4>1. sock' = [sock EXCEPT ![fd] = s]
        BY <3>1 DEF SayPart
      <4>2. s.open = sock[fd].open
        BY <2>1 DEF Socket
      <4> QED
        BY <4>1, <4>2
    <3>2. CASE SayAll(fd)
      <4>1. PICK what \in Asked :
              sock' = [sock EXCEPT ![fd] = [sock[fd] EXCEPT !.asks = "waits", !.unread = what]]
        BY <3>2 DEF SayAll
      <4> DEFINE s == [sock[fd] EXCEPT !.asks = "waits", !.unread = what]
      <4>2. s.open = sock[fd].open
        BY <2>1 DEF Socket
      <4> QED
        BY <4>1, <4>2
    <3>3. CASE Drain(fd)
      <4> DEFINE s == [sock[fd] EXCEPT !.buffer = 0]
      <4>1. sock' = [sock EXCEPT ![fd] = s] /\ s.open = sock[fd].open
        BY <2>1, <3>3 DEF Drain, Socket
      <4> QED
        BY <4>1
    <3>4. CASE HangUp(fd)
      <4> DEFINE s == [sock[fd] EXCEPT !.fin = TRUE]
      <4>1. sock' = [sock EXCEPT ![fd] = s] /\ s.open = sock[fd].open
        BY <2>1, <3>4 DEF HangUp, Socket
      <4> QED
        BY <4>1
    <3>5. CASE SayOverlooked(fd)
      <4> DEFINE s == [sock[fd] EXCEPT !.asks = "overlooked", !.unread = "overlooked"]
      <4>1. sock' = [sock EXCEPT ![fd] = s]
        BY <3>5 DEF SayOverlooked
      <4>2. s.open = sock[fd].open
        BY <2>1 DEF Socket
      <4> QED
        BY <4>1, <4>2
    <3> QED
      BY <1>2, <3>1, <3>2, <3>3, <3>4, <3>5 DEF Say
  <2> QED
    BY <2>2 DEF TypeOK, SocketType
<1> QED
  BY <1>1, <1>2

\* Clients touch nobody's hands.
LEMMA HandClient ==
    ASSUME TypeOK, NEW f \in Fds, ConnInv(f),
           \/ Connect \/ UNCHANGED vars
           \/ \E fd \in Fds : Say(fd) \/ Drain(fd) \/ HangUp(fd)
    PROVE  ConnInv(f)'
<1>1. UNCHANGED <<pc, events, out, queue, worker, obj, epoll, dropped>>
  BY DEF Connect, vars, Say, SayPart, SayAll, SayOverlooked, Drain, HangUp, Client, mainVars, poolVars, history
<1>2. sock'[f].open = sock[f].open
  BY ClientsKeep
<1> QED
  BY <1>1, <1>2, Same, ConnSame DEF MainSame, LinkSame

LEMMA HandStep == TypeOK /\ ThreadInv /\ HandInv /\ [Next]_vars => HandInv'
<1> SUFFICES ASSUME TypeOK, ThreadInv, HandInv, [Next]_vars, "descriptor" \notin raced',
                    NEW f \in Fds
             PROVE  ConnInv(f)'
  BY DEF HandInv
<1>1. ConnInv(f)
  BY RaceStays DEF HandInv
<1>2. CASE Main
  BY <1>1, <1>2, HandWait, HandAccept, HandEvent, HandWrite DEF Main
<1>3. ASSUME NEW w \in Workers, Work(w) PROVE ConnInv(f)'
  BY <1>1, <1>3, HandTake, HandProcess, HandRearm, HandWorkerCloses DEF Work
<1> QED
  BY <1>1, <1>2, <1>3, HandClient DEF Next

LEMMA HandInvariant == Spec => [](TypeOK /\ ThreadInv /\ HandInv)
BY TypeInit, HandInit, TypeStep, ThreadStep, HandStep, PTL DEF Spec

\* Of every open connection somebody has hold, and nobody else: the epoll
\* table, an event of main's batch, main in write(), the pool's queue or a
\* worker.  A connection whose request the pool has refused is in nobody's
\* hands.  (Until accept() returns a descriptor that a worker has closed and
\* not yet left.)
THEOREM OneHolderCorrect == Spec => []OneHolder
<1>1. HandInv => OneHolder
  BY DEF HandInv, OneHolder, ConnInv, OpenInv
<1> QED
  BY <1>1, HandInvariant, PTL

-----------------------------------------------------------------------------
(* Counting connections.                                                   *)

LEMMA OpenedMoves ==
    ASSUME TypeOK, NEW fd \in Fds,
           \A g \in Fds : g # fd => sock'[g].open = sock[g].open
    PROVE  /\ Cardinality(Opened) \in Nat
           /\ Cardinality(Opened)' = Cardinality(Opened) - One(sock[fd].open)
                                                         + One(sock'[fd].open)
<1> DEFINE A == Opened
           B == Opened'
<1>1. A \ {fd} = B \ {fd} /\ (fd \in A <=> sock[fd].open) /\ (fd \in B <=> sock'[fd].open)
  BY DEF Opened
<1>2. IsFiniteSet(A)
  BY FS_Subset DEF Opened
<1> HIDE DEF A, B
<1>3. /\ Cardinality(A) \in Nat
      /\ Cardinality(B) = Cardinality(A) - One(fd \in A) + One(fd \in B)
  BY <1>1, <1>2, OneDiffers
<1> QED
  BY <1>1, <1>3 DEF A, B, One

LEMMA LeavingMoves ==
    ASSUME TypeOK, NEW w \in Workers, NEW r, worker' = [worker EXCEPT ![w] = r]
    PROVE  /\ Cardinality(Leaving) \in Nat
           /\ Cardinality(Leaving)' = Cardinality(Leaving) - One(worker[w].pc \in Closing)
                                                           + One(r.pc \in Closing)
<1> DEFINE A == Leaving
           B == Leaving'
<1>0. worker'[w] = r /\ \A v \in Workers \ {w} : worker'[v] = worker[v]
  BY DEF TypeOK, PoolType
<1>1. /\ A \ {w} = B \ {w}
      /\ w \in A <=> worker[w].pc \in Closing
      /\ w \in B <=> r.pc \in Closing
  BY <1>0 DEF Leaving
<1>2. IsFiniteSet(A)
  BY FS_Subset DEF Leaving
<1> HIDE DEF A, B
<1>3. /\ Cardinality(A) \in Nat
      /\ Cardinality(B) = Cardinality(A) - One(w \in A) + One(w \in B)
  BY <1>1, <1>2, OneDiffers
<1> QED
  BY <1>1, <1>3 DEF A, B, One

\* What does not open or close a connection.
LEMMA CountSame ==
    ASSUME CountInv, raced = {}, UNCHANGED m_user_count,
           \A f \in Fds : sock'[f].open = sock[f].open,
           \A w \in Workers : /\ worker'[w].pc \in Closing <=> worker[w].pc \in Closing
                              /\ worker'[w].pc = "store" =>
                                   worker[w].pc = "store" /\ worker'[w].count = worker[w].count
    PROVE  CountInv'
<1>1. Opened' = Opened /\ Leaving' = Leaving
  BY DEF Opened, Leaving
<1> QED
  BY <1>1 DEF CountInv

LEMMA CountInit == Init => CountInv
<1> SUFFICES ASSUME Init PROVE CountInv
  OBVIOUS
<1>1. Opened = {} /\ Leaving = {}
  BY DEF Init, Opened, Leaving, Closed, Idle, Closing
<1>2. \A w \in Workers : worker[w].pc # "store"
  BY DEF Init, Idle
<1> QED
  BY <1>1, <1>2, FS_EmptySet DEF CountInv, Init

\* Main closes the connection it has, or leaves it alone.
LEMMA CountCloseConn ==
    ASSUME TypeOK, ThreadInv, CountInv, raced = {}, raced' = {}, NEW fd \in Fds, ConnInv(fd),
           InBatch(fd) + InWrite(fd) + InQueue(fd) >= 1, CloseConn(fd), UNCHANGED worker
    PROVE  CountInv'
<1>1. sock[fd].open /\ obj[fd].set
  BY Held
<1>2. Remove(fd) /\ m_user_count' = m_user_count - 1 /\ raced' = CountRace(Workers)
  BY <1>1 DEF CloseConn
<1>3. ~sock'[fd].open /\ \A g \in Fds : g # fd => sock'[g].open = sock[g].open
  BY <1>2 DEF Remove, Closed, TypeOK, SocketType
<1>4. Cardinality(Opened)' = Cardinality(Opened) - 1 /\ Cardinality(Opened) \in Nat
  <2>1. One(sock[fd].open) = 1 /\ One(sock'[fd].open) = 0
    BY <1>1, <1>3 DEF One
  <2>2. /\ Cardinality(Opened) \in Nat
        /\ Cardinality(Opened)' = Cardinality(Opened) - One(sock[fd].open)
                                                      + One(sock'[fd].open)
    BY <1>3, OpenedMoves
  <2> QED
    BY <2>1, <2>2
<1>5. Leaving' = Leaving /\ Cardinality(Leaving) \in Nat
  BY FS_Subset, FS_CardinalityType DEF Leaving
<1>6. \A w \in Workers : worker[w].pc # "store"
  BY <1>2 DEF CountRace
<1>7. m_user_count' = Cardinality(Opened)' + Cardinality(Leaving)'
  BY <1>2, <1>4, <1>5 DEF CountInv
<1> QED
  BY <1>6, <1>7 DEF CountInv

LEMMA EventHeld ==
    ASSUME TypeOK, NEW fd \in Fds, NEW ev, Handling(fd, ev)
    PROVE  InBatch(fd) >= 1
<1> DEFINE B == {e \in events : e.fd = fd}
<1>1. [fd |-> fd, ev |-> ev] \in B
  BY DEF Handling
<1>2. IsFiniteSet(B) /\ InBatch(fd) = Cardinality(B)
  BY HandsFinite DEF InBatch
<1> HIDE DEF B
<1>3. Cardinality(B) \in Nat /\ Cardinality(B) # 0
  BY <1>1, <1>2, CountZero
<1> QED
  BY <1>2, <1>3

LEMMA CountMain ==
    ASSUME TypeOK, ThreadInv, CountInv, raced = {}, raced' = {},
           \A f \in Fds : ConnInv(f), Main
    PROVE  CountInv'
<1>1. UNCHANGED worker
  BY DEF Main, EpollWait, AcceptFails, ShowError, BatchEnd, WriteMore, WriteKeep,
         WriteClose, WriteLater, WriteFails, Accept, HandleHup, HandleInClose, HandleIn,
         HandleOutNothing, HandleOut, poolVars
<1>s. UNCHANGED m_user_count /\ (\A f \in Fds : sock'[f].open = sock[f].open) => CountInv'
  BY <1>1, CountSame
<1>2. CASE EpollWait \/ AcceptFails \/ ShowError \/ BatchEnd \/ WriteLater
  BY <1>2, <1>s DEF EpollWait, AcceptFails, ShowError, BatchEnd, WriteLater
<1>3. CASE WriteMore \/ WriteKeep
  <2>0. out.fd \in Fds
    BY <1>3 DEF WriteMore, WriteKeep, ThreadInv
  <2>1. UNCHANGED m_user_count
    BY <1>3 DEF WriteMore, WriteKeep
  <2>2. PICK s : sock' = [sock EXCEPT ![out.fd] = s] /\ s.open = sock[out.fd].open
    <3>1. sock[out.fd] \in Socket
      BY <2>0 DEF TypeOK, SocketType
    <3>2. CASE WriteMore
      <4>1. PICK n : sock' = [sock EXCEPT ![out.fd] = [sock[out.fd] EXCEPT !.buffer = @ + n]]
        BY <3>2 DEF WriteMore
      <4> DEFINE s == [sock[out.fd] EXCEPT !.buffer = @ + n]
      <4>2. s.open = sock[out.fd].open
        BY <3>1 DEF Socket
      <4> QED
        BY <4>1, <4>2
    <3>3. CASE WriteKeep
      <4>0. PICK n : sock' = [sock EXCEPT ![out.fd].buffer = @ + n,
                                          ![out.fd].asks = "nothing"]
        BY <3>3, Zenon DEF WriteKeep
      <4>1. sock' = [sock EXCEPT ![out.fd] = [sock[out.fd] EXCEPT !.buffer = @ + n,
                                                                  !.asks = "nothing"]]
        BY <2>0, <4>0
      <4> DEFINE s == [sock[out.fd] EXCEPT !.buffer = @ + n, !.asks = "nothing"]
      <4>2. s.open = sock[out.fd].open
        BY <3>1 DEF Socket
      <4>3. sock' = [sock EXCEPT ![out.fd] = s]
        BY <4>1
      <4> HIDE DEF s
      <4> QED
        BY <4>2, <4>3
    <3> QED
      BY <1>3, <3>2, <3>3
  <2> QED
    BY <1>s, <2>1, <2>2 DEF TypeOK, SocketType
<1>4. CASE WriteClose \/ WriteFails
  <2>1. out.fd \in Fds /\ pc = "write" /\ CloseConn(out.fd)
    BY <1>4 DEF WriteClose, WriteFails, ThreadInv
  <2>2. InWrite(out.fd) = 1
    BY <2>1 DEF InWrite, One
  <2>3. InBatch(out.fd) + InWrite(out.fd) + InQueue(out.fd) >= 1
    <3>1. InBatch(out.fd) \in Nat /\ InQueue(out.fd) \in Nat
      BY <2>1, HandTypes
    <3> QED
      BY <2>2, <3>1
  <2> QED
    BY <1>1, <2>1, <2>3, CountCloseConn
<1>5. ASSUME NEW fd \in Fds, HandleHup(fd) \/ HandleInClose(fd) PROVE CountInv'
  <2>1. CloseConn(fd) /\ \E ev : Handling(fd, ev)
    BY <1>5 DEF HandleHup, HandleInClose
  <2>2. InBatch(fd) >= 1
    BY <2>1, EventHeld
  <2>3. InBatch(fd) + InWrite(fd) + InQueue(fd) >= 1
    BY <2>2, HandTypes
  <2> QED
    BY <1>1, <2>1, <2>3, CountCloseConn
<1>6. ASSUME NEW fd \in Fds, HandleIn(fd) PROVE CountInv'
  <2>1. sock' = [sock EXCEPT ![fd] = [sock[fd] EXCEPT !.unread = "none"]]
    BY <1>6 DEF HandleIn
  <2> DEFINE s == [sock[fd] EXCEPT !.unread = "none"]
  <2>2. s.open = sock[fd].open
    BY DEF TypeOK, SocketType, Socket
  <2>3. sock' = [sock EXCEPT ![fd] = s]
    BY <2>1
  <2> HIDE DEF s
  <2>4. UNCHANGED m_user_count
    BY <1>6 DEF HandleIn
  <2> QED
    BY <1>s, <2>2, <2>3, <2>4 DEF TypeOK, SocketType
<1>7. ASSUME NEW fd \in Fds, HandleOutNothing(fd) \/ HandleOut(fd) PROVE CountInv'
  BY <1>7, <1>s DEF HandleOutNothing, HandleOut
<1>8. ASSUME NEW fd \in Fds, Accept(fd) PROVE CountInv'
  <2>1. /\ ~sock[fd].open /\ m_user_count' = m_user_count + 1
        /\ sock' = [sock EXCEPT ![fd] = [Closed EXCEPT !.open = TRUE]]
        /\ CountRace(Workers) \subseteq raced'
    BY <1>8 DEF Accept, IsLowest
  <2>2. sock'[fd].open /\ \A g \in Fds : g # fd => sock'[g].open = sock[g].open
    BY <2>1 DEF TypeOK, SocketType, Closed
  <2>3. Cardinality(Opened)' = Cardinality(Opened) + 1 /\ Cardinality(Opened) \in Nat
    <3>1. One(sock[fd].open) = 0 /\ One(sock'[fd].open) = 1
      BY <2>1, <2>2 DEF One
    <3>2. /\ Cardinality(Opened) \in Nat
          /\ Cardinality(Opened)' = Cardinality(Opened) - One(sock[fd].open)
                                                        + One(sock'[fd].open)
      BY <2>2, OpenedMoves
    <3> QED
      BY <3>1, <3>2
  <2>4. Leaving' = Leaving /\ Cardinality(Leaving) \in Nat
    BY <1>1, FS_Subset, FS_CardinalityType DEF Leaving
  <2>5. \A w \in Workers : worker[w].pc # "store"
    BY <2>1 DEF CountRace
  <2>6. m_user_count' = Cardinality(Opened)' + Cardinality(Leaving)'
    BY <2>1, <2>3, <2>4 DEF CountInv
  <2> QED
    BY <1>1, <2>5, <2>6 DEF CountInv
<1> QED
  BY <1>2, <1>3, <1>4, <1>5, <1>6, <1>7, <1>8 DEF Main

LEMMA CountWork ==
    ASSUME TypeOK, ThreadInv, CountInv, raced = {}, raced' = {},
           \A f \in Fds : ConnInv(f), NEW w \in Workers, Work(w)
    PROVE  CountInv'
<1>r. worker[w] \in WorkerState
  BY DEF TypeOK, PoolType
<1>s. ASSUME NEW r, worker' = [worker EXCEPT ![w] = r], UNCHANGED <<m_user_count, sock>>,
             r.pc \in Closing <=> worker[w].pc \in Closing, r.pc # "store"
      PROVE  CountInv'
  <2>1. worker'[w] = r /\ \A v \in Workers \ {w} : worker'[v] = worker[v]
    BY <1>s DEF TypeOK, PoolType
  <2> QED
    BY <1>s, <2>1, CountSame
<1>1. CASE Take(w)
  <2> DEFINE r == [Idle EXCEPT !.pc = "process", !.fd = Head(queue)]
  <2>1. r.pc = "process"
    BY DEF Idle
  <2>2. worker' = [worker EXCEPT ![w] = r] /\ worker[w].pc = "idle"
    BY <1>1 DEF Take, WStep
  <2> HIDE DEF r
  <2> QED
    BY <1>1, <1>s, <2>1, <2>2 DEF Take, Closing
<1>2. CASE Process(w)
  <2>1. PICK to \in {"more", "answer", "close"} : Goto(w, to)
    BY <1>2 DEF Process
  <2> DEFINE r == [worker[w] EXCEPT !.pc = to]
  <2>2. r.pc = to
    BY <1>r DEF WorkerState
  <2>3. worker' = [worker EXCEPT ![w] = r] /\ worker[w].pc = "process"
    BY <1>2, <2>1 DEF Process, WStep, Goto
  <2> HIDE DEF r
  <2> QED
    BY <1>2, <1>s, <2>2, <2>3 DEF Process, Closing
<1>3. CASE Rearm(w)
  <2>1. worker' = [worker EXCEPT ![w] = Idle] /\ worker[w].pc \in {"more", "answer"}
    BY <1>3 DEF Rearm, WStep
  <2>2. Idle.pc = "idle"
    BY DEF Idle
  <2> QED
    BY <1>3, <1>s, <2>1, <2>2 DEF Rearm, Closing
<1>4. CASE WorkerClose(w)
  <2> DEFINE fd == worker[w].fd
             r == [worker[w] EXCEPT !.pc = "reset"]
  <2>1. worker[w].pc = "close" /\ UNCHANGED m_user_count
    BY <1>4 DEF WorkerClose, WStep
  <2>2. fd \in Fds /\ w \in Crew(fd) /\ worker[w].pc \in Busy
    BY <2>1 DEF ThreadInv, Crew, Busy
  <2>3. sock[fd].open /\ obj[fd].set
    BY <2>1, <2>2, HeldByWorker
  <2>4. Remove(fd) /\ Goto(w, "reset")
    BY <1>4, <2>3 DEF WorkerClose
  <2>5. r.pc = "reset"
    BY <1>r DEF WorkerState
  <2>6. worker' = [worker EXCEPT ![w] = r]
    BY <2>4 DEF Goto
  <2>7. ~sock'[fd].open /\ \A g \in Fds : g # fd => sock'[g].open = sock[g].open
    BY <2>2, <2>4 DEF Remove, Closed, TypeOK, SocketType
  <2> HIDE DEF fd, r
  <2>8. Cardinality(Opened)' = Cardinality(Opened) - 1 /\ Cardinality(Opened) \in Nat
    <3>1. One(sock[fd].open) = 1 /\ One(sock'[fd].open) = 0
      BY <2>3, <2>7 DEF One
    <3>2. /\ Cardinality(Opened) \in Nat
          /\ Cardinality(Opened)' = Cardinality(Opened) - One(sock[fd].open)
                                                        + One(sock'[fd].open)
      BY <2>2, <2>7, OpenedMoves
    <3> QED
      BY <3>1, <3>2
  <2>9. Cardinality(Leaving)' = Cardinality(Leaving) + 1 /\ Cardinality(Leaving) \in Nat
    <3>1. One(worker[w].pc \in Closing) = 0 /\ One(r.pc \in Closing) = 1
      BY <2>1, <2>5 DEF One, Closing
    <3>2. /\ Cardinality(Leaving) \in Nat
          /\ Cardinality(Leaving)' = Cardinality(Leaving) - One(worker[w].pc \in Closing)
                                                          + One(r.pc \in Closing)
      BY <2>6, LeavingMoves
    <3> QED
      BY <3>1, <3>2
  <2>10. m_user_count' = Cardinality(Opened)' + Cardinality(Leaving)'
    BY <2>1, <2>8, <2>9 DEF CountInv
  <2>11. \A v \in Workers : worker'[v].pc = "store" => worker'[v].count = m_user_count
    BY <2>5, <2>6 DEF CountInv, TypeOK, PoolType
  <2> QED
    BY <2>1, <2>10, <2>11 DEF CountInv
<1>5. CASE WorkerReset(w)
  <2> DEFINE r == [worker[w] EXCEPT !.pc = "load"]
  <2>1. r.pc = "load"
    BY <1>r DEF WorkerState
  <2>2. worker' = [worker EXCEPT ![w] = r] /\ worker[w].pc = "reset"
    BY <1>5 DEF WorkerReset, WStep, Goto
  <2> HIDE DEF r
  <2> QED
    BY <1>5, <1>s, <2>1, <2>2 DEF WorkerReset, Closing
<1>6. CASE WorkerLoad(w)
  <2> DEFINE r == [worker[w] EXCEPT !.pc = "store", !.count = m_user_count]
  <2>1. r.pc = "store" /\ r.count = m_user_count
    BY <1>r DEF WorkerState
  <2>2. worker' = [worker EXCEPT ![w] = r]
    BY <1>6 DEF WorkerLoad
  <2>3. worker[w].pc = "load" /\ UNCHANGED <<sock, m_user_count>>
    BY <1>6 DEF WorkerLoad, WStep
  <2> HIDE DEF r
  <2>4. worker'[w] = r /\ \A v \in Workers \ {w} : worker'[v] = worker[v]
    BY <2>2 DEF TypeOK, PoolType
  <2>5. Opened' = Opened /\ Leaving' = Leaving
    BY <2>1, <2>3, <2>4 DEF Opened, Leaving, Closing
  <2>6. \A v \in Workers : worker'[v].pc = "store" => worker'[v].count = m_user_count
    BY <2>1, <2>4 DEF CountInv
  <2> QED
    BY <2>3, <2>5, <2>6 DEF CountInv
<1>7. CASE WorkerStore(w)
  <2> DEFINE r == [worker[w] EXCEPT !.pc = "answer", !.count = 0]
  <2>1. r.pc = "answer"
    BY <1>r DEF WorkerState
  <2>2. worker' = [worker EXCEPT ![w] = r]
    <3>1. worker' = [worker EXCEPT ![w].pc = "answer", ![w].count = 0]
      BY <1>7 DEF WorkerStore
    <3> QED
      BY <3>1
  <2> HIDE DEF r
  <2>3. worker[w].pc = "store" /\ UNCHANGED sock /\ raced' = CountRace(Workers \ {w})
    BY <1>7 DEF WorkerStore, WStep
  <2>4. m_user_count' = m_user_count - 1
    BY <1>7, <2>3 DEF WorkerStore, CountInv
  <2>5. Opened' = Opened /\ Cardinality(Opened) \in Nat
    BY <2>3, FS_Subset, FS_CardinalityType DEF Opened
  <2>6. Cardinality(Leaving)' = Cardinality(Leaving) - 1 /\ Cardinality(Leaving) \in Nat
    <3>1. One(worker[w].pc \in Closing) = 1 /\ One(r.pc \in Closing) = 0
      BY <2>1, <2>3 DEF One, Closing
    <3>2. /\ Cardinality(Leaving) \in Nat
          /\ Cardinality(Leaving)' = Cardinality(Leaving) - One(worker[w].pc \in Closing)
                                                          + One(r.pc \in Closing)
      BY <2>2, LeavingMoves
    <3> QED
      BY <3>1, <3>2
  <2>7. m_user_count' = Cardinality(Opened)' + Cardinality(Leaving)'
    BY <2>4, <2>5, <2>6 DEF CountInv
  <2>8. \A v \in Workers : worker'[v].pc # "store"
    BY <2>1, <2>2, <2>3 DEF CountRace, TypeOK, PoolType
  <2> QED
    BY <2>7, <2>8 DEF CountInv
<1> QED
  BY <1>1, <1>2, <1>3, <1>4, <1>5, <1>6, <1>7 DEF Work

LEMMA CountStep == TypeOK /\ ThreadInv /\ HandInv /\ CountInv /\ [Next]_vars => CountInv'
<1> SUFFICES ASSUME TypeOK, ThreadInv, HandInv, CountInv, [Next]_vars, raced' = {}
             PROVE  CountInv'
  BY DEF CountInv
<1>1. raced = {}
  BY RaceStays
<1>2. \A f \in Fds : ConnInv(f)
  BY <1>1 DEF HandInv
<1>3. ASSUME NEW w \in Workers, Work(w) PROVE CountInv'
  BY <1>1, <1>2, <1>3, CountWork
<1>4. CASE \/ Connect \/ UNCHANGED vars
           \/ \E fd \in Fds : Say(fd) \/ Drain(fd) \/ HangUp(fd)
  <2>1. UNCHANGED <<worker, m_user_count>>
    BY <1>4 DEF Connect, vars, Say, SayPart, SayAll, SayOverlooked, Drain, HangUp, Client, poolVars
  <2>2. \A f \in Fds : sock'[f].open = sock[f].open
    BY <1>4, ClientsKeep
  <2> QED
    BY <1>1, <2>1, <2>2, CountSame
<1> QED
  BY <1>1, <1>2, <1>3, <1>4, CountMain DEF Next

LEMMA Invariant == Spec => []IInv
<1>1. Init => IInv
  BY TypeInit, HandInit, CountInit DEF IInv
<1>2. IInv /\ [Next]_vars => IInv'
  BY TypeStep, ThreadStep, HandStep, CountStep DEF IInv
<1> QED
  BY <1>1, <1>2, PTL DEF Spec

\* users[fd] is in use exactly as long as the descriptor is open or the worker
\* that has closed it is about to say so: no descriptor is leaked, none closed
\* twice.  And m_user_count counts the connections, until two threads change it
\* at the same time.
THEOREM ObjectsMatchCorrect == Spec => []ObjectsMatch
<1>1. ASSUME HandInv, "descriptor" \notin raced, NEW fd \in Fds
      PROVE  obj[fd].set <=> \/ sock[fd].open
                             \/ \E w \in Workers : worker[w].fd = fd /\ worker[w].pc = "reset"
  <2>1. ConnInv(fd)
    BY <1>1 DEF HandInv
  <2>2. CASE sock[fd].open
    BY <2>1, <2>2 DEF ConnInv, OpenInv
  <2>3. CASE ~sock[fd].open
    BY <2>1, <2>3 DEF ConnInv, ClosedInv, Crew
  <2> QED
    BY <2>2, <2>3
<1>2. IInv => ObjectsMatch
  BY <1>1 DEF IInv, ObjectsMatch, CountInv, Opened, Leaving
<1> QED
  BY <1>2, Invariant, PTL
=============================================================================
