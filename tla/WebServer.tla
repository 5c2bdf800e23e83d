------------------------------ MODULE WebServer ------------------------------
(***************************************************************************)
(* The web server of "15-6 WebServer.cpp" with the connections of          *)
(* "15-4 http_conn.h" and "15-5 http_conn.cpp".  The main thread accepts,  *)
(* reads and writes; workers of the thread pool parse and answer.  Nothing *)
(* is locked: EPOLLONESHOT is to give every connection to one thread at a  *)
(* time, who passes it on by arming its descriptor again.                  *)
(*                                                                         *)
(* The pool is what ThreadPool shows it to be when its lock releases.      *)
(* Requests are abstracted to what is asked for, responses to their size.  *)
(***************************************************************************)
EXTENDS Integers, Sequences, FiniteSets

CONSTANTS
    Fds,          \* descriptors that accept() may return
    Workers,
    MAX_FD,
    QueueLimit,   \* the pool's max_requests
    HeadLen,      \* length of what is in m_write_buf
    FileLen,      \* length of the file
    SndBuf,       \* what the send buffer of a socket holds
    AfterBatch,   \* what main does after a batch of events, see BatchEnd
    MaxConns,     \* bound: connections that clients make
    MaxSaid       \* bound: pieces of requests that clients send

ASSUME FdsAssumption == Fds \subseteq Nat \ {0} /\ IsFiniteSet(Fds)
ASSUME WorkersAssumption == IsFiniteSet(Workers)
ASSUME LimitAssumption == MAX_FD \in Nat /\ QueueLimit \in Nat
ASSUME SizeAssumption ==
    /\ HeadLen \in Nat \ {0} /\ FileLen \in Nat \ {0} /\ SndBuf \in Nat
    /\ HeadLen <= SndBuf
ASSUME BatchAssumption == AfterBatch \in SUBSET {"loop", "return"}
ASSUME BoundAssumption == MaxConns \in Nat /\ MaxSaid \in Nat

VARIABLES
    pc,           \* where main is: wait, batch, write, exited
    events,       \* reported, not yet handled events
    out,          \* the locals of write(): its descriptor, bytes_to_send and
                  \* bytes_have_send
    queue,        \* requests in the pool, by descriptor
    worker,       \* the workers, see WorkerState
    obj,          \* users[], see Object
    m_user_count,
    epoll,        \* what a descriptor is registered for: IN, OUT, off (reported
                  \* and not armed again), none
    sock,         \* the connections' sockets, see Socket
    backlog,      \* clients waiting for accept()
    newConn,      \* whether the epoll table has an edge of listenfd
    raced,        \* history: races that have occurred, see Races
    dropped,      \* history: descriptors whose request append() has refused
    cut,          \* history: a response counted as sent that is not intact
    arrived, said \* what the clients have spent of their bounds

mainVars   == <<pc, events, out>>
poolVars   == <<queue, worker>>
listenVars == <<backlog, newConn>>
history    == <<raced, dropped, cut>>
bounds     == <<arrived, said>>
vars == <<pc, events, out, queue, worker, obj, m_user_count, epoll, sock, backlog,
          newConn, raced, dropped, cut, arrived, said>>

-----------------------------------------------------------------------------
\* What a request may ask for: a file, an empty file, or something that is
\* answered by a page (400, 403, 404).  One that is complete may still be taken
\* for the beginning of one: if a line of it is bad, or if its body does not come
\* in one piece with the end of its header (HttpParser).
Asked == {"file", "empty", "page"}
Unfinished == {"none", "part", "overlooked"}
Pieces == Unfinished \cup Asked

\* Of an object: whether m_sockfd is set (it is its own index in users[] or
\* -1), what is in m_read_buf, m_write_idx, the length of m_iv[1], m_linger,
\* and whether a part of the response has been sent.
Object == [set : BOOLEAN, buf : Pieces, m_write_idx : {0, HeadLen},
           file : {0, FileLen}, linger : BOOLEAN, begun : BOOLEAN]
Fresh == [set |-> TRUE, buf |-> "none", m_write_idx |-> 0, file |-> 0,
          linger |-> FALSE, begun |-> FALSE]

\* Of a socket: whether it is open, what has not been read, how far the client
\* is with its request, whether it has closed, what it has not read.
Socket == [open : BOOLEAN, unread : Pieces,
           asks : {"nothing", "part", "waits", "overlooked"},
           fin : BOOLEAN, buffer : 0 .. SndBuf]
Closed == [open |-> FALSE, unread |-> "none", asks |-> "nothing", fin |-> FALSE,
           buffer |-> 0]

\* Where a worker is in process() or, behind removefd, in close_conn(), its
\* descriptor, and the copy of m_user_count that --m_user_count has loaded.
Idle == [pc |-> "idle", fd |-> 0, count |-> 0]
Busy == {"process", "more", "answer", "close"}
Closing == {"reset", "load", "store"}
WorkerState == [pc : {"idle"} \cup Busy \cup Closing, fd : Fds \cup {0}, count : Int]
Races == {"descriptor", "count"}

Listen == 0
IsLowest(fd) == fd \in Fds /\ ~sock[fd].open
                   /\ \A g \in Fds : ~sock[g].open => fd <= g

Init ==
    /\ pc = "wait" /\ events = {}
    /\ out = [fd |-> 0, to_send |-> 0, have |-> 0]
    /\ queue = <<>> /\ worker = [w \in Workers |-> Idle]
    /\ obj = [fd \in Fds |-> [Fresh EXCEPT !.set = FALSE]]
    /\ m_user_count = 0
    /\ epoll = [fd \in Fds |-> "none"] /\ sock = [fd \in Fds |-> Closed]
    /\ backlog = 0 /\ newConn = FALSE
    /\ raced = {} /\ dropped = {} /\ cut = FALSE /\ arrived = 0 /\ said = 0

-----------------------------------------------------------------------------
(* What the threads have in common.                                        *)

\* modfd(m_epollfd, m_sockfd, ev); it looks at the descriptor anew, so that
\* what is ready already counts.
Arm(fd, ev) ==
    epoll' = IF obj[fd].set /\ epoll[fd] # "none" THEN [epoll EXCEPT ![fd] = ev]
             ELSE epoll

\* removefd.
Remove(fd) ==
    /\ sock' = [sock EXCEPT ![fd] = Closed]
    /\ epoll' = [epoll EXCEPT ![fd] = "none"]

\* Somebody changes m_user_count while a worker is between load and store.
CountRace(W) ==
    IF \E w \in W : worker[w].pc = "store" THEN raced \cup {"count"} ELSE raced

\* close_conn() as main calls it.
MutForgotten(fd) == [obj EXCEPT ![fd].buf = "none"]
Forgotten(fd) == [obj EXCEPT ![fd].set = FALSE]
CloseConn(fd) ==
    \/ /\ obj[fd].set
       /\ Remove(fd) /\ obj' = Forgotten(fd)
       /\ m_user_count' = m_user_count - 1 /\ raced' = CountRace(Workers)
    \/ /\ ~obj[fd].set
       /\ UNCHANGED <<sock, epoll, obj, m_user_count, raced>>

-----------------------------------------------------------------------------
(* The main thread.                                                        *)

\* The event a descriptor that is armed for ev would be reported with; a
\* connection that the client has closed is reported as such.
Ready(fd, ev) ==
    /\ epoll[fd] \in {"IN", "OUT"}
    /\ IF sock[fd].fin THEN ev = "HUP"
       ELSE /\ ev = epoll[fd]
            /\ IF ev = "IN" THEN sock[fd].unread # "none"
               ELSE sock[fd].buffer < SndBuf
Reported == {e \in [fd : Fds, ev : {"IN", "OUT", "HUP"}] : Ready(e.fd, e.ev)}

MutDisarmed == [fd \in Fds |-> epoll[fd]]
Disarmed == [fd \in Fds |-> IF \E e \in Reported : e.fd = fd THEN "off" ELSE epoll[fd]]

EpollWait ==
    /\ pc = "wait" /\ pc' = "batch"
    /\ events' = Reported \cup (IF newConn THEN {[fd |-> Listen, ev |-> "IN"]} ELSE {})
    /\ events' # {}
    /\ epoll' = Disarmed /\ newConn' = FALSE
    /\ UNCHANGED <<out, poolVars, obj, m_user_count, sock, backlog, history, bounds>>

Handling(fd, ev) ==
    /\ pc = "batch" /\ [fd |-> fd, ev |-> ev] \in events
    /\ events' = events \ {[fd |-> fd, ev |-> ev]}

\* accept() finds that the client is gone, or has no descriptor left.
AcceptFails ==
    /\ Handling(Listen, "IN")
    /\ backlog' = IF \E fd \in Fds : IsLowest(fd) THEN backlog - 1 ELSE backlog
    /\ UNCHANGED <<pc, out, poolVars, obj, m_user_count, epoll, sock, newConn,
                   history, bounds>>

\* "Internal server busy".
ShowError ==
    /\ Handling(Listen, "IN")
    /\ m_user_count >= MAX_FD /\ \E fd \in Fds : IsLowest(fd)
    /\ backlog' = backlog - 1
    /\ UNCHANGED <<pc, out, poolVars, obj, m_user_count, epoll, sock, newConn,
                   history, bounds>>

\* accept() and init(connfd, client_address).
Accept(fd) ==
    /\ Handling(Listen, "IN")
    /\ m_user_count < MAX_FD /\ IsLowest(fd)
    /\ backlog' = backlog - 1
    /\ sock' = [sock EXCEPT ![fd] = [Closed EXCEPT !.open = TRUE]]
    /\ obj' = [obj EXCEPT ![fd] = Fresh]
    /\ epoll' = [epoll EXCEPT ![fd] = "IN"]
    /\ m_user_count' = m_user_count + 1
    /\ raced' = CountRace(Workers) \cup
          (IF \E w \in Workers : worker[w] # Idle /\ worker[w].fd = fd
           THEN {"descriptor"} ELSE {})
    /\ dropped' = dropped \ {fd}
    /\ UNCHANGED <<pc, out, poolVars, newConn, cut, bounds>>

\* EPOLLRDHUP, EPOLLHUP, EPOLLERR.
HandleHup(fd) ==
    /\ Handling(fd, "HUP")
    /\ CloseConn(fd)
    /\ UNCHANGED <<pc, out, poolVars, listenVars, dropped, cut, bounds>>

\* read() fails at the end of the stream, or for want of a descriptor; and what
\* there is to read may fill m_read_buf.
ReadFails(fd) == sock[fd].fin \/ ~obj[fd].set
HandleInClose(fd) ==
    /\ Handling(fd, "IN") /\ (ReadFails(fd) \/ sock[fd].unread # "none")
    /\ CloseConn(fd)
    /\ UNCHANGED <<pc, out, poolVars, listenVars, dropped, cut, bounds>>

HasRoom == Len(queue) <= QueueLimit

\* read() and pool->append(), whose result nobody looks at.
HandleIn(fd) ==
    /\ Handling(fd, "IN") /\ ~ReadFails(fd)
    /\ obj' = [obj EXCEPT ![fd].buf = IF sock[fd].unread = "none" THEN @
                                      ELSE sock[fd].unread]
    /\ sock' = [sock EXCEPT ![fd].unread = "none"]
    /\ IF HasRoom THEN queue' = Append(queue, fd) /\ UNCHANGED dropped
       ELSE dropped' = dropped \cup {fd} /\ UNCHANGED queue
    /\ UNCHANGED <<pc, out, worker, m_user_count, epoll, listenVars, raced, cut,
                   bounds>>

\* write() with nothing to send.
HandleOutNothing(fd) ==
    /\ Handling(fd, "OUT") /\ obj[fd].m_write_idx = 0
    /\ Arm(fd, "IN")
    /\ obj' = [obj EXCEPT ![fd] = [Fresh EXCEPT !.set = obj[fd].set]]
    /\ UNCHANGED <<pc, out, poolVars, m_user_count, sock, listenVars, history, bounds>>

\* write() up to its loop.
HandleOut(fd) ==
    /\ Handling(fd, "OUT") /\ obj[fd].m_write_idx # 0
    /\ pc' = "write"
    /\ out' = [fd |-> fd, to_send |-> obj[fd].m_write_idx, have |-> 0]
    /\ UNCHANGED <<poolVars, obj, m_user_count, epoll, sock, listenVars, history, bounds>>

Least(m, n) == IF m <= n THEN m ELSE n
Length(fd) == obj[fd].m_write_idx + obj[fd].file

\* A call of writev that sends something: m_iv still points to the beginning
\* of the response.  The test compares what was sent with what is left of
\* m_write_buf.
Sends(fd, n) ==
    /\ obj[fd].set /\ n > 0
    /\ n = Least(Length(fd), SndBuf - sock[fd].buffer)
Intact(fd, n) == ~obj[fd].begun /\ n = Length(fd)
Through(n) == out.to_send - n <= out.have + n

WriteMore ==
    LET fd == out.fd IN
    /\ pc = "write"
    /\ \E n \in 1 .. SndBuf :
         /\ Sends(fd, n) /\ ~Through(n)
         /\ sock' = [sock EXCEPT ![fd].buffer = @ + n]
         /\ obj' = [obj EXCEPT ![fd].begun = TRUE]
         /\ out' = [out EXCEPT !.to_send = @ - n, !.have = @ + n]
    /\ UNCHANGED <<pc, events, poolVars, m_user_count, epoll, listenVars, history, bounds>>

\* The response counts as sent: the connection is kept, or closed by main.
WriteKeep ==
    LET fd == out.fd IN
    /\ pc = "write" /\ pc' = "batch"
    /\ obj[fd].linger
    /\ \E n \in 1 .. SndBuf :
         /\ Sends(fd, n) /\ Through(n)
         /\ sock' = [sock EXCEPT ![fd].buffer = @ + n, ![fd].asks = "nothing"]
         /\ cut' = (cut \/ ~Intact(fd, n))
    /\ obj' = [obj EXCEPT ![fd] = Fresh]
    /\ Arm(fd, "IN")
    /\ UNCHANGED <<events, out, poolVars, m_user_count, listenVars, raced, dropped,
                   bounds>>

WriteClose ==
    LET fd == out.fd IN
    /\ pc = "write" /\ pc' = "batch"
    /\ ~obj[fd].linger
    /\ \E n \in 1 .. SndBuf :
         /\ Sends(fd, n) /\ Through(n)
         /\ cut' = (cut \/ ~Intact(fd, n))
    /\ CloseConn(fd)
    /\ UNCHANGED <<events, out, poolVars, listenVars, dropped, bounds>>

\* EAGAIN.
WriteLater ==
    LET fd == out.fd IN
    /\ pc = "write" /\ pc' = "batch"
    /\ obj[fd].set /\ sock[fd].buffer = SndBuf
    /\ Arm(fd, "OUT")
    /\ UNCHANGED <<events, out, poolVars, obj, m_user_count, sock, listenVars,
                   history, bounds>>

\* Any other error; to a client that has closed writev may still succeed.
WriteFails ==
    LET fd == out.fd IN
    /\ pc = "write" /\ pc' = "batch"
    /\ sock[fd].fin \/ ~obj[fd].set
    /\ CloseConn(fd)
    /\ UNCHANGED <<events, out, poolVars, listenVars, dropped, cut, bounds>>

\* After a batch main closes its descriptors, deletes users[] and the pool
\* and returns: these statements stand inside while (true).  "loop" is the
\* program with them behind it.
BatchEnd ==
    /\ pc = "batch" /\ events = {}
    /\ \/ "loop" \in AfterBatch /\ pc' = "wait"
       \/ "return" \in AfterBatch /\ pc' = "exited"
    /\ UNCHANGED <<events, out, poolVars, obj, m_user_count, epoll, sock, listenVars,
                   history, bounds>>

-----------------------------------------------------------------------------
(* The workers.                                                            *)

WStep(w, from) == pc # "exited" /\ worker[w].pc = from

Goto(w, to) == worker' = [worker EXCEPT ![w].pc = to]

Take(w) ==
    /\ WStep(w, "idle") /\ queue # <<>>
    /\ worker' = [worker EXCEPT ![w] = [Idle EXCEPT !.pc = "process", !.fd = Head(queue)]]
    /\ queue' = Tail(queue)
    /\ UNCHANGED <<mainVars, obj, m_user_count, epoll, sock, listenVars, history, bounds>>

\* process_write; the client may have asked for the connection to be kept.
Answered(fd, linger) ==
    [obj EXCEPT ![fd].m_write_idx = HeadLen, ![fd].linger = linger,
                ![fd].file = IF obj[fd].buf = "file" THEN FileLen ELSE 0]

\* process_read and process_write, which fails for an empty file: its case
\* runs on into default.
Process(w) ==
    LET fd == worker[w].fd IN
    /\ WStep(w, "process")
    /\ \/ /\ obj[fd].buf \in Unfinished
          /\ Goto(w, "more") /\ UNCHANGED obj
       \/ /\ obj[fd].buf \in {"file", "page"}
          /\ Goto(w, "answer")
          /\ \E linger \in BOOLEAN : obj' = Answered(fd, linger)
       \/ /\ obj[fd].buf = "empty"
          /\ Goto(w, "close") /\ UNCHANGED obj
    /\ UNCHANGED <<mainVars, queue, m_user_count, epoll, sock, listenVars, history, bounds>>

\* modfd, for EPOLLIN without a complete request and otherwise for EPOLLOUT.
MutWaitsFor(from) == "IN"
WaitsFor(from) == IF from = "more" THEN "IN" ELSE "OUT"
Rearm(w) ==
    /\ \E from \in {"more", "answer"} :
         WStep(w, from) /\ Arm(worker[w].fd, WaitsFor(from))
    /\ worker' = [worker EXCEPT ![w] = Idle]
    /\ UNCHANGED <<mainVars, queue, obj, m_user_count, sock, listenVars, history, bounds>>

\* close_conn() by a worker: the test and removefd, m_sockfd = -1, and the
\* two halves of --m_user_count.
WorkerClose(w) ==
    LET fd == worker[w].fd IN
    /\ WStep(w, "close")
    /\ \/ obj[fd].set /\ Remove(fd) /\ Goto(w, "reset")
       \/ ~obj[fd].set /\ Goto(w, "answer") /\ UNCHANGED <<sock, epoll>>
    /\ UNCHANGED <<mainVars, queue, obj, m_user_count, listenVars, history, bounds>>

WorkerReset(w) ==
    /\ WStep(w, "reset") /\ Goto(w, "load")
    /\ obj' = [obj EXCEPT ![worker[w].fd].set = FALSE]
    /\ UNCHANGED <<mainVars, queue, m_user_count, epoll, sock, listenVars, history,
                   bounds>>

WorkerLoad(w) ==
    /\ WStep(w, "load")
    /\ worker' = [worker EXCEPT ![w].pc = "store", ![w].count = m_user_count]
    /\ UNCHANGED <<mainVars, queue, obj, m_user_count, epoll, sock, listenVars,
                   history, bounds>>

\* If somebody else has changed the count since, one of the two is lost.
WorkerStore(w) ==
    /\ WStep(w, "store")
    /\ worker' = [worker EXCEPT ![w].pc = "answer", ![w].count = 0]
    /\ \/ m_user_count' = worker[w].count - 1
       \/ m_user_count # worker[w].count /\ UNCHANGED m_user_count
    /\ raced' = CountRace(Workers \ {w})
    /\ UNCHANGED <<mainVars, queue, obj, epoll, sock, listenVars, dropped, cut, bounds>>

-----------------------------------------------------------------------------
(* The clients.                                                            *)

Connect ==
    /\ pc # "exited" /\ arrived < MaxConns /\ arrived' = arrived + 1
    /\ backlog' = backlog + 1 /\ newConn' = TRUE
    /\ UNCHANGED <<mainVars, poolVars, obj, m_user_count, epoll, sock, history, said>>

Client(fd) ==
    /\ pc # "exited" /\ sock[fd].open /\ ~sock[fd].fin
    /\ UNCHANGED <<mainVars, poolVars, obj, m_user_count, epoll, listenVars, history,
                   arrived>>

\* A part of a request, or what completes it, be it recognised as complete or
\* not; the next request comes after the answer.
SayPart(fd) ==
    /\ Client(fd) /\ said < MaxSaid /\ said' = said + 1
    /\ sock[fd].asks = "nothing"
    /\ sock' = [sock EXCEPT ![fd].asks = "part", ![fd].unread = "part"]
SayAll(fd) ==
    /\ Client(fd) /\ said < MaxSaid /\ said' = said + 1
    /\ sock[fd].asks \in {"nothing", "part"}
    /\ \E what \in Asked :
         sock' = [sock EXCEPT ![fd].asks = "waits", ![fd].unread = what]
SayOverlooked(fd) ==
    /\ Client(fd) /\ said < MaxSaid /\ said' = said + 1
    /\ sock[fd].asks \in {"nothing", "part"}
    /\ sock' = [sock EXCEPT ![fd].asks = "overlooked", ![fd].unread = "overlooked"]

Say(fd) == SayPart(fd) \/ SayAll(fd) \/ SayOverlooked(fd)

\* The client reads what there is, or closes the connection.
Drain(fd) ==
    /\ Client(fd) /\ UNCHANGED said
    /\ sock[fd].buffer > 0 /\ sock' = [sock EXCEPT ![fd].buffer = 0]
HangUp(fd) ==
    /\ Client(fd) /\ UNCHANGED said
    /\ sock' = [sock EXCEPT ![fd].fin = TRUE]

-----------------------------------------------------------------------------
Main ==
    \/ EpollWait \/ AcceptFails \/ ShowError \/ BatchEnd
    \/ WriteMore \/ WriteKeep \/ WriteClose \/ WriteLater \/ WriteFails
    \/ \E fd \in Fds : \/ Accept(fd) \/ HandleHup(fd) \/ HandleInClose(fd)
                       \/ HandleIn(fd) \/ HandleOutNothing(fd) \/ HandleOut(fd)

Work(w) ==
    \/ Take(w) \/ Process(w) \/ Rearm(w)
    \/ WorkerClose(w) \/ WorkerReset(w) \/ WorkerLoad(w) \/ WorkerStore(w)

Next ==
    \/ Main \/ Connect
    \/ \E w \in Workers : Work(w)
    \/ \E fd \in Fds : Say(fd) \/ Drain(fd) \/ HangUp(fd)

Spec == Init /\ [][Next]_vars

\* Threads that can run do run, and clients read what they are sent.
FairSpec ==
    /\ Spec /\ WF_vars(Main)
    /\ \A w \in Workers : WF_vars(Work(w))
    /\ \A fd \in Fds : WF_vars(Drain(fd))

-----------------------------------------------------------------------------
(* Properties.                                                             *)

\* Every variable stays in its type; in particular the queue of the pool
\* holds at most one request more than its limit.
MainType ==
    /\ pc \in {"wait", "batch", "write", "exited"}
    /\ events \in SUBSET ([fd : Fds, ev : {"IN", "OUT", "HUP"}]
                             \cup {[fd |-> Listen, ev |-> "IN"]})
    /\ out \in [fd : Fds \cup {0}, to_send : Int, have : Nat]
PoolType ==
    /\ queue \in Seq(Fds) /\ Len(queue) <= QueueLimit + 1
    /\ worker \in [Workers -> WorkerState]
ObjectType == obj \in [Fds -> Object] /\ m_user_count \in Int
SocketType ==
    /\ epoll \in [Fds -> {"none", "off", "IN", "OUT"}]
    /\ sock \in [Fds -> Socket]
ListenType == backlog \in Nat /\ newConn \in BOOLEAN
HistoryType ==
    /\ raced \in SUBSET Races /\ dropped \in SUBSET Fds /\ cut \in BOOLEAN
    /\ arrived \in 0 .. MaxConns /\ said \in 0 .. MaxSaid
TypeOK == MainType /\ PoolType /\ ObjectType /\ SocketType /\ ListenType /\ HistoryType

\* Who may go on with the connection of a descriptor: the epoll table, an
\* event main has yet to handle, main in write(), the queue, a worker.
One(P) == IF P THEN 1 ELSE 0
InTable(fd) == One(epoll[fd] \in {"IN", "OUT"})
InBatch(fd) == Cardinality({e \in events : e.fd = fd})
InWrite(fd) == One(pc = "write" /\ out.fd = fd)
InQueue(fd) == Cardinality({k \in DOMAIN queue : queue[k] = fd})
InHand(fd) == Cardinality({w \in Workers : worker[w].fd = fd /\ worker[w].pc \in Busy})
Holders(fd) == InTable(fd) + InBatch(fd) + InWrite(fd) + InQueue(fd) + InHand(fd)

\* The connections are passed from hand to hand: no two threads ever work on
\* the same one, and none is forgotten, although nothing is locked.  Only a
\* request that append() refuses is in nobody's hands.  (As long as accept()
\* does not return a descriptor that a worker has just closed and not yet
\* left.)
OneHolder ==
    "descriptor" \notin raced =>
        \A fd \in Fds : sock[fd].open => Holders(fd) = One(fd \notin dropped)

\* users[fd] belongs to a connection as long as its descriptor is open: no
\* descriptor is leaked and none is closed twice (same restriction).  And
\* m_user_count is exact, but for the workers that are still in close_conn,
\* unless two threads have changed it at the same time.
ObjectsMatch ==
    /\ "descriptor" \notin raced =>
           \A fd \in Fds :
               obj[fd].set <=> \/ sock[fd].open
                               \/ \E w \in Workers :
                                     worker[w].fd = fd /\ worker[w].pc = "reset"
    /\ raced = {} =>
           m_user_count = Cardinality({fd \in Fds : sock[fd].open})
               + Cardinality({w \in Workers : worker[w].pc \in Closing})

\* No wake-up is lost between threads: a client whose request process_read
\* recognises gets an answer, or is disconnected, in however many pieces the
\* request has come; and a client that has gone is noticed; unless append() has
\* refused the request (same restriction).  Whoever sends a request that is
\* overlooked is not answered, not even by the page for a bad request, and waits
\* until it hangs up.
RequestHandled ==
    \A fd \in Fds :
        (sock[fd].asks = "waits" \/ sock[fd].fin)
            ~> \/ sock[fd].asks # "waits" /\ ~sock[fd].fin
               \/ fd \in dropped \/ "descriptor" \in raced \/ pc = "exited"

\* What the comment on EAGAIN in write() says: responses reach the client in
\* full, even if they do not fit the send buffer.  The code fails it.
ResponseIntact == ~cut
=============================================================================
