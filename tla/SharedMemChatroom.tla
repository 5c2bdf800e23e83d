-------------------------- MODULE SharedMemChatroom --------------------------
(***************************************************************************)
(* "13-4 sharedMemory_chatroomServer.cpp": a chat server with one process  *)
(* per client.  Child number idx reads its client's messages into segment  *)
(* idx of a shared memory and writes idx to its pipe; the server tells the *)
(* other children, which send the segment to their clients.  When a child  *)
(* has died its entry of users[] is filled with the last one; a process    *)
(* keeps the index it was forked with.                                     *)
(*                                                                         *)
(* All descriptors are registered EPOLLIN | EPOLLET.  What the segments    *)
(* hold is abstracted: the properties ask who writes where.                *)
(***************************************************************************)
EXTENDS Integers, Sequences

CONSTANTS
    Procs,        \* the pids that children may get; reused once collected
    USER_LIMIT,
    PipeCap,      \* indices that a pipe between server and child buffers
    SigCap,       \* bytes that the signal pipe buffers
    Bounds        \* bounds: how often the environment may connect, say,
                  \* terminate and make fork fail

NoProc == "no process"
Kinds == {"connect", "say", "terminate", "forkfail"}

ASSUME ProcsAssumption == NoProc \notin Procs
ASSUME LimitAssumption == USER_LIMIT \in Nat /\ PipeCap \in Nat /\ SigCap \in Nat
ASSUME BoundsAssumption == Bounds \in [Kinds -> Nat]

VARIABLES
    pc,           \* where the server is: loop, reap (inside waitpid), exited
    stop_server, terminate,
    users,        \* pid and pipefd[0] of the entries of users[]
    user_count,
    sub_process,  \* the index of a pid
    open,         \* pipe ends the server has open
    events,       \* reported, not yet handled events of the server
    signals,      \* signal bytes read, not yet handled
    ready,        \* edges the server's epoll table holds
    watched,      \* descriptors registered in it
    pending,      \* signals pending at the server
    sigPipe,      \* bytes in the signal pipe
    child,        \* the child processes, see Child
    toServer,     \* indices in the pipe from a child
    backlog,      \* clients waiting for accept()
    left          \* what is left of Bounds

tableVars  == <<users, user_count, sub_process, open>>
flagVars   == <<stop_server, terminate>>
epollVars  == <<ready, watched>>
signalVars == <<pending, sigPipe>>
envVars    == <<backlog, left>>
vars == <<pc, stop_server, terminate, users, user_count, sub_process, open,
          events, signals, ready, watched, pending, sigPipe, child, toServer,
          backlog, left>>

-----------------------------------------------------------------------------
\* A child process: where it is, run_child's argument, stop_child, the edges
\* of its epoll table, its reported events, whether a SIGTERM is pending, its
\* client (open; fin, it has closed; reset), whether the client's socket has
\* unread data, and the indices in the pipe to it.
Child == [pc : {"none", "forked", "closed", "test", "enter", "wait", "handle",
                "zombie"},
          idx : Nat, stop : BOOLEAN,
          ready : SUBSET {"conn", "pipe"}, events : SUBSET {"conn", "pipe"},
          term : BOOLEAN, conn : {"open", "fin", "reset"}, unread : BOOLEAN,
          toChild : Seq(Nat)]
Blank == [pc |-> "none", idx |-> 0, stop |-> FALSE, ready |-> {},
          events |-> {}, term |-> FALSE, conn |-> "open", unread |-> FALSE,
          toChild |-> <<>>]

Alive(p) == child[p].pc \notin {"none", "zombie"}
Registered(p) == child[p].pc \in {"test", "enter", "wait", "handle"}

\* Descriptors.  NoFd is what the zero pages of users[] hold; pipes get the
\* lowest free number above those of the listening socket and the signal
\* pipe.  (One lower number always goes to the accepted socket, which the
\* server closes again.)
NoFd == 0
ListenFd == 1
SigFd == 2
PipeFds == 3 .. 2 + USER_LIMIT + 2 * Bounds["forkfail"]
IsLowest(f, S) == f \in S /\ \A g \in S : f <= g

Users == 0 .. user_count - 1
\* The process at the other end of a pipe of the table.
Behind(f) == {p \in Procs : \E k \in Users : users[k] = [pid |-> p, fd |-> f]}

\* An edge is reported only if the descriptor is still readable, which a pipe
\* also is when its other end is closed.
Readable(f) ==
    IF f = ListenFd THEN backlog > 0
    ELSE IF f = SigFd THEN sigPipe # <<>>
    ELSE \E p \in Behind(f) : toServer[p] > 0 \/ ~Alive(p)

\* main up to its loop.
Init ==
    /\ pc = "loop" /\ stop_server = FALSE /\ terminate = FALSE
    /\ users = [k \in 0 .. USER_LIMIT |-> [pid |-> NoProc, fd |-> NoFd]]
    /\ user_count = 0
    /\ sub_process = [p \in Procs |-> -1]
    /\ open = {} /\ events = {} /\ signals = <<>>
    /\ ready = {} /\ watched = {ListenFd, SigFd}
    /\ pending = {} /\ sigPipe = <<>>
    /\ child = [p \in Procs |-> Blank] /\ toServer = [p \in Procs |-> 0]
    /\ backlog = 0 /\ left = Bounds

-----------------------------------------------------------------------------
(* The server.                                                             *)

EpollWait ==
    /\ pc = "loop" /\ ~stop_server /\ events = {} /\ signals = <<>>
    /\ ready # {}
    /\ events' = {f \in ready : Readable(f)}
    /\ ready' = {}
    /\ UNCHANGED <<pc, flagVars, tableVars, signals, watched, signalVars, child,
                   toServer, envVars>>

\* The next event of the batch is one of descriptor f.
Handling(f) ==
    /\ pc = "loop" /\ signals = <<>>
    /\ f \in events /\ events' = events \ {f}
    /\ UNCHANGED <<pc, flagVars, pending>>

HasRoom == user_count < USER_LIMIT

\* accept() fails because the client is gone, or the table is full and the
\* new connection is closed again.
Refuse ==
    /\ Handling(ListenFd)
    /\ backlog' = backlog - 1
    /\ UNCHANGED <<tableVars, signals, epollVars, sigPipe, child, toServer, left>>

\* The index run_child is called with.
NewIndex == user_count

\* The new entry, its pipe and its child; the child's copy of main still has
\* the signal pipe and the signal handlers of the server.
Accept(p) ==
    /\ Handling(ListenFd) /\ HasRoom
    /\ child[p].pc = "none"
    /\ child' = [child EXCEPT ![p] = [Blank EXCEPT !.pc = "forked", !.idx = NewIndex]]
    /\ \E f \in PipeFds :
         /\ IsLowest(f, PipeFds \ open)
         /\ users' = [users EXCEPT ![user_count] = [pid |-> p, fd |-> f]]
         /\ open' = open \cup {f} /\ watched' = watched \cup {f}
    /\ sub_process' = [sub_process EXCEPT ![p] = user_count]
    /\ user_count' = user_count + 1
    /\ backlog' = backlog - 1
    /\ UNCHANGED <<signals, ready, sigPipe, toServer, left>>

Spend(kind) == left[kind] > 0 /\ left' = [left EXCEPT ![kind] = @ - 1]

\* fork() fails: the connection is closed, both ends of the pipe stay open.
ForkFails ==
    /\ Handling(ListenFd) /\ HasRoom /\ Spend("forkfail")
    /\ \E f, g \in PipeFds :
         /\ IsLowest(f, PipeFds \ open) /\ IsLowest(g, PipeFds \ (open \cup {f}))
         /\ users' = [users EXCEPT ![user_count].fd = f]
         /\ open' = open \cup {f, g}
    /\ backlog' = backlog - 1
    /\ UNCHANGED <<user_count, sub_process, signals, epollVars, sigPipe, child,
                   toServer>>

RecvSignals ==
    /\ Handling(SigFd)
    /\ signals' = sigPipe
    /\ sigPipe' = <<>>
    /\ UNCHANGED <<tableVars, epollVars, child, toServer, envVars>>

\* case SIGCHLD begins.
SigChld ==
    /\ pc = "loop" /\ signals # <<>> /\ Head(signals) = "CHLD"
    /\ pc' = "reap"
    /\ UNCHANGED <<flagVars, tableVars, events, signals, epollVars, signalVars,
                   child, toServer, envVars>>

\* users[] and sub_process after an entry is filled with the last one.
Filled(del_user) == [users EXCEPT ![del_user] = users[user_count - 1]]
MutMapped(p, del_user) == [sub_process EXCEPT ![p] = -1]
Mapped(p, del_user) ==
    [sub_process EXCEPT ![p] = -1, ![Filled(del_user)[del_user].pid] = del_user]

\* The descriptor the server closes for a dead child.
MutClosed(del_user) == users[user_count - 1].fd
Closed(del_user) == users[del_user].fd

\* One round of the waitpid loop: the pid of a dead child is released.  The
\* epoll table is told to forget users[user_count], an entry behind the last
\* one; a close takes its descriptor out of the table anyway.
Reap(p) ==
    LET del_user == sub_process[p]
        gone == {users[user_count].fd, Closed(del_user)}
    IN
    /\ pc = "reap" /\ child[p].pc = "zombie"
    /\ child' = [child EXCEPT ![p] = Blank]
    /\ toServer' = [toServer EXCEPT ![p] = 0]
    /\ users' = Filled(del_user)
    /\ sub_process' = Mapped(p, del_user)
    /\ user_count' = user_count - 1
    /\ open' = open \ {Closed(del_user)}
    /\ watched' = watched \ gone /\ ready' = ready \ gone
    /\ UNCHANGED <<pc, flagVars, events, signals, signalVars, envVars>>

\* waitpid finds no other dead child.
MutMayEnd == TRUE
MayEnd == \A p \in Procs : child[p].pc # "zombie"
ReapEnd ==
    /\ pc = "reap" /\ MayEnd
    /\ pc' = "loop"
    /\ signals' = Tail(signals)
    /\ stop_server' = (stop_server \/ (terminate /\ user_count = 0))
    /\ UNCHANGED <<terminate, tableVars, events, epollVars, signalVars, child,
                   toServer, envVars>>

\* case SIGTERM, SIGINT: stop without users, otherwise kill every child of
\* the table.
SigTerm ==
    /\ pc = "loop" /\ signals # <<>> /\ Head(signals) = "TERM"
    /\ signals' = Tail(signals)
    /\ \/ /\ user_count = 0 /\ stop_server' = TRUE
          /\ UNCHANGED <<terminate, child>>
       \/ /\ user_count # 0 /\ terminate' = TRUE
          /\ child' = [p \in Procs |-> IF Alive(p) /\ \E k \in Users : users[k].pid = p
                                       THEN [child[p] EXCEPT !.term = TRUE]
                                       ELSE child[p]]
          /\ UNCHANGED stop_server
    /\ UNCHANGED <<pc, tableVars, events, epollVars, signalVars, toServer, envVars>>

\* The children told of a message: those behind the other pipes, if they are
\* alive and their pipes have room (nobody looks at what send returns).
Told(f) ==
    {q \in Procs : /\ \E k \in Users : users[k].pid = q /\ users[k].fd # f
                   /\ Alive(q) /\ Len(child[q].toChild) < PipeCap}

\* An edge at p's epoll table, once it has one.
Edge(p, e) == child[p].ready \cup (IF Registered(p) THEN {e} ELSE {})

\* A pipe event: recv one index and forward it.
Forward(f) ==
    /\ Handling(f)
    /\ \E p \in Behind(f) :
         /\ toServer[p] > 0
         /\ toServer' = [toServer EXCEPT ![p] = @ - 1]
         /\ child' = [q \in Procs |->
                        IF q \in Told(f)
                        THEN [child[q] EXCEPT !.toChild = Append(@, child[p].idx),
                                              !.ready = Edge(q, "pipe")]
                        ELSE child[q]]
    /\ UNCHANGED <<tableVars, signals, epollVars, sigPipe, envVars>>

\* A pipe event without an index: the child is dead, or the descriptor was
\* closed since the event was reported.
PipeClosed(f) ==
    /\ Handling(f) /\ f \in PipeFds
    /\ \A p \in Behind(f) : toServer[p] = 0
    /\ UNCHANGED <<tableVars, signals, epollVars, sigPipe, child, toServer, envVars>>

\* while (!stop_server) ends, main returns.  A child that was accepted after
\* the last one was collected sees the end of its pipe.
Exit ==
    /\ pc = "loop" /\ stop_server /\ events = {} /\ signals = <<>>
    /\ pc' = "exited"
    /\ child' = [p \in Procs |-> [child[p] EXCEPT !.ready = Edge(p, "pipe")]]
    /\ UNCHANGED <<flagVars, tableVars, events, signals, epollVars, signalVars,
                   toServer, envVars>>

\* The byte of sig_handler, lost when the pipe is full.
SigByte(s) ==
    IF Len(sigPipe) < SigCap
    THEN sigPipe' = Append(sigPipe, s) /\ ready' = ready \cup {SigFd}
    ELSE UNCHANGED <<sigPipe, ready>>

DeliverServer(s) ==
    /\ pc # "exited" /\ s \in pending
    /\ pending' = pending \ {s}
    /\ SigByte(s)
    /\ UNCHANGED <<pc, flagVars, tableVars, events, signals, watched, child,
                   toServer, envVars>>

-----------------------------------------------------------------------------
(* The children.                                                           *)

Step(p, from, new) ==
    /\ child[p].pc = from
    /\ child' = [child EXCEPT ![p] = new]
    /\ UNCHANGED <<pc, flagVars, tableVars, events, signals, watched, envVars>>

\* A step that nobody else notices.
Quiet(p, from, new) ==
    Step(p, from, new) /\ UNCHANGED <<ready, signalVars, toServer>>

\* The child closes its copies of the server's descriptors.
ChildClose(p) == Quiet(p, "forked", [child[p] EXCEPT !.pc = "closed"])

\* run_child up to its loop: what has arrived already is ready at once.
ChildSetup(p) ==
    Quiet(p, "closed", [child[p] EXCEPT
        !.pc = "test",
        !.ready = {e \in {"conn", "pipe"} :
            IF e = "conn" THEN child[p].unread \/ child[p].conn # "open"
            ELSE child[p].toChild # <<>> \/ pc = "exited"}])

\* while (!stop_child), the call of epoll_wait, its return.
ChildTest(p) ==
    ~child[p].stop /\ Quiet(p, "test", [child[p] EXCEPT !.pc = "enter"])
ChildEnter(p) == Quiet(p, "enter", [child[p] EXCEPT !.pc = "wait"])
ChildWake(p) ==
    /\ child[p].ready # {}
    /\ Quiet(p, "wait", [child[p] EXCEPT !.pc = "handle", !.ready = {},
                                         !.events = child[p].ready])
ChildDone(p) ==
    child[p].events = {} /\ Quiet(p, "handle", [child[p] EXCEPT !.pc = "test"])

\* An edge at the server's end of p's pipe.
PipeEdge(p) == ready' = ready \cup {f \in watched : p \in Behind(f)}

\* recv from the client: data (all of it) comes before the end.
ChildRead(p) ==
    /\ "conn" \in child[p].events /\ child[p].unread
    /\ Step(p, "handle", [child[p] EXCEPT !.events = @ \ {"conn"}, !.unread = FALSE])
    /\ IF toServer[p] < PipeCap
       THEN toServer' = [toServer EXCEPT ![p] = @ + 1] /\ PipeEdge(p)
       ELSE UNCHANGED <<toServer, ready>>
    /\ UNCHANGED signalVars

\* recv finds the end, an error, or nothing.
MutAtEnd(p) == FALSE
AtEnd(p) == child[p].conn # "open"
ChildEof(p) ==
    /\ "conn" \in child[p].events /\ ~child[p].unread
    /\ Quiet(p, "handle", [child[p] EXCEPT !.events = @ \ {"conn"},
                                           !.stop = @ \/ AtEnd(p)])

\* An index from the server: its segment goes to the client.  A client that
\* has closed its socket may answer with a reset, which is an edge.
ChildSend(p) ==
    /\ "pipe" \in child[p].events /\ child[p].toChild # <<>>
    /\ \E answer \in {"open", "fin", "reset"} :
         /\ answer = child[p].conn \/ (answer = "reset" /\ child[p].conn = "fin")
         /\ Quiet(p, "handle", [child[p] EXCEPT
                !.events = @ \ {"pipe"}, !.toChild = Tail(@), !.conn = answer,
                !.ready = @ \cup (IF answer # child[p].conn THEN {"conn"} ELSE {})])

\* Or the pipe is empty, and at its end once the server is gone.
MutPipeAtEnd == FALSE
PipeAtEnd == pc = "exited"
ChildPipeEnd(p) ==
    /\ "pipe" \in child[p].events /\ child[p].toChild = <<>>
    /\ Quiet(p, "handle", [child[p] EXCEPT !.events = @ \ {"pipe"},
                                           !.stop = @ \/ PipeAtEnd])

\* The loop ends, exit(0): everything the process had is gone, but the
\* indices in the pipe to the server.
ChildExit(p) ==
    /\ child[p].stop
    /\ Step(p, "test", [Blank EXCEPT !.pc = "zombie", !.idx = child[p].idx])
    /\ pending' = pending \cup {"CHLD"}
    /\ PipeEdge(p)
    /\ UNCHANGED <<sigPipe, toServer>>

\* SIGTERM reaches a child.  As long as it has the server's handler the byte
\* goes to the server, or, once it has closed that pipe, nowhere.  Its own
\* handler sets stop_child, and interrupts epoll_wait if it is in it.
DeliverChild(p) ==
    /\ child[p].term
    /\ Step(p, child[p].pc, [child[p] EXCEPT
          !.term = FALSE,
          !.stop = @ \/ Registered(p),
          !.pc = IF @ = "wait" THEN "test" ELSE @])
    /\ IF child[p].pc = "forked" THEN SigByte("TERM") ELSE UNCHANGED <<sigPipe, ready>>
    /\ UNCHANGED <<pending, toServer>>

-----------------------------------------------------------------------------
(* The clients, and whoever sends signals to the server.                   *)

Connect ==
    /\ pc # "exited" /\ Spend("connect")
    /\ backlog' = backlog + 1
    /\ ready' = ready \cup {ListenFd}
    /\ UNCHANGED <<pc, flagVars, tableVars, events, signals, watched, signalVars,
                   child, toServer>>

\* The client of p sends a message, or closes its socket.
ClientStep(p, new) ==
    /\ Alive(p) /\ child[p].conn = "open"
    /\ child' = [child EXCEPT ![p] = new]
    /\ UNCHANGED <<pc, flagVars, tableVars, events, signals, epollVars, signalVars,
                   toServer, backlog>>
Say(p) ==
    /\ Spend("say")
    /\ ClientStep(p, [child[p] EXCEPT !.unread = TRUE, !.ready = Edge(p, "conn")])
Leave(p) ==
    /\ ClientStep(p, [child[p] EXCEPT !.conn = "fin", !.ready = Edge(p, "conn")])
    /\ UNCHANGED left

Terminate ==
    /\ pc # "exited" /\ Spend("terminate")
    /\ pending' = pending \cup {"TERM"}
    /\ UNCHANGED <<pc, flagVars, tableVars, events, signals, epollVars, sigPipe,
                   child, toServer, backlog>>

-----------------------------------------------------------------------------
Server ==
    \/ EpollWait \/ Refuse \/ ForkFails \/ RecvSignals \/ SigChld \/ ReapEnd
    \/ SigTerm \/ Exit
    \/ \E p \in Procs : Accept(p) \/ Reap(p)
    \/ \E f \in PipeFds : Forward(f) \/ PipeClosed(f)

ChildRuns(p) ==
    \/ ChildClose(p) \/ ChildSetup(p) \/ ChildTest(p) \/ ChildEnter(p)
    \/ ChildWake(p) \/ ChildDone(p) \/ ChildRead(p) \/ ChildEof(p)
    \/ ChildSend(p) \/ ChildPipeEnd(p) \/ ChildExit(p)

Next ==
    \/ Server \/ Connect \/ Terminate
    \/ \E s \in {"CHLD", "TERM"} : DeliverServer(s)
    \/ \E p \in Procs : ChildRuns(p) \/ DeliverChild(p) \/ Say(p) \/ Leave(p)

Spec == Init /\ [][Next]_vars

\* The kernel runs every runnable process and delivers every pending signal.
Fairness ==
    /\ WF_vars(Server)
    /\ \A s \in {"CHLD", "TERM"} : WF_vars(DeliverServer(s))
    /\ \A p \in Procs : WF_vars(ChildRuns(p)) /\ WF_vars(DeliverChild(p))

FairSpec == Spec /\ Fairness

-----------------------------------------------------------------------------
(* Properties.                                                             *)

Fds == {ListenFd, SigFd} \cup PipeFds

TableType ==
    /\ users \in [0 .. USER_LIMIT -> [pid : Procs \cup {NoProc},
                                      fd : PipeFds \cup {NoFd}]]
    /\ user_count \in 0 .. USER_LIMIT
    /\ sub_process \in [Procs -> -1 .. USER_LIMIT - 1]
    /\ open \in SUBSET PipeFds
LoopType ==
    /\ pc \in {"loop", "reap", "exited"}
    /\ stop_server \in BOOLEAN /\ terminate \in BOOLEAN
    /\ events \in SUBSET Fds /\ ready \in SUBSET Fds /\ watched \in SUBSET Fds
    /\ signals \in Seq({"CHLD", "TERM"}) /\ sigPipe \in Seq({"CHLD", "TERM"})
    /\ pending \in SUBSET {"CHLD", "TERM"}
ChildType ==
    child \in [Procs -> Child] /\ toServer \in [Procs -> 0 .. PipeCap]
EnvType == backlog \in Nat /\ left \in [Kinds -> Nat]

\* Every variable stays in its type; in particular no index leaves users[].
TypeOK == TableType /\ LoopType /\ ChildType /\ EnvType

\* users[] and sub_process are each other's inverse, and list exactly the
\* children the kernel still knows: kill() never meets a released pid, and a
\* pid that is collected is always found.
TableExact ==
    /\ \A k \in Users : users[k].pid \in Procs /\ sub_process[users[k].pid] = k
    /\ \A p \in Procs :
         child[p].pc # "none" <=> \E k \in Users : users[k].pid = p

\* Every user of the table has an open pipe of its own: the server never
\* reads from, writes to or closes a descriptor that belongs to somebody
\* else.
PipesOwned ==
    \A j, k \in Users : /\ users[k].fd \in open
                        /\ users[j].fd = users[k].fd => j = k

\* A child's segment lies inside the shared memory, which has USER_LIMIT of
\* them although users[] has one entry more.
SegmentInside == \A p \in Procs : Alive(p) => child[p].idx < USER_LIMIT

\* No byte of sig_handler is lost.
SignalsFit == [](Len(sigPipe) < SigCap)

\* Every dead child is collected, even when SIGCHLDs merge or come while the
\* server is in its waitpid loop (or, when the server has ended, by init), as
\* long as the signal pipe never fills up.
DeathNoticed ==
    SignalsFit =>
        \A p \in Procs : (child[p].pc = "zombie")
                            ~> (child[p].pc = "none" \/ pc = "exited")

\* A client that closes its socket while its child has no other data to read
\* is taken out of the table, whatever happens to the others meanwhile.
QuietLeaverCollected ==
    SignalsFit =>
        \A p \in Procs :
            (child[p].conn = "fin" /\ ~child[p].unread /\ "conn" \in child[p].ready)
                ~> (child[p].pc = "none" \/ pc = "exited")

\* A client may be accepted in the batch in which the server stops: its
\* child ends all the same.
NoStraggler == (pc = "exited") ~> \A p \in Procs : ~Alive(p)

\* What the comments on sub_process and on the read cache say: each client
\* has a segment of its own, the one its index names.  The code fails it once
\* a client that is not the last has left and another one has come.
SegmentsDistinct ==
    \A p, q \in Procs :
        Alive(p) /\ Alive(q) /\ child[p].idx = child[q].idx => p = q

\* What the comment on the SIGTERM case says: the server program ends.  The
\* code fails it when a child misses its only SIGTERM.
ShutdownCompletes == terminate ~> (pc = "exited")
=============================================================================
