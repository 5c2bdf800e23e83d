----------------------------- MODULE EpollOneShot -----------------------------
(***************************************************************************)
(* "9-4 epolloneshot.cpp": main waits for events and starts a thread for   *)
(* each connection that has become readable, which reads until there is    *)
(* nothing left and registers the connection for one more event.  One      *)
(* action per branch of main's loop and per call of a worker.              *)
(*                                                                         *)
(* fds_for_new_worker lies on the stack of main, at the same address in    *)
(* every iteration; a worker reads it when it gets to run.                 *)
(***************************************************************************)
EXTENDS Integers, FiniteSets, FiniteSetsExt

CONSTANTS
    Descriptors,   \* of connections, a finite set of numbers without listenfd;
                   \* the system hands out the smallest
    Workers,       \* threads that pthread_create can start
    Bounds         \* bounds: how often clients "connect", "say" something and
                   \* "leave"

listenfd == 3

VARIABLES
    events,               \* of main: what epoll_wait returned and is not handled
    fds_for_new_worker,   \* its sockfd
    thread, sockfd,       \* of the workers: "none", "started", "reads" or "resets"
    open, armed, edges,   \* of the system: descriptors in use, those that are
                          \* registered and not disabled by an event, and what
                          \* has become readable since it was last reported
    backlog, unread, fin, \* of the connections: not yet accepted, not yet read,
                          \* and closed by the client
    left                  \* of the bounds

vars == <<events, fds_for_new_worker, thread, sockfd, open, armed, edges, backlog,
          unread, fin, left>>
main == <<events, fds_for_new_worker>>
workers == <<thread, sockfd>>

Init ==
    /\ events = {} /\ fds_for_new_worker = listenfd
    /\ thread = [w \in Workers |-> "none"] /\ sockfd = [w \in Workers |-> listenfd]
    /\ open = {} /\ armed = {listenfd} /\ edges = {}
    /\ backlog = 0 /\ unread = [f \in Descriptors |-> 0] /\ fin = {}
    /\ left = Bounds

-----------------------------------------------------------------------------
Spend(what) == left[what] > 0 /\ left' = [left EXCEPT ![what] = @ - 1]

Connect ==
    /\ Spend("connect")
    /\ backlog' = backlog + 1 /\ edges' = edges \cup {listenfd}
    /\ UNCHANGED <<main, workers, open, armed, unread, fin>>

Say(f) ==
    /\ f \in open \ fin /\ Spend("say")
    /\ unread' = [unread EXCEPT ![f] = @ + 1] /\ edges' = edges \cup {f}
    /\ UNCHANGED <<main, workers, open, armed, backlog, fin>>

Leave(f) ==
    /\ f \in open \ fin /\ Spend("leave")
    /\ fin' = fin \cup {f} /\ edges' = edges \cup {f}
    /\ UNCHANGED <<main, workers, open, armed, backlog, unread>>

-----------------------------------------------------------------------------
Readable(fd) == IF fd = listenfd THEN backlog > 0 ELSE unread[fd] > 0 \/ fd \in fin

\* A connection that is reported is disabled until it is registered again.
EpollWait ==
    LET reported == {fd \in edges \cap armed : Readable(fd)} IN
    /\ events = {} /\ reported # {}
    /\ events' = reported /\ edges' = edges \ armed
    /\ armed' = armed \ (reported \ {listenfd})
    /\ UNCHANGED <<fds_for_new_worker, workers, open, backlog, unread, fin, left>>

\* One accept for the event, and the connection is registered.
Accept ==
    LET connfd == Min(Descriptors \ open) IN
    /\ listenfd \in events /\ events' = events \ {listenfd}
    /\ Descriptors \ open # {}
    /\ backlog' = backlog - 1
    /\ open' = open \cup {connfd} /\ armed' = armed \cup {connfd}
    /\ unread' = [unread EXCEPT ![connfd] = 0]
    /\ UNCHANGED <<fds_for_new_worker, workers, edges, fin, left>>

\* A new thread gets the address of fds_for_new_worker.
StartWorker(f, w) ==
    /\ f \in events \ {listenfd} /\ events' = events \ {f}
    /\ thread[w] = "none"
    /\ fds_for_new_worker' = f
    /\ thread' = [thread EXCEPT ![w] = "started"]
    /\ UNCHANGED <<sockfd, open, armed, edges, backlog, unread, fin, left>>

-----------------------------------------------------------------------------
WorkerStarts(w) ==
    /\ thread[w] = "started"
    /\ thread' = [thread EXCEPT ![w] = "reads"]
    /\ sockfd' = [sockfd EXCEPT ![w] = fds_for_new_worker]
    /\ UNCHANGED <<main, open, armed, edges, backlog, unread, fin, left>>

\* A descriptor that somebody else has closed makes recv fail again and again:
\* the worker never ends.
Reads(w) == thread[w] = "reads" /\ sockfd[w] \in open
End(w) == thread' = [thread EXCEPT ![w] = "none"]

ReadData(w) ==
    LET f == sockfd[w] IN
    /\ Reads(w) /\ unread[f] > 0
    /\ \E rest \in 0 .. unread[f] - 1 : unread' = [unread EXCEPT ![f] = rest]
    /\ UNCHANGED <<main, workers, open, armed, edges, backlog, fin, left>>

\* The client has closed the connection.
ReadEnd(w) ==
    LET f == sockfd[w] IN
    /\ Reads(w) /\ unread[f] = 0 /\ f \in fin
    /\ open' = open \ {f} /\ armed' = armed \ {f}
    /\ edges' = edges \ {f} /\ fin' = fin \ {f}
    /\ End(w)
    /\ UNCHANGED <<main, sockfd, backlog, unread, left>>

\* Nothing left: reset_oneshot, which reports again what has come since recv.
ReadLater(w) ==
    LET f == sockfd[w] IN
    /\ Reads(w) /\ unread[f] = 0 /\ f \notin fin
    /\ thread' = [thread EXCEPT ![w] = "resets"]
    /\ UNCHANGED <<main, sockfd, open, armed, edges, backlog, unread, fin, left>>

ResetOneShot(w) ==
    LET f == sockfd[w] IN
    /\ thread[w] = "resets"
    /\ armed' = IF f \in open THEN armed \cup {f} ELSE armed
    /\ edges' = IF f \in open /\ Readable(f) THEN edges \cup {f} ELSE edges
    /\ End(w)
    /\ UNCHANGED <<main, sockfd, open, backlog, unread, fin, left>>

Worker(w) ==
    WorkerStarts(w) \/ ReadData(w) \/ ReadEnd(w) \/ ReadLater(w) \/ ResetOneShot(w)

Next ==
    \/ Connect \/ \E f \in Descriptors : Say(f) \/ Leave(f)
    \/ EpollWait \/ Accept
    \/ \E f \in Descriptors, w \in Workers : StartWorker(f, w)
    \/ \E w \in Workers : Worker(w)

Spec == Init /\ [][Next]_vars

-----------------------------------------------------------------------------
(* Properties.                                                             *)

\* No two workers ever serve one connection, which is what EPOLLONESHOT is
\* used for: a connection has to wait for the worker that has it.  The code
\* fails it when main starts the next worker before the first has run.
OneWorker ==
    \A v, w \in Workers :
        v # w /\ sockfd[v] = sockfd[w]
        => ~(thread[v] \in {"reads", "resets"} /\ thread[w] \in {"reads", "resets"})
=============================================================================
