--------------------------- MODULE NonactiveConnect ---------------------------
(***************************************************************************)
(* main of "11-3 nonactive_connect.cpp": a server that closes connections  *)
(* of which nothing has come for 3 * TIMESLOT.  SIGALRM and SIGTERM come   *)
(* through a pipe into the same edge-triggered event loop as connections   *)
(* and their data.  One action per branch of that loop; clients, signals   *)
(* and time interleave with it.                                            *)
(*                                                                         *)
(* The timer list is taken by what module LstTimer shows of it: it holds   *)
(* what was added and not deleted, and tick fires what is due.  A timer is *)
(* named by the descriptor it belongs to.                                  *)
(***************************************************************************)
EXTENDS Integers, Sequences, FiniteSets, FiniteSetsExt, SequencesExt

CONSTANTS
    Descriptors,    \* of connections; the system hands out the smallest
    TIMESLOT,
    SigCap,         \* bytes that fit into the signal pipe
    DeletesAdded,   \* whether main has the statement of line 187
    AcceptMayFail,  \* whether accept may fail
    Bounds          \* bounds: how often clients "connect", "say" something and
                    \* "leave", how often SIGTERM is sent ("terminate"), and
                    \* how often anything of this happens ("act")

listenfd == 3
pipefd == 5
Off == -1

ASSUME DescriptorAssumption ==
    /\ IsFiniteSet(Descriptors)
    /\ Descriptors \subseteq Nat \ {listenfd, pipefd}
ASSUME TimeAssumption == TIMESLOT \in Nat \ {0} /\ SigCap \in Nat \ {0}
ASSUME BooleanAssumption == DeletesAdded \subseteq BOOLEAN /\ AcceptMayFail \in BOOLEAN
ASSUME BoundsAssumption ==
    Bounds \in [{"connect", "say", "leave", "terminate", "act"} -> Nat]

VARIABLES
    pc,                  \* "wait" (epoll_wait), "events" (the loop behind it),
                         \* "stopped" or "undefined"
    events,              \* what epoll_wait returned and is not yet handled
    timeout, stop_server,
    open,                \* connections main has accepted and not closed
    timers, expire,      \* of timer_lst; expire as the time that is left
    freed,               \* timers of the list that main has deleted
    alarm,               \* seconds to SIGALRM, or Off
    signals, pipe,       \* pending signals, and what is in the signal pipe
    backlog, unread, fin, err,   \* of the connections: not yet accepted, data
                         \* not yet read, closed and reset by the client
    edges,               \* of epoll: what has become readable since it was
                         \* last reported
    left,                \* of the bounds
    active               \* history: time left of 3 * TIMESLOT since epoll_wait
                         \* last reported data of a connection

vars == <<pc, events, timeout, stop_server, open, timers, expire, freed, alarm,
          signals, pipe, backlog, unread, fin, err, edges, left, active>>
table == <<open, timers, expire, freed>>
network == <<backlog, unread, fin, err>>
signalling == <<alarm, signals, pipe>>

-----------------------------------------------------------------------------
Init ==
    /\ pc = "wait" /\ events = {}
    /\ timeout = FALSE /\ stop_server = FALSE
    /\ open = {} /\ timers = {} /\ freed = {}
    /\ expire = [f \in Descriptors |-> 0] /\ active = [f \in Descriptors |-> 0]
    /\ alarm = TIMESLOT /\ signals = {} /\ pipe = <<>>
    /\ backlog = 0 /\ fin = {} /\ err = {} /\ edges = {}
    /\ unread = [f \in Descriptors |-> 0]
    /\ left = Bounds

Running == pc \in {"wait", "events"}

-----------------------------------------------------------------------------
(* Clients, time and signals.                                              *)

Spend(what) ==
    /\ left[what] > 0 /\ left["act"] > 0
    /\ left' = [left EXCEPT ![what] = @ - 1, !["act"] = @ - 1]

Connect ==
    /\ Running /\ Spend("connect")
    /\ backlog' = backlog + 1 /\ edges' = edges \cup {listenfd}
    /\ UNCHANGED <<pc, events, timeout, stop_server, table, signalling, unread, fin,
                   err, active>>

Say(f) ==
    /\ Running /\ f \in open \ (fin \cup err) /\ Spend("say")
    /\ unread' = [unread EXCEPT ![f] = @ + 1] /\ edges' = edges \cup {f}
    /\ UNCHANGED <<pc, events, timeout, stop_server, table, signalling, backlog, fin,
                   err, active>>

Leave(f) ==
    /\ Running /\ f \in open \ (fin \cup err) /\ Spend("leave")
    /\ \/ fin' = fin \cup {f} /\ UNCHANGED err
       \/ err' = err \cup {f} /\ UNCHANGED fin
    /\ edges' = edges \cup {f}
    /\ UNCHANGED <<pc, events, timeout, stop_server, table, signalling, backlog,
                   unread, active>>

OneLess(n) == IF n > 0 THEN n - 1 ELSE n

TimePasses ==
    /\ Running
    /\ alarm' = OneLess(alarm)
    /\ expire' = [f \in Descriptors |-> OneLess(expire[f])]
    /\ active' = [f \in Descriptors |-> OneLess(active[f])]
    /\ UNCHANGED <<pc, events, timeout, stop_server, open, timers, freed, signals,
                   pipe, network, edges, left>>

AlarmRings ==
    /\ Running /\ alarm = 0
    /\ alarm' = Off /\ signals' = signals \cup {"ALRM"}
    /\ UNCHANGED <<pc, events, timeout, stop_server, table, pipe, network, edges,
                   left, active>>

Terminate ==
    /\ Running /\ Spend("terminate")
    /\ signals' = signals \cup {"TERM"}
    /\ UNCHANGED <<pc, events, timeout, stop_server, table, alarm, pipe, network,
                   edges, active>>

\* sig_handler interrupts main anywhere.  A byte for which the pipe has no room
\* is lost.
SigHandler(sig) ==
    /\ Running /\ sig \in signals
    /\ signals' = signals \ {sig}
    /\ IF Len(pipe) < SigCap
       THEN pipe' = Append(pipe, sig) /\ edges' = edges \cup {pipefd}
       ELSE UNCHANGED <<pipe, edges>>
    /\ UNCHANGED <<pc, events, timeout, stop_server, table, alarm, network, left,
                   active>>

-----------------------------------------------------------------------------
(* The event loop.                                                         *)

Readable(fd) ==
    CASE fd = listenfd -> backlog > 0
      [] fd = pipefd -> pipe # <<>>
      [] OTHER -> unread[fd] > 0 \/ fd \in fin \cup err

EpollWait ==
    LET reported == {fd \in edges : Readable(fd)} IN
    /\ pc = "wait" /\ reported # {}
    /\ pc' = "events" /\ events' = reported /\ edges' = {}
    /\ active' = [f \in Descriptors |-> IF f \in reported /\ unread[f] > 0
                                        THEN 3 * TIMESLOT ELSE active[f]]
    /\ UNCHANGED <<timeout, stop_server, table, signalling, network, left>>

Handle(fd) ==
    /\ pc = "events" /\ fd \in events
    /\ events' = events \ {fd}

\* One accept for the event, then the timer of the connection.  Line 187
\* deletes the timer that has just become part of the list.
Accept ==
    LET connfd == Min(Descriptors \ open) IN
    /\ Handle(listenfd) /\ freed = {}
    /\ Descriptors \ open # {}
    /\ backlog' = backlog - 1
    /\ open' = open \cup {connfd} /\ timers' = timers \cup {connfd}
    /\ expire' = [expire EXCEPT ![connfd] = 3 * TIMESLOT]
    /\ freed' \in {IF deleted THEN {connfd} ELSE {} : deleted \in DeletesAdded}
    /\ unread' = [unread EXCEPT ![connfd] = 0]
    /\ UNCHANGED <<pc, timeout, stop_server, signalling, fin, err, edges, left,
                   active>>

\* A failure is not looked at: users[-1] is written.
AcceptFails ==
    /\ Handle(listenfd) /\ AcceptMayFail
    /\ pc' = "undefined"
    /\ UNCHANGED <<timeout, stop_server, table, signalling, network, edges, left,
                   active>>

\* All signals that have come, in one recv.
MutSignalled == {Head(pipe)}
Signalled == ToSet(pipe)
ReadSignals ==
    /\ Handle(pipefd)
    /\ timeout' = (timeout \/ "ALRM" \in Signalled)
    /\ stop_server' = (stop_server \/ "TERM" \in Signalled)
    /\ pipe' = <<>>
    /\ UNCHANGED <<pc, table, alarm, signals, network, edges, left, active>>

\* One recv for the event: what the buffer does not hold stays, and so does the
\* end of the connection behind it.  The connection has its timer put off.
ReadData(f) ==
    /\ Handle(f) /\ unread[f] > 0 /\ freed = {}
    /\ \E rest \in 0 .. unread[f] - 1 : unread' = [unread EXCEPT ![f] = rest]
    /\ expire' = [expire EXCEPT ![f] = 3 * TIMESLOT]
    /\ UNCHANGED <<pc, timeout, stop_server, open, timers, freed, signalling, backlog,
                   fin, err, edges, left, active>>

\* cb_func, and the timers go: epoll and the system forget the descriptors.
CloseAll(gone) ==
    /\ open' = open \ gone /\ timers' = timers \ gone
    /\ expire' = [f \in Descriptors |-> IF f \in gone THEN 0 ELSE expire[f]]
    /\ active' = [f \in Descriptors |-> IF f \in gone THEN 0 ELSE active[f]]
    /\ fin' = fin \ gone /\ err' = err \ gone /\ edges' = edges \ gone
    /\ unread' = [f \in Descriptors |-> IF f \in gone THEN 0 ELSE unread[f]]
    /\ UNCHANGED <<freed, backlog>>

\* The client has closed the connection, or it was reset, which may take away
\* what was not yet read.
ReadEnd(f) ==
    /\ Handle(f) /\ freed = {}
    /\ unread[f] = 0 \/ f \in err
    /\ CloseAll({f})
    /\ UNCHANGED <<pc, timeout, stop_server, signalling, left>>

MutLoopOver == pc = "events"
LoopOver == pc = "events" /\ events = {}
Return == pc' = IF stop_server THEN "stopped" ELSE "wait"

NoTimeout ==
    /\ LoopOver /\ ~timeout
    /\ Return
    /\ UNCHANGED <<events, timeout, stop_server, table, signalling, network, edges,
                   left, active>>

\* timer_handler, behind all other events: what is due is closed, and only
\* now there will be another alarm.
Due == {f \in timers : expire[f] = 0}
MutRearm == alarm' = IF timers = {} THEN Off ELSE TIMESLOT
Rearm == alarm' = TIMESLOT
timer_handler ==
    /\ LoopOver /\ timeout /\ freed = {}
    /\ CloseAll(Due)
    /\ Rearm
    /\ timeout' = FALSE
    /\ Return
    /\ UNCHANGED <<events, stop_server, signals, pipe, left>>

\* The next use of a list with a freed timer in it.
UseFreed ==
    /\ freed # {}
    /\ \/ \E fd \in Descriptors \cup {listenfd} : Handle(fd)
       \/ LoopOver /\ timeout /\ UNCHANGED events
    /\ pc' = "undefined"
    /\ UNCHANGED <<timeout, stop_server, table, signalling, network, edges, left,
                   active>>

Server ==
    \/ EpollWait \/ AcceptFails \/ ReadSignals \/ NoTimeout \/ timer_handler
    \/ UseFreed
    \/ Accept \/ \E f \in Descriptors : ReadData(f) \/ ReadEnd(f)

Signals == {"ALRM", "TERM"}

Next ==
    \/ Connect \/ Terminate \/ \E f \in Descriptors : Say(f) \/ Leave(f)
    \/ TimePasses \/ AlarmRings \/ \E sig \in Signals : SigHandler(sig)
    \/ Server

\* Time passes, pending signals are delivered, and the server runs.
Spec ==
    /\ Init /\ [][Next]_vars
    /\ WF_vars(TimePasses) /\ WF_vars(AlarmRings)
    /\ \A sig \in Signals : WF_vars(SigHandler(sig))
    /\ WF_vars(Server)

-----------------------------------------------------------------------------
(* Properties.                                                             *)

\* The timers never stop: there is one SIGALRM at a time, timer_handler alone asks
\* for the next, and until the server ends it is somewhere between the alarm and
\* timer_handler.  Its byte is lost only in a pipe full of SIGTERMs, any of which
\* ends the server.
AlarmAlive ==
    Running =>
        \/ alarm # Off \/ "ALRM" \in signals \/ timeout
        \/ \E k \in DOMAIN pipe : pipe[k] \in {"ALRM", "TERM"}
        \/ stop_server

\* A connection is not closed for inactivity within 3 * TIMESLOT of
\* epoll_wait's last word that data had come: input that is reported together
\* with the alarm still counts, whichever is handled first.
ActiveKept ==
    [][timeout /\ ~timeout' => \A f \in open \ open' : active[f] = 0]_vars

\* No connection stays for ever: one whose client falls silent or leaves is
\* closed, by the timer if its end was not noticed behind its last data.  And
\* SIGTERM ends the server, whatever else is signalled.
NothingLingers ==
    /\ \A f \in Descriptors : f \in open ~> f \notin open \/ ~Running
    /\ "TERM" \in signals ~> ~Running
=============================================================================
