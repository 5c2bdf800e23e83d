---------------------------- MODULE ChatroomServer ----------------------------
(***************************************************************************)
(* main of "9-7 chatroom_server.cpp": a chat server around poll.  What one *)
(* user says is to be written to all others.  One action per branch of the *)
(* loop over the entries of fds; clients act between any two iterations.   *)
(*                                                                         *)
(* A write_buf points into the buffer of the user who has spoken; what is  *)
(* in a buffer is the number of the recv that has filled it.  An error of  *)
(* the listening socket is left out, and a connection can always be        *)
(* written to.                                                             *)
(***************************************************************************)
EXTENDS Integers, FiniteSets, FiniteSetsExt

CONSTANTS
    USER_LIMIT,
    Descriptors,   \* of connections; the system hands out the smallest
    Bounds         \* bounds: how often clients "connect", "say" something and
                   \* "leave", how often accept fails ("nofd"), and how often
                   \* anything of this happens ("act")

listenfd == 0

ASSUME LimitAssumption == USER_LIMIT \in Nat
ASSUME DescriptorAssumption ==
    /\ Descriptors \subseteq Nat \ {listenfd} /\ IsFiniteSet(Descriptors)
    /\ Cardinality(Descriptors) > USER_LIMIT
ASSUME BoundsAssumption == Bounds \in [{"connect", "say", "leave", "nofd", "act"} -> Nat]

VARIABLES
    fds, user_counter,   \* of main
    i,                   \* of the loop; poll is next when i > user_counter
    write_buf, buf,      \* of users[], by descriptor: whose buf write_buf
                         \* points to, and what was last received
    backlog, open, unread, hup, err,   \* of the system: connections not yet
                         \* accepted, descriptors in use, data not yet read,
                         \* connections closed or reset by the client
    left,                \* of the bounds
    todo,                \* history: what poll reported and is not yet handled
    heard,               \* history: how many recvs have brought something
    owed                 \* history: the newest message that was received from
                         \* another user and is not yet written

vars == <<fds, user_counter, i, write_buf, buf, backlog, open, unread, hup, err,
          left, todo, heard, owed>>
users == <<write_buf, buf, heard, owed>>
program == <<fds, user_counter, i, todo, users>>
system == <<backlog, open, unread, hup, err>>

-----------------------------------------------------------------------------
\* What a recv brings: who has sent it, and which one it is.  A buffer in
\* which there is nothing, a pointer that is null.
Message == [by : Descriptors, n : Nat]
Nothing == [by |-> listenfd, n |-> 0]
null == listenfd

Entries == 0 .. USER_LIMIT
Bits == {"IN", "OUT", "RDHUP", "ERR"}

Init ==
    /\ fds = [j \in Entries |->
                 IF j = 0 THEN [fd |-> listenfd, events |-> {"IN", "ERR"}, revents |-> {}]
                 ELSE [fd |-> -1, events |-> {}, revents |-> {}]]
    /\ user_counter = 0 /\ i = 1
    /\ write_buf = [f \in Descriptors |-> null]
    /\ buf = [f \in Descriptors |-> Nothing]
    /\ backlog = 0 /\ open = {} /\ hup = {} /\ err = {}
    /\ unread = [f \in Descriptors |-> 0]
    /\ left = Bounds
    /\ todo = {} /\ heard = 0 /\ owed = [f \in Descriptors |-> Nothing]

-----------------------------------------------------------------------------
(* The clients and the system.                                             *)

Spend(what) ==
    /\ left[what] > 0 /\ left["act"] > 0
    /\ left' = [left EXCEPT ![what] = @ - 1, !["act"] = @ - 1]

Connect ==
    /\ Spend("connect")
    /\ backlog' = backlog + 1
    /\ UNCHANGED <<program, open, unread, hup, err>>

Say(f) ==
    /\ f \in open \ hup /\ Spend("say")
    /\ unread' = [unread EXCEPT ![f] = @ + 1]
    /\ UNCHANGED <<program, backlog, open, hup, err>>

Leave(f) ==
    /\ f \in open \ hup /\ Spend("leave")
    /\ hup' = hup \cup {f}
    /\ UNCHANGED <<program, backlog, open, unread, err>>

\* A reset.  Whether what was not yet read survives it is up to the system.
Reset(f) ==
    /\ f \in open \ hup /\ Spend("leave")
    /\ hup' = hup \cup {f} /\ err' = err \cup {f}
    /\ unread' \in {unread, [unread EXCEPT ![f] = 0]}
    /\ UNCHANGED <<program, backlog, open>>

\* What poll reports of an entry: errors even if nobody asks for them.
Reported(entry) ==
    IF entry.fd = listenfd THEN IF backlog > 0 THEN {"IN"} ELSE {}
    ELSE LET f == entry.fd IN
         {e \in entry.events \cup {"ERR"} :
             \/ e = "IN" /\ (unread[f] > 0 \/ f \in hup)
             \/ e = "RDHUP" /\ f \in hup
             \/ e = "ERR" /\ f \in err
             \/ e = "OUT"}

Poll ==
    LET polled == [j \in Entries |-> IF j > user_counter THEN fds[j]
                                     ELSE [fds[j] EXCEPT !.revents = Reported(fds[j])]]
        found == {j \in 0 .. user_counter : polled[j].revents # {}}
    IN
    /\ i > user_counter
    /\ found # {}
    /\ fds' = polled
    /\ i' = 0
    /\ todo' = {fds[j].fd : j \in found}
    /\ UNCHANGED <<user_counter, users, system, left>>

-----------------------------------------------------------------------------
(* The loop.  The branches are tried in this order: a new connection, an   *)
(* error, a client that left, input, output.                               *)

Event(e) == e \in fds[i].revents

\* The iteration ends with ++i.
Entry == i <= user_counter /\ todo' = todo \ {fds[i].fd}
GoOn == i' = i + 1

NothingReported ==
    /\ Entry /\ fds[i].revents = {}
    /\ GoOn
    /\ UNCHANGED <<fds, user_counter, users, system, left>>

NewConnection == Entry /\ fds[i].fd = listenfd /\ Event("IN") /\ GoOn

\* accept fails, for want of a descriptor for example.
AcceptFails ==
    /\ NewConnection /\ Spend("nofd")
    /\ UNCHANGED <<fds, user_counter, users, system>>

\* Too many users: the connection is told so and closed at once.
MutFull == user_counter > USER_LIMIT
Full == user_counter >= USER_LIMIT
AcceptFull ==
    /\ NewConnection /\ Full
    /\ backlog' = backlog - 1
    /\ UNCHANGED <<fds, user_counter, users, open, unread, hup, err, left>>

\* write_buf and buf are what is left there of the descriptor's last user.
AcceptUser ==
    LET connfd == Min(Descriptors \ open) IN
    /\ NewConnection /\ ~Full
    /\ user_counter' = user_counter + 1
    /\ fds' = [fds EXCEPT ![user_counter + 1] =
                  [fd |-> connfd, events |-> {"IN", "RDHUP", "ERR"}, revents |-> {}]]
    /\ backlog' = backlog - 1
    /\ open' = open \cup {connfd}
    /\ unread' = [unread EXCEPT ![connfd] = 0]
    /\ UNCHANGED <<users, hup, err, left>>

User == Entry /\ fds[i].fd # listenfd

\* getsockopt clears the error; that the client is gone remains.
ErrorSeen ==
    /\ User /\ Event("ERR")
    /\ err' = err \ {fds[i].fd}
    /\ GoOn
    /\ UNCHANGED <<fds, user_counter, users, backlog, open, unread, hup, left>>

\* The connection of the entry is closed.  The last entry takes its place and
\* is next; what is known of the last user is copied along.  Nothing is owed to
\* the one that leaves, nor what it has said to anybody.  (bufs: the buffers.)
MutRemove(bufs) ==
    LET f == fds[i].fd
        last == fds[user_counter].fd
    IN
    /\ open' = open \ {f} /\ hup' = hup \ {f} /\ err' = err \ {f}
    /\ write_buf' = [write_buf EXCEPT ![f] = write_buf[last]]
    /\ buf' = [bufs EXCEPT ![f] = bufs[last]]
    /\ owed' = [g \in Descriptors |-> IF g = f \/ owed[g].by = f THEN Nothing
                                      ELSE owed[g]]
    /\ fds' = [fds EXCEPT ![i] = fds[user_counter]]
    /\ user_counter' = user_counter - 1
    /\ GoOn
    /\ UNCHANGED <<heard, backlog, unread, left>>
Remove(bufs) ==
    LET f == fds[i].fd
        last == fds[user_counter].fd
    IN
    /\ open' = open \ {f} /\ hup' = hup \ {f} /\ err' = err \ {f}
    /\ write_buf' = [write_buf EXCEPT ![f] = write_buf[last]]
    /\ buf' = [bufs EXCEPT ![f] = bufs[last]]
    /\ owed' = [g \in Descriptors |-> IF g = f \/ owed[g].by = f THEN Nothing
                                      ELSE owed[g]]
    /\ fds' = [fds EXCEPT ![i] = fds[user_counter]]
    /\ user_counter' = user_counter - 1
    /\ i' = i
    /\ UNCHANGED <<heard, backlog, unread, left>>

UserLeft == User /\ ~Event("ERR") /\ Event("RDHUP") /\ Remove(buf)

Input == User /\ fds[i].revents \cap {"ERR", "RDHUP"} = {} /\ Event("IN")

\* One recv: what was said in several sends may come as one.  It is to be
\* written to everybody else, from the buffer that it is in; what they had not
\* been written yet is forgotten.  The end of the connection is left alone.
\* events |= ~POLLIN sets the other bits and leaves POLLIN.
MutOthers == {j \in 1 .. user_counter - 1 : j # i}
Others == {j \in 1 .. user_counter : j # i}
Pointing(f, told) == [g \in Descriptors |->
                        IF \E j \in told : fds[j].fd = g THEN f ELSE write_buf[g]]
Read ==
    LET f == fds[i].fd
        told == IF unread[f] > 0 THEN Others ELSE {}
        message == IF unread[f] > 0 THEN [by |-> f, n |-> heard + 1] ELSE Nothing
    IN
    /\ Input /\ (unread[f] > 0 \/ f \notin err)
    /\ \E rest \in {0} \cup 0 .. unread[f] - 1 :
           unread' = [unread EXCEPT ![f] = rest]
    /\ buf' = [buf EXCEPT ![f] = message]
    /\ write_buf' = Pointing(f, told)
    /\ heard' = IF unread[f] > 0 THEN heard + 1 ELSE heard
    /\ owed' = IF unread[f] > 0
               THEN [g \in Descriptors |-> IF g \in open \ {f} THEN message ELSE owed[g]]
               ELSE owed
    /\ fds' = [j \in Entries |->
                  IF j \in told
                  THEN [fds[j] EXCEPT !.events = @ \cup (Bits \ {"IN"}) \cup {"OUT"}]
                  ELSE fds[j]]
    /\ GoOn
    /\ UNCHANGED <<user_counter, backlog, open, hup, err, left>>

\* Since poll, a reset has taken away what there was to read; the buffer has
\* been cleared all the same.
ReadError ==
    /\ Input /\ unread[fds[i].fd] = 0 /\ fds[i].fd \in err
    /\ Remove([buf EXCEPT ![fds[i].fd] = Nothing])

Output == User /\ fds[i].revents = {"OUT"} /\ GoOn

NothingToWrite ==
    /\ Output /\ write_buf[fds[i].fd] = null
    /\ UNCHANGED <<fds, user_counter, users, system, left>>

\* What the buffer holds by now is written.  events |= ~POLLOUT clears nothing
\* either.
Write ==
    LET f == fds[i].fd IN
    /\ Output /\ write_buf[f] # null
    /\ owed' = IF buf[write_buf[f]] = owed[f] THEN [owed EXCEPT ![f] = Nothing] ELSE owed
    /\ write_buf' = [write_buf EXCEPT ![f] = null]
    /\ fds' = [fds EXCEPT ![i].events = @ \cup (Bits \ {"OUT"}) \cup {"IN"}]
    /\ err' = err \ {f}
    /\ UNCHANGED <<user_counter, buf, heard, backlog, open, unread, hup, left>>

Server ==
    \/ Poll \/ NothingReported \/ AcceptFails \/ AcceptFull \/ AcceptUser
    \/ ErrorSeen \/ UserLeft \/ Read \/ ReadError \/ NothingToWrite \/ Write

Next ==
    \/ Connect \/ \E f \in Descriptors : Say(f) \/ Leave(f) \/ Reset(f)
    \/ Server

\* The server runs; nobody has to connect, speak or leave.
Spec == Init /\ [][Next]_vars /\ WF_vars(Server)

-----------------------------------------------------------------------------
(* Properties.                                                             *)

Users == {fds[j].fd : j \in 1 .. user_counter}

\* The entries in use are the open connections, each once and not more than
\* the limit, however they have been moved: nobody is polled twice, and no
\* connection is forgotten or polled after it was closed.
TableExact ==
    /\ user_counter <= USER_LIMIT
    /\ Users = open /\ Cardinality(open) = user_counter
    /\ fds[0].fd = listenfd
    /\ hup \subseteq open

\* What poll has reported and is not yet handled is found, each descriptor
\* once, in the entries the loop has still to go through, however many of them
\* have taken the place of others since.
BatchExact ==
    LET ahead == {j \in i .. user_counter : fds[j].revents # {}} IN
    /\ {fds[j].fd : j \in ahead} = todo
    /\ Cardinality(ahead) = Cardinality(todo)

\* Whoever leaves is noticed and forgotten, although a client that has left is
\* also readable and writable, and a reset is reported as an error first; and
\* the newest message reaches everybody else who stays, unless its sender leaves
\* before, although it is written from a buffer which its sender, or another
\* user through the same pointer, may have changed by then.  (Older messages
\* that somebody was not yet written are lost, and so are those of a user that
\* has left.)
EveryoneServed ==
    \A f \in Descriptors : /\ f \in hup ~> f \notin open
                           /\ owed[f] # Nothing ~> owed[f] = Nothing
=============================================================================
