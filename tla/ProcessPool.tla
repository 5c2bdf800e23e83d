----------------------------- MODULE ProcessPool -----------------------------
(***************************************************************************)
(* The half-sync/half-async process pool of "15-1 processpool.h".          *)
(*                                                                         *)
(* A parent forks ProcessNumber children, each joined to it by a           *)
(* socketpair.  The parent watches the listening socket and hands every    *)
(* reported connection event to a child in round robin, by writing one     *)
(* integer to that child's pipe; the child that reads it accept()s.  Both  *)
(* sides turn signals into bytes of a signal pipe, so that one epoll loop  *)
(* sees all events.  All descriptors are registered EPOLLIN | EPOLLET.     *)
(*                                                                         *)
(* The kernel's part (pending signals, zombies, the accept backlog, socket *)
(* buffers, edge-triggered readiness) is state of the model; what a child  *)
(* does with a connection once it is accepted is not (class T).            *)
(***************************************************************************)
EXTENDS Integers, Sequences, FiniteSets

CONSTANTS
    ProcessNumber,   \* process_number, the size of the pool
    PipeCap,         \* notifications a parent-to-child socket buffers
    SigCap,          \* bytes the signal pipe buffers
    Backlog,         \* connections the listening socket queues
    MaxConns,        \* bound: connections the clients make
    MaxTerms,        \* bound: SIGTERM/SIGINT sent to the parent
    MaxCrashes,      \* bound: children that die, or are told to, by others
    AcceptMayFail    \* whether accept() may fail (EMFILE and the like)

ASSUME PoolSizeAssumption == ProcessNumber \in Nat /\ ProcessNumber > 0
ASSUME CapacityAssumption ==
    /\ PipeCap \in Nat /\ PipeCap > 0
    /\ SigCap \in Nat /\ SigCap > 0
    /\ Backlog \in Nat
ASSUME BoundAssumption ==
    /\ MaxConns \in Nat /\ MaxTerms \in Nat /\ MaxCrashes \in Nat
    /\ AcceptMayFail \in BOOLEAN

VARIABLES
    ppc,                  \* where the parent is
    nfork,                \* children forked so far
    m_pid,                \* m_sub_process[i].m_pid
    sub_process_counter,  \* next candidate of the round robin
    m_stop,               \* the parent's m_stop
    events,               \* reported, not yet handled events of the parent
    signals,              \* signal bytes read, not yet handled
    pReady,               \* edges the parent's epoll table holds
    pPending,             \* signals pending at the parent
    sigPipe,              \* bytes in the parent's signal pipe
    child,                \* life cycle of child i
    cStop,                \* child i's m_stop
    cEvents,              \* child i's reported, not yet handled events
    cReady,               \* edges child i's epoll table holds
    cTerm,                \* how far a SIGTERM has come in child i
    pipe,                 \* notifications in the pipe to child i
    backlog,              \* connections waiting for accept()
    accepted,             \* connections accepted so far
    arrived, terms, crashes, \* what the environment has spent of its bounds
    since                 \* history: since[j][t] counts the notifications
                          \* to child t after the last one to child j

parentVars == <<ppc, nfork, m_pid, sub_process_counter, m_stop, events,
                signals, since>>
signalVars == <<pReady, pPending, sigPipe>>
childVars  == <<child, cStop, cEvents, cReady, cTerm, pipe>>
envVars    == <<backlog, accepted, arrived, terms, crashes>>
vars == <<ppc, nfork, m_pid, sub_process_counter, m_stop, events, signals,
          pReady, pPending, sigPipe, child, cStop, cEvents, cReady, cTerm,
          pipe, backlog, accepted, arrived, terms, crashes, since>>

-----------------------------------------------------------------------------
Idx == 0 .. ProcessNumber - 1

\* The process id fork() returns for the i-th child: any injective choice of
\* positive numbers.
Pid(i) == i + 1

Running(i) == child[i] \in {"start", "loop"}

\* How many steps of i = (i + 1) % m_process_number lead from c to i.
Dist(c, i) == IF i >= c THEN i - c ELSE i - c + ProcessNumber

\* The child the do/while scan stops at: the first one, counted cyclically
\* from the counter, that is not marked as gone.
IsTarget(t) ==
    /\ m_pid[t] # -1
    /\ \A j \in Idx : m_pid[j] # -1 =>
         Dist(sub_process_counter, t) <= Dist(sub_process_counter, j)

MutNextCounter(i) == i
NextCounter(i) == IF i + 1 = ProcessNumber THEN 0 ELSE i + 1

\* m_stop after a SIGCHLD: true, then false again if any child is left.
AllGone(pids) == \A i \in Idx : pids[i] = -1

\* The table after the pids of the children of Z were collected.
MutMarked(Z) ==
    [i \in Idx |-> IF \E z \in Z : m_pid[i] = Pid(z) /\ \A y \in Z : y <= z
                   THEN -1 ELSE m_pid[i]]
Marked(Z) ==
    [i \in Idx |-> IF \E z \in Z : m_pid[i] = Pid(z) THEN -1 ELSE m_pid[i]]

\* The children whose pids one SIGCHLD's waitpid(-1, WNOHANG) loop collects.
MutCollected == {i \in Idx : child[i] = "zombie"
                    /\ \A j \in Idx : child[j] = "zombie" => i <= j}
Collected == {i \in Idx : child[i] = "zombie"}

\* The orders in which one epoll_wait can report the events of S.
Orders(S) ==
    {q \in {<<"listen">>, <<"sig">>, <<"listen", "sig">>, <<"sig", "listen">>} :
        {q[k] : k \in DOMAIN q} = S}

\* An edge is reported only if the descriptor is still readable.
Readable(e) == IF e = "listen" THEN backlog > 0 ELSE sigPipe # <<>>

\* epoll_wait empties the list of edges it reports from.
MutKeep(ready) == ready
Keep(ready) == {}

-----------------------------------------------------------------------------
Init ==
    /\ ppc = "fork" /\ nfork = 0
    /\ m_pid = [i \in Idx |-> -1]
    /\ sub_process_counter = 0
    /\ m_stop = FALSE
    /\ events = <<>> /\ signals = <<>>
    /\ pReady = {} /\ pPending = {} /\ sigPipe = <<>>
    /\ child = [i \in Idx |-> "none"]
    /\ cStop = [i \in Idx |-> FALSE]
    /\ cEvents = [i \in Idx |-> {}]
    /\ cReady = [i \in Idx |-> {}]
    /\ cTerm = [i \in Idx |-> "no"]
    /\ pipe = [i \in Idx |-> 0]
    /\ backlog = 0 /\ accepted = 0
    /\ arrived = 0 /\ terms = 0 /\ crashes = 0
    /\ since = [j \in Idx |-> [t \in Idx |-> 0]]

-----------------------------------------------------------------------------
(* The parent.                                                             *)

\* One round of the constructor's loop: socketpair, fork, remember the pid.
Fork ==
    /\ ppc = "fork" /\ nfork < ProcessNumber
    /\ m_pid' = [m_pid EXCEPT ![nfork] = Pid(nfork)]
    /\ child' = [child EXCEPT ![nfork] = "start"]
    /\ nfork' = nfork + 1
    /\ ppc' = IF nfork' = ProcessNumber THEN "setup" ELSE "fork"
    /\ UNCHANGED <<sub_process_counter, m_stop, events, signals, since,
                   signalVars, cStop, cEvents, cReady, cTerm, pipe, envVars>>

\* setup_sig_pipe, then the listening socket joins the epoll table: a
\* connection that is already queued makes it ready at once.
Setup ==
    /\ ppc = "setup"
    /\ ppc' = "loop"
    /\ pReady' = IF backlog > 0 THEN {"listen"} ELSE {}
    /\ UNCHANGED <<nfork, m_pid, sub_process_counter, m_stop, events, signals,
                   since, pPending, sigPipe, childVars, envVars>>

\* The head of while (!m_stop): epoll_wait reports every ready descriptor
\* once, in any order.
ParentEpollWait ==
    /\ ppc = "loop" /\ ~m_stop /\ events = <<>> /\ signals = <<>>
    /\ \E evs \in Orders({e \in pReady : Readable(e)}) : events' = evs
    /\ pReady' = Keep(pReady)
    /\ UNCHANGED <<ppc, nfork, m_pid, sub_process_counter, m_stop, signals,
                   since, pPending, sigPipe, childVars, envVars>>

Handling(e) ==
    /\ ppc = "loop" /\ signals = <<>>
    /\ events # <<>> /\ Head(events) = e

\* A listen event with no child left: m_stop, and break out of the batch.
ParentNoChild ==
    /\ Handling("listen")
    /\ \A i \in Idx : m_pid[i] = -1
    /\ m_stop' = TRUE
    /\ events' = <<>>
    /\ UNCHANGED <<ppc, nfork, m_pid, sub_process_counter, signals, since,
                   signalVars, childVars, envVars>>

\* send() of new_conn.  The parent's end of the pipe is blocking: while the
\* buffer of a living child is full the parent stays here.  A child that has
\* died, reaped or not, has closed its end: the send fails with EPIPE
\* (SIGPIPE is ignored), nobody looks at the result and nothing is stored.
Send(t) ==
    \/ /\ Running(t) /\ pipe[t] < PipeCap
       /\ pipe' = [pipe EXCEPT ![t] = @ + 1]
       /\ cReady' = [cReady EXCEPT ![t] =
                        IF child[t] = "loop" THEN @ \cup {"pipe"} ELSE @]
    \/ /\ ~Running(t)
       /\ UNCHANGED <<pipe, cReady>>

\* A listen event: round robin over the children that are not marked gone.
ParentListen ==
    /\ Handling("listen")
    /\ \E t \in Idx :
         /\ IsTarget(t)
         /\ sub_process_counter' = NextCounter(t)
         /\ Send(t)
         /\ since' = [j \in Idx |-> [k \in Idx |->
                        IF j = t THEN 0
                        ELSE IF k = t THEN since[j][k] + 1 ELSE since[j][k]]]
    /\ events' = Tail(events)
    /\ UNCHANGED <<ppc, nfork, m_pid, m_stop, signals, signalVars, child,
                   cStop, cEvents, cTerm, envVars>>

\* A signal-pipe event: one recv takes every byte (the buffer of 1024 holds
\* more than the socket does).
ParentRecvSignals ==
    /\ Handling("sig")
    /\ signals' = sigPipe
    /\ sigPipe' = <<>>
    /\ events' = Tail(events)
    /\ UNCHANGED <<ppc, nfork, m_pid, sub_process_counter, m_stop, since,
                   pReady, pPending, childVars, envVars>>

HandlingSignal(s) == ppc = "loop" /\ signals # <<>> /\ Head(signals) = s

\* case SIGCHLD: collect every zombie, mark it in the table, and stop when
\* the table is empty.
ParentSigChld ==
    /\ HandlingSignal("CHLD")
    /\ child' = [i \in Idx |-> IF i \in Collected THEN "reaped" ELSE child[i]]
    /\ m_pid' = Marked(Collected)
    /\ m_stop' = AllGone(m_pid')
    /\ signals' = Tail(signals)
    /\ UNCHANGED <<ppc, nfork, sub_process_counter, events, since, signalVars,
                   cStop, cEvents, cReady, cTerm, pipe, envVars>>

\* kill(pid, SIGTERM), seen from child i: nothing happens to one that is
\* dead, and a second SIGTERM adds nothing to the first.
TermSent(i) == IF Running(i) /\ cTerm[i] = "no" THEN "pending" ELSE cTerm[i]

\* case SIGTERM, SIGINT: kill every child of the table.
MutKilled == {i \in Idx : m_pid[i] # -1 /\ i # 0}
Killed == {i \in Idx : m_pid[i] # -1}
ParentSigTerm ==
    /\ HandlingSignal("TERM")
    /\ cTerm' = [i \in Idx |-> IF i \in Killed THEN TermSent(i) ELSE cTerm[i]]
    /\ signals' = Tail(signals)
    /\ UNCHANGED <<ppc, nfork, m_pid, sub_process_counter, m_stop, events,
                   since, signalVars, child, cStop, cEvents, cReady, pipe,
                   envVars>>

\* while (!m_stop) ends, run_parent returns, main returns.
ParentExit ==
    /\ ppc = "loop" /\ m_stop /\ events = <<>> /\ signals = <<>>
    /\ ppc' = "exited"
    /\ UNCHANGED <<nfork, m_pid, sub_process_counter, m_stop, events, signals,
                   since, signalVars, childVars, envVars>>

\* sig_handler in the parent: one byte to the non-blocking signal pipe, lost
\* when the pipe is full.
DeliverParent(s) ==
    /\ ppc = "loop" /\ s \in pPending
    /\ pPending' = pPending \ {s}
    /\ \/ /\ Len(sigPipe) < SigCap
          /\ sigPipe' = Append(sigPipe, s)
          /\ pReady' = pReady \cup {"sig"}
       \/ /\ Len(sigPipe) >= SigCap
          /\ UNCHANGED <<sigPipe, pReady>>
    /\ UNCHANGED <<parentVars, childVars, envVars>>

-----------------------------------------------------------------------------
(* The children.                                                           *)

\* Child i is gone: its descriptors close, what its pipe held is lost, and
\* the parent gets SIGCHLD, which is discarded unless its handler is set.
Die(i) ==
    /\ child' = [child EXCEPT ![i] = "zombie"]
    /\ cEvents' = [cEvents EXCEPT ![i] = {}]
    /\ cReady' = [cReady EXCEPT ![i] = {}]
    /\ pipe' = [pipe EXCEPT ![i] = 0]
    /\ pPending' = IF ppc = "loop" THEN pPending \cup {"CHLD"} ELSE pPending

MutChildSetup(i) ==
    /\ child[i] = "start"
    /\ child' = [child EXCEPT ![i] = "loop"]
    /\ UNCHANGED <<parentVars, signalVars, cStop, cEvents, cReady, cTerm, pipe,
                   envVars>>

\* setup_sig_pipe, then the pipe joins the epoll table: a notification that
\* is already in it makes it ready at once.
ChildSetup(i) ==
    /\ child[i] = "start"
    /\ child' = [child EXCEPT ![i] = "loop"]
    /\ cReady' = [cReady EXCEPT ![i] = IF pipe[i] > 0 THEN {"pipe"} ELSE {}]
    /\ UNCHANGED <<parentVars, signalVars, cStop, cEvents, cTerm, pipe, envVars>>

ChildEpollWait(i) ==
    /\ child[i] = "loop" /\ ~cStop[i] /\ cEvents[i] = {} /\ cReady[i] # {}
    /\ cEvents' = [cEvents EXCEPT ![i] = cReady[i]]
    /\ cReady' = [cReady EXCEPT ![i] = Keep(cReady[i])]
    /\ UNCHANGED <<parentVars, signalVars, child, cStop, cTerm, pipe, envVars>>

\* A pipe event: recv ONE integer (EAGAIN is let through), then accept, which
\* fails when no connection is queued and may fail for want of resources.
ChildPipe(i) ==
    /\ child[i] = "loop" /\ "pipe" \in cEvents[i]
    /\ cEvents' = [cEvents EXCEPT ![i] = @ \ {"pipe"}]
    /\ pipe' = [pipe EXCEPT ![i] = IF @ > 0 THEN @ - 1 ELSE 0]
    /\ \/ /\ backlog > 0
          /\ backlog' = backlog - 1
          /\ accepted' = accepted + 1
       \/ /\ AcceptMayFail \/ backlog = 0
          /\ UNCHANGED <<backlog, accepted>>
    /\ UNCHANGED <<parentVars, signalVars, child, cStop, cReady, cTerm,
                   arrived, terms, crashes>>

\* A signal event that holds SIGTERM or SIGINT.
ChildSig(i) ==
    /\ child[i] = "loop" /\ "sig" \in cEvents[i]
    /\ cEvents' = [cEvents EXCEPT ![i] = @ \ {"sig"}]
    /\ cStop' = [cStop EXCEPT ![i] = TRUE]
    /\ UNCHANGED <<parentVars, signalVars, child, cReady, cTerm, pipe, envVars>>

\* while (!m_stop) ends, run_child returns, main returns.
ChildExit(i) ==
    /\ child[i] = "loop" /\ cStop[i] /\ cEvents[i] = {}
    /\ Die(i)
    /\ UNCHANGED <<parentVars, pReady, sigPipe, cStop, cTerm, envVars>>

\* A pending SIGTERM reaches child i: its handler writes the byte, or, if the
\* handler is not installed yet, the default action ends the process.
DeliverChild(i) ==
    /\ cTerm[i] = "pending" /\ Running(i)
    /\ cTerm' = [cTerm EXCEPT ![i] = "piped"]
    /\ \/ /\ child[i] = "loop"
          /\ cReady' = [cReady EXCEPT ![i] = @ \cup {"sig"}]
          /\ UNCHANGED <<child, cEvents, pipe, pPending>>
       \/ /\ child[i] = "start"
          /\ Die(i)
    /\ UNCHANGED <<parentVars, pReady, sigPipe, cStop, envVars>>

-----------------------------------------------------------------------------
(* The environment.                                                        *)

\* A client connects; the arrival is an edge on the listening socket.
Connect ==
    /\ arrived < MaxConns /\ backlog < Backlog /\ ppc # "exited"
    /\ arrived' = arrived + 1
    /\ backlog' = backlog + 1
    /\ pReady' = IF ppc = "loop" THEN pReady \cup {"listen"} ELSE pReady
    /\ UNCHANGED <<parentVars, pPending, sigPipe, childVars, accepted, terms,
                   crashes>>

\* SIGTERM or SIGINT to the parent; until the handlers are set it kills.
Terminate ==
    /\ terms < MaxTerms
    /\ terms' = terms + 1
    /\ \/ /\ ppc \in {"fork", "setup"}
          /\ ppc' = "killed"
          /\ UNCHANGED pPending
       \/ /\ ppc = "loop"
          /\ pPending' = pPending \cup {"TERM"}
          /\ UNCHANGED ppc
    /\ UNCHANGED <<nfork, m_pid, sub_process_counter, m_stop, events, signals,
                   since, pReady, sigPipe, childVars, backlog, accepted,
                   arrived, crashes>>

\* A child dies on its own (a failed assert, SIGKILL), at any point.
ChildCrash(i) ==
    /\ crashes < MaxCrashes /\ Running(i)
    /\ crashes' = crashes + 1
    /\ Die(i)
    /\ UNCHANGED <<parentVars, pReady, sigPipe, cStop, cTerm, backlog,
                   accepted, arrived, terms>>

\* Somebody else sends SIGTERM to one child.
TerminateChild(i) ==
    /\ crashes < MaxCrashes /\ Running(i) /\ cTerm[i] = "no"
    /\ crashes' = crashes + 1
    /\ cTerm' = [cTerm EXCEPT ![i] = TermSent(i)]
    /\ UNCHANGED <<parentVars, signalVars, child, cStop, cEvents, cReady, pipe,
                   backlog, accepted, arrived, terms>>

-----------------------------------------------------------------------------
ParentStep ==
    \/ Fork \/ Setup \/ ParentEpollWait \/ ParentNoChild \/ ParentListen
    \/ ParentRecvSignals \/ ParentSigChld \/ ParentSigTerm \/ ParentExit

ChildStep(i) ==
    \/ ChildSetup(i) \/ ChildEpollWait(i) \/ ChildPipe(i) \/ ChildSig(i)
    \/ ChildExit(i)

Next ==
    \/ ParentStep
    \/ \E s \in {"CHLD", "TERM"} : DeliverParent(s)
    \/ \E i \in Idx : ChildStep(i) \/ DeliverChild(i)
    \/ Connect \/ Terminate
    \/ \E i \in Idx : ChildCrash(i) \/ TerminateChild(i)

Spec == Init /\ [][Next]_vars

\* The kernel runs every runnable process and delivers every pending signal.
Fairness ==
    /\ WF_vars(ParentStep)
    /\ \A s \in {"CHLD", "TERM"} : WF_vars(DeliverParent(s))
    /\ \A i \in Idx : WF_vars(ChildStep(i)) /\ WF_vars(DeliverChild(i))

FairSpec == Spec /\ Fairness

-----------------------------------------------------------------------------
(* Properties.                                                             *)

ParentType ==
    /\ ppc \in {"fork", "setup", "loop", "exited", "killed"}
    /\ nfork \in 0 .. ProcessNumber
    /\ m_pid \in [Idx -> {-1} \cup {Pid(i) : i \in Idx}]
    /\ sub_process_counter \in Idx
    /\ m_stop \in BOOLEAN
    /\ events \in Seq({"listen", "sig"})
    /\ signals \in Seq({"CHLD", "TERM"})
    /\ since \in [Idx -> [Idx -> Nat]]
SignalType ==
    /\ pReady \in SUBSET {"listen", "sig"}
    /\ pPending \in SUBSET {"CHLD", "TERM"}
    /\ sigPipe \in Seq({"CHLD", "TERM"})
    /\ Len(sigPipe) <= SigCap
ChildType ==
    /\ child \in [Idx -> {"none", "start", "loop", "zombie", "reaped"}]
    /\ cStop \in [Idx -> BOOLEAN]
    /\ cEvents \in [Idx -> SUBSET {"pipe", "sig"}]
    /\ cReady \in [Idx -> SUBSET {"pipe", "sig"}]
    /\ cTerm \in [Idx -> {"no", "pending", "piped"}]
    /\ pipe \in [Idx -> 0 .. PipeCap]
EnvType ==
    /\ backlog \in 0 .. Backlog
    /\ accepted \in Nat
    /\ arrived \in 0 .. MaxConns
    /\ terms \in 0 .. MaxTerms
    /\ crashes \in 0 .. MaxCrashes

\* Every variable stays in its type; in particular no pipe holds more than
\* its buffer, and no signal pipe either.
TypeOK == ParentType /\ SignalType /\ ChildType /\ EnvType

\* The table of run_parent is exact: an entry holds a pid as long as the
\* kernel keeps that process or its zombie, and -1 from the moment waitpid
\* has released the pid.  So kill() and send() never address a pid or a
\* descriptor that may have been given to somebody else.
TableAgrees ==
    \A i \in Idx :
        m_pid[i] = IF child[i] \in {"none", "reaped"} THEN -1 ELSE Pid(i)

\* "If all child processes have exited, the parent process also exits" and
\* only then: a parent that leaves run_parent leaves no child behind.
NoOrphans == ppc = "exited" => \A i \in Idx : child[i] = "reaped"

\* Round robin among the children that are there: between two turns of a
\* child that is in the table no other child gets more than one turn,
\* whatever children die in between.
RoundRobin ==
    \A j, t \in Idx : m_pid[j] # -1 => since[j][t] <= 1

\* How many edges for event e a pair of edge sets holds.
Edges(e, ready, evs) ==
    (IF e \in ready THEN 1 ELSE 0) + (IF e \in evs THEN 1 ELSE 0)

\* A child that handles a pipe event finds a notification to read: the recv
\* never meets EAGAIN, whose case falls through to accept().
EdgeBacked ==
    \A i \in Idx : Edges("pipe", cReady[i], cEvents[i]) <= pipe[i]

\* The parent's send blocks on a full pipe only while the child is about to
\* read: a registered pipe that is full has an edge the child has yet to
\* handle.  (Notifications do pile up unread, one recv per edge, but the one
\* that fills the pipe is itself an edge.)
FullPipeHasEdge ==
    \A i \in Idx : child[i] = "loop" /\ pipe[i] = PipeCap
                      => "pipe" \in cReady[i] \cup cEvents[i]

\* Edges and notifications of a pipe keep in step: neither recv nor send
\* meets a pipe that it cannot go on with.
EdgesMatch == EdgeBacked /\ FullPipeHasEdge

\* The notifications in all the pipes, by child and place in its pipe.
Notified == {n \in Idx \X (1 .. PipeCap) : n[2] <= pipe[n[1]]}

\* A notification, sent or still to be sent, always has a connection of its
\* own waiting in the backlog: accept() after a read never finds it empty,
\* whichever child accepts whose connection.
NotificationBacked ==
    Cardinality(Notified) + Edges("listen", pReady, {events[k] : k \in DOMAIN events})
        <= backlog

\* A child that dies while the parent's handlers are set is collected, even
\* when the SIGCHLDs of several children merge into one.
DeathNoticed ==
    \A i \in Idx :
        []((ppc = "loop" /\ Running(i))
              => [](child[i] = "zombie" => <>(child[i] = "reaped")))

\* A SIGTERM or SIGINT that reaches the parent's handler while a child is
\* running ends the whole pool, whatever the children are doing.
ShutdownCompletes ==
    (ppc = "loop" /\ "TERM" \in pPending /\ \E i \in Idx : Running(i))
        ~> (ppc = "exited")

\* An edge on the listening socket leads to at least one more accept(), as
\* long as no child dies and nobody shuts the pool down.
AcceptProgress ==
    \A n \in 0 .. MaxConns - 1 :
        (ppc = "loop" /\ "listen" \in pReady /\ accepted = n)
            ~> (accepted > n \/ crashes > 0 \/ terms > 0)
=============================================================================
