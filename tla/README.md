# Formal models of YouShuang

The repository is a collection of Linux server programs: small demonstrations
of single system calls (files `5-*` to `7-*`) and, from chapter 8 on, the parts
of a complete event-driven server: parsers, chat servers, timer containers, a
process pool, a thread pool and an HTTP server built on the thread pool.  This
directory holds TLA+ models of the parts that have state worth arguing about,
TLC configurations that check them on small instances and proofs, checked by
TLAPS, of theorems that hold for every value of the constants.

    tlc -config ProcessPool.cfg ProcessPool             model checking
    tlapm ProcessPoolProofs.tla                          proofs

`PROJECT.json` lists the components, the runs, the source lines every
definition translates, the disagreements between code and comments that the
runs exhibit, the hazards and the theorems.

## 1. Inventory

### The process pool: `15-1 processpool.h`, used by `15-2 pool_CGIServer.cpp`

*State.*  Parent: `m_sub_process[]` (pid and pipe of every child, -1 when it is
gone), the round-robin counter, `m_stop`, the epoll table, the signal pipe.
Child: its own epoll table and signal pipe, its `m_stop`, the table `users` of
connection objects of class `T`.
*Operations.*  The constructor forks; `run_parent` handles a connection event
(scan for the next child, write one integer to its pipe), SIGCHLD (collect with
`waitpid`, mark, perhaps stop) and SIGTERM/SIGINT (kill all children);
`run_child` handles a notification (`recv`, `accept`, `T::init`), SIGCHLD,
SIGTERM/SIGINT and client data (`T::process`).
*Interaction.*  Parent and children share the listening socket and its backlog,
one blocking socketpair per child, signals; nothing else.
*Hard.*  Edge-triggered events merge; signals merge and their pipe may overflow;
children die at any point, also before the handlers are set; a child other than
the one that was meant may accept a connection; the parent may block in `send`.
*Correct when.*  The table is exact, so no released pid is ever killed; nobody
is left behind when the parent ends; deaths are noticed; a shutdown ends the
pool; connections are dealt fairly and each is accepted.

### Timers: `11-2 lst_timer.h`, `11-5 time_wheel_timer.h`, `11-6 timeHeap.h`

Three containers for timers with the same purpose: a sorted doubly linked list,
a hashed wheel of lists, a binary heap.  *Operations:* add, delete, (list:
adjust), tick, destruction.  *Hard:* pointer surgery at the ends, ties, timers
that are extended, wrap-around of the wheel, growth of the heap.  *Correct
when:* every timer that is not deleted fires once, not too early, in order, and
is freed once; the links are consistent.  `11-3 nonactive_connect.cpp` is the
server that uses the list to close inactive connections; SIGALRM reaches its
epoll loop through a signal pipe.

### The thread pool: `15-3 threadpool.h` with `14-2 locker.h`

*State.*  The queue `m_workqueue`, its mutex, a semaphore that counts requests,
`m_stop`.  *Operations:* constructor, destructor, `append` (callers), `run`
(workers).  *Hard:* everything; shared memory, several producers and consumers.
*Correct when:* every accepted request is processed exactly once, the queue is
bounded, what was checked under the lock holds when it is acted on, workers end
when the pool is told to.

### The HTTP server: `15-4`/`15-5` `http_conn`, `15-6 WebServer.cpp`

One `http_conn` per descriptor: a read buffer, a parser (line state machine
within a request state machine, as in `8-3 parse_line.cpp`), a write buffer and
a mapped file.  The main thread accepts, reads and writes; workers of the thread
pool run `process`; EPOLLONESHOT is to keep a descriptor with one thread at a
time.  *Hard:* requests in arbitrary pieces, partial writes, descriptors that
are closed by one thread and re-used by another.

### Chat servers: `13-4` (processes and shared memory), `9-7` (poll)

`13-4`: one process per client, one shared-memory segment per client, the parent
forwards the number of the segment that changed.  *Hard:* the table is compacted
when a client leaves, while the client processes keep their numbers; epoll
registrations of closed descriptors; signals during fork.  `9-7`: one process,
`poll`, one table of descriptors that is compacted too, in the middle of a batch
of events.

### The one-shot server: `9-4 epolloneshot.cpp`

A thread for each connection that has become readable; EPOLLONESHOT is to keep a
connection with one thread.  *Hard:* the thread's argument is a local of the loop
that starts the next thread.

### The rest

Demonstrations of one call or one epoll loop; `PROJECT.json` lists them, with
the reason none of them is modelled.

## 2. Plan

| module | of | composes | abstract specification | main properties | state |
|---|---|---|---|---|---|
| `ProcessPool` | 15-1, socket of 15-2 | | | exact table, fairness of dealing, shutdown | done, proved |
| `LstTimer` | 11-2 | | `TimerQueue` | links, order, completeness, refinement | done, proved |
| `ThreadPool` | 15-3, 14-2 | | | each request once, counting semaphore | done, proved |
| `SharedMemChatroom` | 13-4 | | | mapping pid/index, pipes, segments, shutdown | done, proved |
| `WebServer` | 15-4, 15-5 without its parser, 15-6 | `ThreadPool`'s promise | | one thread per connection, closed once, every request handled, reply complete | done, proved |
| `TimeHeap` | 11-6 | | `TimerQueue` | heap order, every timer once, completeness, refinement | done, proved |
| `HttpParser` | 8-3, parser of 15-5 | | the verdict on the whole input | any split of the input gives the same answer, at once | done, proved |
| `TimeWheel` | 11-5 | | `TimerQueue`, in ticks | fires at its tick, never lost | done, proved |
| `NonactiveConnect` | 11-3 | `LstTimer`'s promise | | the alarm never stops, only inactive connections expire | done, proved |
| `ChatroomServer` | 9-7 | | | table and rest of the batch exact under compaction | done, proved |
| `EpollOneShot` | 9-4 | | | one worker per connection (fails) | done |
| `CgiConn` | 15-2 | `ProcessPool` | | what is run is the first line, CGI grandchildren are collected | planned |

Every safety property that a passing run checks is a theorem.  Next would come
`CgiConn`, and the safety halves of the liveness properties that have none yet (of
`DeathNoticed` and `EveryoneServed` they are proved, sections 6 and 12).

Every module is written to be proved about as well as checked: parameters are
CONSTANTS with named assumptions, one action stands for one handler (or one
access to shared memory where threads interleave), and recursion is by recursive
functions.

## 3. ProcessPool

### Model and code

| TLA+ | C++ |
|---|---|
| `m_pid`, `sub_process_counter`, `m_stop` | the members and locals of that name in the parent |
| `events`, `signals` | the arrays `events[]` and `signals[]`: reported or read, and not yet handled |
| `pReady`, `cReady` | edges that epoll holds (all descriptors are EPOLLIN, EPOLLET) |
| `sigPipe`, `pPending` | bytes of the signal pipe; signals the kernel has not delivered yet |
| `child[i]` | none, start (forked, before `setup_sig_pipe`), loop, zombie, reaped |
| `pipe[i]` | integers in the socketpair to child i |
| `backlog` | connections that wait in the listening socket |
| `Fork`, `Setup` | constructor, head of `run_parent` |
| `ParentEpollWait`, `ParentListen`, `ParentNoChild`, `ParentRecvSignals`, `ParentSigChld`, `ParentSigTerm`, `ParentExit` | the cases of the loop of `run_parent` |
| `ChildSetup`, `ChildEpollWait`, `ChildPipe`, `ChildSig`, `ChildExit` | `run_child` |
| `DeliverParent`, `DeliverChild` | `sig_handler`, or the default action before it is installed |
| `Connect`, `Terminate`, `ChildCrash`, `TerminateChild` | clients, operators, failing children |

`since` is a history variable: `since[j][t]` counts the turns of child t after
the last turn of child j.

Abstractions.  The scan `do { ... } while` is one step, because it reads only
variables of the parent; `Dist` states where it ends.  A batch of epoll events
is handled event by event, in any order.  The body of `T::process` is left out:
it neither reads nor writes the state of the pool.  A full signal pipe loses the
byte (`sig_handler` ignores the result of the non-blocking `send`).  The parent
end of a child's pipe is blocking (`addfd` sets only the descriptors it registers
to non-blocking), so `Send` waits.  The model assumes that a read of a full
pipe makes room for one more integer, which is kinder than a kernel that waits
until half the buffer is free.

### Runs

| run | constants | shows |
|---|---|---|
| `pool` | 2 children, signal pipe of 3 bytes, pipes of 2, 3 connections with a backlog of 2, one termination, 2 crashes, `accept` does not fail | `TableAgrees`, `EdgesMatch`, `NotificationBacked`, `RoundRobin`, `DeathNoticed`, `ShutdownCompletes`, `AcceptProgress` |

`EdgesMatch` joins `EdgeBacked` (an edge in epoll has something to read behind it)
and `FullPipeHasEdge` (a child whose pipe is full will look at it, so that a parent
that waits in `send` is not left there).

Bounds.  Two children are enough for a crash to leave one alive, for both to die
and for two SIGCHLDs to merge; three connections fill a pipe of 2 and wrap the
counter.  The signal pipe holds more than the environment can send: a byte that is
lost to a full pipe may be a SIGTERM, and then no shutdown is owed.  What two
children cannot show (a turn that a third one takes), the signal pipe that
overflows and an `accept` that fails are covered by the theorems, which hold for
every pool, every capacity and either value of `AcceptMayFail`.  Deadlock is not an
error in this run: the environment's bounds end, and a parent that has exited is a
legal end.

Fairness: weak fairness of the parent, of each child and of each signal's
delivery.  The kernel schedules runnable processes and delivers pending signals;
nothing is assumed of clients, crashes, or which events an `epoll_wait` reports
first.

### What the runs found

* Connections that arrive while an edge of the listening socket is still unhandled are
  reported once; one notification is sent, one `accept` is made, and the other
  connection waits until somebody else connects (the model has it, no run looks for it).
  What does hold is `AcceptProgress` (every edge leads to at least one accept) and
  `NotificationBacked` (there is never a notification without a connection).
* A child that dies before the parent's `addsig(SIGCHLD)` is not collected until
  another child dies, and is dealt connections meanwhile: `DeathNoticed` therefore
  begins at the parent's loop.
* A SIGTERM to a parent all of whose
  children died unnoticed kills nobody and does not stop the parent, which is
  why `ShutdownCompletes` asks for one running child.

### Proofs (`ProcessPoolProofs`)

For every `ProcessNumber`, capacity and bound.  The inductive invariant is in
three layers.  `PoolInv` adds to the types what each control state knows:
`ForkInv` (the children from `nfork` on are not there, the earlier ones are, as
the phase says), `StopInv` (`m_stop` is set only when the table is empty) and
the theorem itself, `TableAgrees`; `NoOrphans` follows from `StopInv` and
`TableAgrees`.  `TurnInv` links `since` to the cyclic distance from the counter:
a child that has had its turn since j's last turn is farther from the counter
than j, which is what makes the next turn of anyone but j impossible until j is
served; `RoundRobin` alone says nothing about the counter and is not inductive.
`EdgeInv` joins `EdgeBacked` and `FullPipeHasEdge`, each needed by the other's
step, with the fact that dead children have neither edges nor notifications;
`PipesNeverStall` states the two together, as the run does.
`NotificationBacked` compares the backlog with the notifications in all pipes; these
are counted as a set of pairs of a child and a place in its pipe, so that a byte
written or read adds or removes one element (finite because `ProcessNumber` and
`PipeCap` are numbers).  It needs `BatchInv`: a batch reports no event twice, hence
handling the listen event takes exactly one edge away, and nothing is notified
before the parent's loop.  Only TLC: liveness.

## 4. LstTimer and TimerQueue

### Model and code

The state is the heap: `prev`, `next`, `expire` per address, `head`, `tail`, and
`alloc`, the addresses between `new` and `delete`; an address is re-used after it
was freed, and stale fields keep their old values.  Each public member function
is one action per branch (`AddFirst`, `AddHead`, `AdjustStays`, `AdjustHead`,
`AdjustMiddle`, `DelOnly`, `DelHead`, `DelTail`, `DelMiddle`); loops take one
step per iteration (`WalkInsert`/`WalkOn`/`WalkAppend` for the private
`add_timer`, `TickStart`/`TickFire`/`TickStop`, `DestroyStart`/`DestroyStep`/
`DestroyEnd`), so that time passes while they run and so that their termination
is a question.  The callbacks are not modelled beyond "it ran" (`fired`): the
only one, `cb_func` of `11-3`, touches neither the list nor the timer.  Calls
with a null timer return at once and are left out.

The inputs are those of a caller that allocates a timer, adds it once, only ever
extends it (`11-3` line 256 adds to the current time) and deletes it while it is
in the list.  `11-3` line 187 also deletes a timer it has just added; that is a
mistake of the caller, which `NonactiveConnect` models.

`TimerQueue` is what callers rely on: a set of pending timers with deadlines;
`Fire` takes a timer that is due and that no pending timer precedes.
`ImplementsQueue` states that the list implements it with `pending <- alloc`,
`deadline <- expire`: a timer that is being inserted by the walk is already
pending, and the iterations of the walk are stutters.

### Runs

| run | constants | shows |
|---|---|---|
| `lst` | 3 timers, delays 0 and 2, time to 2 | `ListExact`, `TickComplete`, `ImplementsQueue`, `CallsReturn` |

`ListExact` is `LinksMatch` (neighbours point at each other, `head` and `tail` are
the ends) and `NothingLost` (the timers of the list are reached from `head`).
Three timers give a head, a middle and a tail, and every case of deletion and of
adjustment (first to the middle, first to the end, middle to the end); delays
of 0 and 2 with a moving clock give ties and every order.  Fairness: a loop that
has begun runs on; nobody has to call.
The destructor ends the behaviour, hence no deadlock check.

### Proofs (`LstTimerProofs`)

For any set of timers.  "Sorted and acyclic" is not a local fact about pointers,
and a proof by induction over the list is not available; the history variable
`ahead` turns it into one: `ahead[t]` is the set of timers before t, a strict
total order on the linked timers in which `next` is the immediate successor and
`head` and `tail` are the extremes.  `ListInv` says so, and that the order agrees
with `expire`; each action has one step per pointer it writes.  `LoopInv` adds
what the loops know (the walk's timer is not linked and not due before `wprev`;
`cur` is not after the time).  From these: `LinksMatch`, `Ascending`, `NoLeak`,
`TickComplete`, and `ListImplementsQueue`: initial states map to initial states
and every step to a step or a stutter of `TimerQueue`.

`ListStaysExact` adds that the timers reached from `head` are those of the list.
`Reached` is the least set with the head in it that no `next` leaves.  It lies in
the list because the list is such a set.  That every such set contains the list is
an induction along it, done with the library's theorem that proper inclusion is
well-founded on finite sets (`FirstOf`): a timer that such a set lacked, with the
smallest `ahead`, is the `next` of one that it has.  Only finitely many timers are
ever allocated (`Finite`); nothing is assumed of the set of addresses.
Only TLC: `CallsReturn`.

The end of the module is about `NonactiveConnect`, the server around such a list
(section 11).

## 5. ThreadPool

### Model and code

One action per access to shared memory: `AppendLock`, `AppendCheck` (the size),
`AppendPush`, `AppendUnlock`, `AppendPost`; `RunLoop` (`m_stop`), `RunWait`,
`RunLock`, `RunCheck` (empty), `RunFront`, `RunPop`, `RunUnlock`, `RunProcess`.
The lock is what makes a critical section atomic, not the model.  `Create` is
one round of the constructor; a worker runs before the others exist.  `Destroy`
and `Free` are the destructor's body and the end of the object; a worker that
goes on after that reads freed memory, and `RunGone` gives it every outcome the
shape of its code admits.  The checks of the constructor's arguments and of `new[]` are left
out: they throw before any state exists.

`UnlockLocks` selects the text of `locker::unlock`.  As written (line 70) it calls
`pthread_mutex_lock`; the run `tpool_unlock` shows that the first caller then
waits for itself for ever, which the comment "release mutex lock." (line 67)
denies.  Under that reading nothing of the pool is ever reached twice, so the
other run takes the reading of the comment and asks whether the pool would be
right with it.  The proofs cover both.

### Runs

| run | constants | shows |
|---|---|---|
| `tpool` | 2 producers, 2 workers, limit 1, 4 appends, one of them null, pool may be destroyed or fail to be constructed | `ChecksHold`, `SemaphoreCounts`, `HandedOnce`, `AllProcessed` |
| `tpool_unlock` | `UnlockLocks = TRUE` | violation of `LockReleased` |

A limit of 1 with 4 appends is refused, filled and drained; two threads of each
kind race for the lock and the semaphore.  `ChecksHold`: a request is pushed only
while there is room, refused only while there is none, and the one that is popped is
the one that was read at the front; each of these is checked in one step and done in
a later one.
What a destroyed pool does is in the model, but `~threadpool` promises little: it
sets `m_stop` and neither posts the semaphore nor joins, so a worker in `sem_wait`
never reads it, and any other one reads freed memory.
Fairness: each thread that can run does, and `process()` returns; the mutex and
the semaphore need no strong fairness, because the requests are finitely many.

### What was found

* `unlock` locks (above).
* `m_max_requests` is "the maximum number of requests waiting to be processed in the
  request queue" (15-3 lines 16 and 17) and the "maximum number of requests allowed
  in the request queue" (line 32).  The code lets one more wait: line 89 refuses
  with `size() > m_max_requests`, so a queue that holds that many takes another.
  `QueueBounded` proves `m_max_requests + 1`, which the run reaches.

### Proofs (`ThreadPoolProofs`)

For any number of threads, any limit, both readings of `unlock`.  `PoolInv`: types, who
may be inside the critical section (`OwnerInv`: only the owner of the mutex is between
lock and unlock), `ChecksHold`, which needs it, and `Bounded`, which needs both:
`ChecksAreKept` and `QueueBounded` follow.  `SemaphoreCounts` is proved on top of it
(cardinalities of the sets of threads between push and post, and between wait and pop);
it implies that `run` never takes its `empty()` branch.  `RequestInv` adds that every
request number in use was given out by `append`, and yields `HandedOnce`.  Only TLC:
`AllProcessed`.

## 6. SharedMemChatroom

### Model and code

| model | code |
|---|---|
| `pc`, `stop_server`, `terminate` | where `main` is (`reap`: inside the `waitpid` loop), its two flags |
| `users`, `user_count`, `sub_process` | the tables; of a `client_data` its `pid` and `pipefd[0]` |
| `open`, `watched`, `ready` | pipe ends the server has open, registered in its epoll table, with an edge in it |
| `events`, `signals` | reported events and received signal bytes not yet handled |
| `pending`, `sigPipe` | signals pending at the server, bytes in `sig_pipefd` |
| `child[p]` | process `p`: control state, `idx`, `stop_child`, its epoll table, its client and the pipe to it |
| `toServer[p]` | indices in the pipe from `p` |
| `EpollWait`, `Refuse`, `Accept`, `ForkFails`, `RecvSignals`, `SigChld`, `Reap`, `ReapEnd`, `SigTerm`, `Forward`, `PipeClosed`, `Exit` | the branches of the loop of `main` |
| `ChildClose`, `ChildSetup` | the child's `close` calls, the top of `run_child` |
| `ChildTest`, `ChildEnter`, `ChildWake`, `ChildDone` | `while (!stop_child)`, the call and the return of `epoll_wait`, the end of a batch |
| `ChildRead`, `ChildEof`, `ChildSend`, `ChildPipeEnd`, `ChildExit` | the branches of the loop of `run_child`, and `exit(0)` |
| `DeliverServer`, `DeliverChild` | `sig_handler`, `child_term_handler` |

`Init` is the server at its loop.  The `waitpid` loop is one action per child, so
that children may die between its rounds.  A child that was forked but has not
reached `addsig` still has `sig_handler`: a SIGTERM that finds it there writes a
byte into the *server's* signal pipe, or, after its `close` calls, nowhere.

Abstractions.  What a segment holds is left out; who writes to which is kept.  A
message fits one `recv`.  Descriptors get the lowest free number, and `users[]`
has zero pages before its first use (`NoFd`).  A registration of a closed
descriptor that a younger child still holds open stays in the epoll table of the
kernel and can report an event; the server's `recv` then finds EBADF, or the data
of the pipe that has the number now, and that event is left out.  An `accept` that
fails because descriptors ran out is part of `Refuse`.  A client whose socket has been
closed may answer data with a reset (`ChildSend`).

### Runs

| run | constants | shows |
|---|---|---|
| `chat` | 2 pids, limit 2, pipes of 1, signal pipe of 3 bytes, 3 connections, one message, one SIGTERM, one failing fork, 3 of these in all | `TableExact`, `PipesOwned`, `DeathNoticed`, `NoStraggler`, `QuietLeaverCollected` |

Bounds.  With a limit of 2 and 3 connections the table is full, is emptied at
either end and filled again, a third client is refused, and a pid and a descriptor
are used again.  `MaxActs` bounds what the environment does altogether, so that
any three of its acts meet; a client may leave at any time.  More pids, and a
signal pipe that overflows, are covered by the theorems.  Deadlock is not an error
in this run: clients stop at their bounds and the server may have ended.

Fairness: weak fairness of the server, of each child and of each signal's
delivery; nothing is assumed of the clients.  `DeathNoticed` and
`QuietLeaverCollected` have the premise that
the signal pipe never fills up: a SIGCHLD that is lost leaves a zombie until the
next one.  The pipe can fill although signals are few, because two children that
still have `sig_handler` answer each SIGTERM with another byte to the server,
which answers each byte with a SIGTERM to both.

### What the runs found

* An entry moves into the freed index, its process keeps the old
  one, and the next client is given that one too: two processes share a segment.
  `SegmentsDistinct` states what the comments promise and fails (2 pids and 3
  connections are enough); `SegmentInside` is what does hold.
* `EPOLL_CTL_DEL` is given the entry *behind* the last user.  After a removal that
  entry still has a descriptor number, which by then may be another user's pipe:
  the server does not hear of that user again, in spite of the comment on line 414
  (three users are needed; the model has it, no run looks for it).
* `ShutdownCompletes` fails (1 pid and one SIGTERM are enough): a child misses its only
  SIGTERM in either of two windows (between its `close` calls and `addsig`, between the
  test of `stop_child` and `epoll_wait`); so does a client that is accepted after the
  signal. `NoStraggler` holds: once the server has ended, the end of its pipe ends every
  child.
* A message and the end of the connection that arrive as one edge: the child's
  single `recv` reads the message, and the end is not looked for again, so the
  child and its entry stay.  `QuietLeaverCollected` is the part that holds.
* Two notifications of a child that arrive as one edge: the server reads one; the
  other stays in the pipe until that child writes again.

### Proofs (`SharedMemProofs`)

For every set of pids, every limit, capacity and bound.  `TableExact` is
inductive together with the types: a removal writes `users[del_user]` and the
index of the process that moved there, which is right because both tables are
inverse to each other (`ReapStep`).  `PipesOwned` needs that a new pipe's
descriptor is not in `open`, and that the closed one belonged to the removed user
alone.  The types need `BatchInv` (a listen event still to be handled has a client in
the backlog; the `waitpid` loop runs for a signal that is still in `signals`) and
`TableExact` (a dead child is found in the table, so its index is not -1: the test
`del_user < 0` is never true).  Steps of a child are treated together: `Carried`
says what each of them leaves alone.

`DeathNoticed` itself is liveness; what it rests on is proved.  `SignalsStayBacked`:
the server never sleeps on a signal, for a byte in its pipe has an edge not yet
reported or an event not yet handled, and closing the pipe of a dead child takes
away only edges of that pipe.  `DeathsStaySignalled`: for every dead child that is not
collected a SIGCHLD is on its way (pending, in the pipe, read, or in the `waitpid`
loop), however many deaths share it, as long as the signal pipe never fills up.  The
loop may end only when it finds nobody dead, so the end of one signal's handling
does not need another.
Only TLC: the liveness properties.

The end of the module is about `ChatroomServer`, the other chat server (section 12).

## 7. WebServer

### Model and code

| model | code |
|---|---|
| `pc`, `events`, `out` | where `main` is (`write`: in the loop of `http_conn::write`), events not yet handled, the locals of `write` |
| `obj[fd]` | `users[fd]`: whether `m_sockfd` is set, `m_read_buf`, `m_write_idx`, `m_iv[1].iov_len`, `m_linger` |
| `m_user_count` | the static member |
| `queue`, `worker` | the thread pool's queue, and where each worker is in `process` |
| `epoll[fd]` | what the descriptor is registered for; `off` after a one-shot event |
| `sock[fd]` | the connection: unread input, the client's progress, its end, its send buffer |
| `EpollWait`, `Accept`, `ShowError`, `AcceptFails`, `HandleHup`, `HandleIn`, `HandleInClose`, `HandleOut`, `HandleOutNothing`, `BatchEnd` | the branches of the loop of `main` with what they call |
| `WriteMore`, `WriteKeep`, `WriteClose`, `WriteLater`, `WriteFails` | one call of `writev` and what `write` does with its result |
| `Take`, `Process`, `Rearm` | `run` of the pool; `process_read` and `process_write`; the last `modfd` |
| `WorkerClose`, `WorkerReset`, `WorkerLoad`, `WorkerStore` | `close_conn` when a worker calls it, one access at a time |

The pool is taken as `ThreadPool` shows it to be with a lock that releases: a
queue that refuses a request beyond its limit and hands each one to one worker.
`pool->append` ignores the refusal (15-6 line 157); `dropped` remembers it.

`AfterBatch`.  In 15-6 the clean-up and `return 0` stand *inside* `while (true)`:
the program ends after its first batch of events, which can only be one
connection.  `"return"` is that text; `"loop"` is the program with the same
statements behind the loop.  A server that ends at once would make every other
question empty, so the run allows both.

Workers call `close_conn` in one place only: an empty file, whose branch of
`process_write` (lines 597 to 606) builds a page and then runs on into `default`,
which returns false.  While a worker is between `removefd` and `m_sockfd = -1`,
`accept` may return the same number, and its `init` is undone; between the load
and the store of `--m_user_count` another change is lost.  Both are in the model,
and `raced` remembers which have happened.

Abstractions.  A request is a part or the rest of one, and is answered by a file,
by a page, or not at all; the client sends its next request after the answer.  One
that is complete may be `"overlooked"`: `process_read` takes a request with a bad
line, or with a body that comes in a piece of its own, for the beginning of one
(section 9), and goes on to wait.  What is read may fill `m_read_buf`, and `read`
then fails (`HandleInClose`).  Which requests these are is in `HttpParser`.  A
response is its two lengths.  `Drain` reads everything.
Memory maps are left out (one is leaked when the client goes before its file was
sent, and one that fails is not noticed).

### Runs

| run | constants | shows |
|---|---|---|
| `web` | 2 descriptors, 2 workers, 3 connections, 2 pieces of requests, queue limit 0 (one request), header 3, file 2, send buffer 4 | `OneHolder`, `ObjectsMatch`, `RequestHandled` |

`ObjectsMatch` says of every descriptor that its object and the system agree, and of
`m_user_count` that it counts them.  `RequestHandled` is about the requests that
`process_read` recognises.  Two descriptors meet at a queue that holds one request, so
that one is refused; a third connection uses a descriptor again, also while a worker is
still closing it.  The lengths are the smallest at which a response does not fit, a
second one meets a buffer with room for less than half of a header, and `writev` is
called twice.  A main that has returned is a legal end, hence no deadlock check.

Fairness: weak fairness of main and of each worker, because runnable threads are
scheduled, and of each client's reading, without which no server can finish a
response.

### What the runs found

* `ResponseIntact` states the comment on line 451 of 15-5 and fails (1 worker, 1
  connection and 1 request, when the loop goes on): `bytes_to_send` starts as the length
  of the header and is compared with the bytes sent, so a response counts as sent once
  half of its header is; the connection is closed or re-used in the middle of the file.
  A partial `writev` that does not count starts again from the beginning of the header.
* A request that `append` refuses is never answered and its descriptor never
  armed again: the connection stays open, even when its client closes.
  `OneHolder` and `RequestHandled` say that this is the only way a connection is
  lost while no descriptor race happens.
* Who sends a request that `process_read` overlooks is not answered, not even by the
  page for a bad request, and waits until it hangs up.
* The race for a descriptor leaves an open connection whose object has
  `m_sockfd == -1`; the race for the count leaves `m_user_count` off by one.  Both
  need an empty file.

### Proofs (`WebServerProofs`)

For any number of descriptors and workers, each finite, any queue limit, any lengths and
both readings of `AfterBatch`.  Neither invariant of the run is inductive.  `IInv` has
three layers.  `ThreadInv` says where main and the workers can be: nobody holds events
outside the loop over them, a worker that is not idle has a connection, and every
announcement of the listening socket has a client in the backlog, so that `accept` is
given one.  `HandInv` speaks of one descriptor at a time.  While it is open (`OpenInv`),
its holders are one or, after a refusal, none, its object is set, and no worker that
works for it has begun to close it.  Once it is closed (`ClosedInv`) it is in no batch,
queue or epoll table, at most one worker is left with it, behind `removefd`, and
`m_sockfd` is still set exactly as long as that worker has not reset it.  The second
half is what the first one needs when `accept` returns the number again: either nobody
has it, or the step is a race and `raced` says so. `CountInv` adds the copy of
`m_user_count` that a worker has loaded: as long as nobody else has changed the count,
it is still the count when it is stored; the counting is by cardinality, hence the
assumptions that descriptors and workers are finitely many.

Each operation that changes hands (`Arm`, `CloseConn`, `Remove`, a round of the
pool) has a lemma about the holders of its own descriptor and one that all others
keep theirs.  From `IInv`: `OneHolder` and `ObjectsMatch`.  Only TLC: `RequestHandled`.

## 8. TimeHeap

### Model and code

| model | code |
|---|---|
| `array`, `capacity`, `cur_size` | the members; of `array` the first `cur_size` elements, the only ones that are read |
| `expire`, `cb_func`, `alloc` | a timer's members, the timers between `new` and `delete` |
| `Init`, `Build`, `BuildEnd` | both constructors; the second one percolates down from the middle |
| `StartDown`, `DownMove`, `DownEnd` | `percolate_down` |
| `AddTimer`, `UpMove`, `UpEnd` | `new heap_timer` and `add_timer`, whose loop moves the hole up |
| `AddGrow`, `AddFrees` | `add_timer` of a full heap, with `resize` |
| `DelTimer` | `del_timer`: it takes the callback away and leaves the timer in its place |
| `PopTimer` | `pop_timer` |
| `TickStart`, `TickFire`, `TickStop` | `tick`; a round pops, and so enters `percolate_down` |
| `DestroyStart`, `DestroyStep`, `DestroyEnd` | `~time_heap` |

A percolation works with a hole that `temp` will fill.  `Filled` is the array as it
will be then, and the properties speak of that while a percolation runs.

`ResizeFrees`.  `resize` (line 259) deletes every timer whose pointer it has just
copied.  From there on `add_timer` compares and stores freed memory; `AddFrees`
ends in `"undefined"`, and nothing is asked of what follows.  A heap that has to
grow would be of no further interest, so the run also takes a `resize` without that
statement (`AddGrow`).  `Cap` is positive: a heap of capacity 0 stays one when it is
doubled, and its first `add_timer` writes behind the array.

Calls of `del_timer` with a null pointer, of `pop_timer` on an empty heap and the
tests of null elements return at once and are left out, as are the exceptions of
the constructors.  A callback is again only "it ran".

`TimerQueue` is the same module that the list implements, with `pending <- cb_func`:
here a timer is cancelled by `del_timer` and freed later.  It is what makes the two
containers exchangeable for `11-3`.

### Runs

| run | constants | shows |
|---|---|---|
| `heap` | 5 timers, capacity 2, delays 0 and 2, time to 2, both texts of `resize`, symmetry | `EachOnce`, `HeapOrder`, `ImplementsQueue` |

Five timers are two levels below the top, so that a hole moves twice and a node
has one, two or no children; from a capacity of 2 they grow the array twice.
Timers are only compared for equality, so symmetry is sound; no property of the run
is a liveness property.  The destructor, the bound of the clock and freed memory end
the behaviour, hence no deadlock check.

### Proofs (`TimeHeapProofs`)

For every set of timers, every positive capacity, every delay.  `HeapOrder` speaks
of the states between two percolations.  Its inductive form, `Ordered`, speaks of
`Filled`: every element is in order with its parent, but for those next to the hole
(its children when it moves down, itself when it moves up), and the hole may be
skipped: its parent is not due after its children.  The last part is what a move
needs, because a move makes the hole's old neighbours neighbours of each other.
While the constructor runs, only elements from `Lowest` on are asked for.  A move
exchanges two elements of `Filled` and the end of a percolation leaves it alone,
which is all that `EachOnce` needs.

`TopIsFirst` is the step from "each is in order with its parent" to "the top is due
first": the least index of an element that is due before the top would have a
parent with a smaller one.  It gives `TickComplete` and, in
`HeapImplementsQueue`, the guard of `Fire`.

## 9. HttpParser

### Model and code

`8-3 parse_line.cpp` and `http_conn` of `15-5` have the same parser: `parse_line`
cuts lines out of a buffer, `parse_content` (8-3) and `process_read` (15-5) decide
what a line is.  `prog` says which of the two a behaviour is about.

| model | code |
|---|---|
| `buf`, `read_idx`, `checked_idx`, `start_line`, `text` | the buffer and the indices of that name; where `get_line` (8-3: `szTemp`) points |
| `check_state`, `line_status`, `content_length`, `linger`, `result` | the state machines' variables and the last result |
| `input`, `number`, `fin`, `base` | what the client sends, the number behind Content-Length, whether it has closed its side, how much was read before the last `init` |
| `RecvOnce`, `ReadAll` | one `recv` of 8-3; `http_conn::read`, which goes on until EAGAIN |
| `CloseUnread` | `recv` has returned 0 |
| `Stop`, `LineStatus`, `GetLine` | `parse_line`: where its loop stops, what it returns, and the line it cuts off |
| `RequestLine`, `BlankLine`, `HeaderLine`, `Content`, `BodyLine`, `LineOpen`, `LineBad` | the rounds of the loop of `process_read` |
| `ReplyKeep`, `ReplyClose` | the answer is sent and the connection kept (`init`) or closed |

Abstractions.  A byte is a carriage return, a line feed, or a token for a part of a
line: `REQ` is the text of a request line that the program takes, `KEEP` is
"Connection: keep-alive", `LEN` is "Content-Length:" with `number`, `x` is any other
text.  A token is read whole, and the search for the end of a line never looks
inside one.  A request line whose parts are separated by blanks instead of tabs is
taken by neither program and counts as incorrect.  The file that a request asks
for is part of `WebServer`.

A Content-Length is whatever `atol` makes of the text (15-5 line 271): any int, a
negative one too.  `parse_content` adds it to `m_checked_idx` (line 291) and writes a
null behind the body (line 293).  Where the sum overflows, or the null falls before
the buffer (`Wild`), the behaviour ends as `"undefined"`.  A null that falls into
the request cuts a text of it, the URL perhaps; the texts are not looked at again by
the parser, so `buf` leaves that out.

`Verdict(s)` is the reference: what the bytes `s` deserve, seen as a whole, without
indices and states.

### Runs

| run | constants | shows |
|---|---|---|
| `http` | both programs, buffer of 14, Content-Length -9, 0, 2, 3 or 20, a largest int of 20, the inputs of `MCHttpParser` | `TypeOK`, `ResultSound`, `ResultPrompt`, `ParseReturns`, `RequestAnswered` |

The inputs are all pairs of the pieces (a request line, headers, blank lines, loose
carriage returns, line feeds and text), requests with one to three further pieces,
requests with a body, and requests that are followed by another one on a kept
connection; each is read in every cut into pieces.  The buffer holds all but the longest
inputs, so that it fills up too.  A body of 2 or 3 may be whole, cut or followed by
more, one of 20 overflows the sum, and with -9 the null falls into the request or before
the buffer.  A connection that was closed is a legal end, hence no deadlock check.

`RequestAnswered` looks at what the client sends for an answer as a whole (`Sent`,
`Due`): where the program does answer such a request, it is read to its end and
answered, in whatever pieces it comes, the second request of a connection too.  8-3 owes
an answer to whatever decides one within its buffer; 15-5 to a request that is right,
has no body and leaves room in the buffer.  `ResultPrompt` is the other half: nothing
that is decided is waited for.  Fairness: the server reads what there is, and its loops
run; the client need not close its side.

### What was found

* `LINE_BAD` is `NO_REQUEST` in 15-5: a line with a stray carriage return or line
  feed is not answered with 400; the connection waits for its end or a full buffer.
  `Overlooked` names this and the next case, where `ResultPrompt` does not ask for
  an answer: of 15-5 it says nothing about bad requests.
* A body that does not come with the headers is read as lines: `process_read` tests
  `m_line_status` before it decides to skip `parse_line`, and `parse_content` has
  left `LINE_OPEN` there.  What has been taken for a line counts twice against
  `m_content_length`, and the answer may not come.  `BodyRecognised` states the
  comment on `parse_content` and fails.
* A negative Content-Length is taken.  The body then counts as read, the answer is
  that to a request without a body, and the null of line 293 is written into the
  request that was parsed or before `m_read_buf`.
* The branch of `parse_line` for a line feed in a piece of its own is never taken: a
  piece that ends with a carriage return leaves `checked_idx` at it.
* `http_conn` closes the connection without an answer when the end of the connection,
  or a full buffer, comes with the same `read` as the request.
* What a client sends behind its first request before it has the answer is dropped by
  `init`.

### Proofs (`HttpParserProofs`)

For every set of inputs, every cut into pieces, every buffer size, every Content-Length
that an int can hold, both programs. `TypeInv` has the order of the indices, and that
only `http_conn` knows bodies and never fills its buffer to the last byte, which is what
keeps the null behind a body from falling behind the buffer; before it, it can fall
(`Wild`).  `ParseInv` adds `ScanInv` (from `start_line` on the buffer is what was read;
what has been checked of the line holds no carriage return or line feed; neither is the
byte before the line a carriage return, as it was overwritten) and `StateInv`, which
says what each state stands for in terms of the bytes alone: `HeadersTo(e)`, the bytes
up to e are a request line and headers, all of them complete and none of them empty, and
`LengthIn(e)`, the body that they announce. `WholeHeaders`, `BadFirstLine` and `BadLine`
lead from there to `Verdict`, and `HeadersGrow` says that a line that is taken continues
it.  `ResultSound` follows. `ResultPrompt` needs `OpenLine` (what has been scanned in
vain decides nothing) and that a body in its second round was not whole.  Positions take
the place of an induction over the input throughout.  Only TLC: `RequestAnswered`.

## 10. TimeWheel

### Model and code

| model | code |
|---|---|
| `slots`, `cur_slot` | the members |
| `prev`, `next`, `rotation`, `time_slot`, `alloc` | a timer's members, and the timers between `new` and `delete` |
| `TicksOf`, `RotationOf`, `SlotOf`, `AddTimer` | `add_timer` |
| `DelHead`, `DelMiddle` | the branches of `del_timer` |
| `TickStart`, `TickTurn`, `TickHead`, `TickMiddle`, `TickFrees`, `TickEnd` | `tick`, one round of its loop each |
| `DestroyStart`, `DestroyStep`, `DestroyEnd` | the destructor |

`due` and `ticks` count calls of `tick`.  A timeout is rounded down to ticks, at least
one, and a timer of k ticks fires in the call k + 1 after it was added: `tick`
handles the slot first and moves `cur_slot` then, and the slot `cur_slot` is k away
from the timer's.  As the time to the next tick is less than a full interval when a
timer is added, this is the first tick at which k intervals are over.

`DeletesNext`.  For a timer that expires in the middle of its slot, line 200 deletes
the timer behind it too, with which the loop then goes on.  `TickFrees` ends in
`"undefined"`, and nothing is asked of what follows; the run also takes a tick
without that statement.  No program of the repository uses the wheel; its callers are
taken to delete timers of the wheel only.

### Runs

| run | constants | shows |
|---|---|---|
| `wheel` | 3 timers, 2 slots, interval 2, timeouts 1, 4 and 11, 6 ticks, line 200 with and without, symmetry | `SlotsExact`, `TickComplete`, `ImplementsQueue` |

A timeout of 1 is less than an interval; 4 is a whole turn, so that the timer is in
the current slot and waits for one rotation; 11 is rounded down to 5 ticks, two turns
and one slot.  Three timers in one slot are a head, a middle and an end.  Six
ticks let the longest timeout pass.  Timers are only compared for equality, and no
property of the run is a liveness property, so symmetry is sound.  The bound of the
ticks, the destructor and freed memory end the behaviour, hence no deadlock check.

`ImplementsQueue`: the same `TimerQueue` as the list and the heap, with the number of
ticks as its clock.  It says that nothing fires early; `TickComplete` says that
nothing fires late.

### Proofs (`TimeWheelProofs`)

For any set of timers, any number of slots and interval, any timeouts, with line
200 and without.  `LinkInv` says of the links what `ListInv` says of the sorted
list, without a history variable: *some* order of the timers exists in which every
timer but the head of its slot has its `prev` before it; each step shows its order,
since a timer is put before all others and never moves.  The destructor leaves
`prev` of the new head dangling, so the head is told by `slots` and not by a null
`prev`.  `Reached` is the least set that `next` does not leave, as in section 4.

`ClockInv` is the arithmetic.  Between ticks, a timer is due in the call of `tick`
that is `rotation * N` plus the distance from the hand to its slot away
(`Coming`).  During `tick` this is false for the timers of the slot that have been
counted down; `todo`, what can still be reached from `tmp`, tells them from the
others, and `Walk` says that `todo` is closed under `next` and loses just `tmp`
in each round, also when `tmp` is unlinked.  When the loop ends, `todo` is empty,
and moving the hand makes `Coming` true again for everybody.  It follows that the
timer a round fires is due exactly now and nobody is due earlier: `TickComplete`
and, as every step maps to a step or a stutter of `TimerQueue`,
`WheelImplementsQueue`.  Nothing of the wheel is left to TLC alone.

## 11. NonactiveConnect

### Model and code

| model | code |
|---|---|
| `pc`, `events` | in `epoll_wait`, or in the loop over what it returned |
| `timeout`, `stop_server` | the variables of `main` |
| `open`, `timers`, `expire` | connections `main` has accepted and not closed; `timer_lst`, a timer being named by its descriptor |
| `alarm`, `signals`, `pipe` | the pending `alarm`, pending signals, bytes in the signal pipe |
| `edges`, `backlog`, `unread`, `fin`, `err` | the kernel's: what became readable, connections not accepted, data not read, ends and resets |
| `EpollWait`, `Accept`, `AcceptFails`, `ReadSignals`, `ReadData`, `ReadEnd`, `NoTimeout` | the branches of the loop |
| `timer_handler` | `timer_handler` at the end of a batch |
| `SigHandler`, `AlarmRings`, `TimePasses` | `sig_handler`, the kernel, the clock |

Abstractions.  The list is taken by what `LstTimer` shows of it: it holds what was
added and not deleted, and `tick` fires what is due.  `expire` is the time that is left, so
that the clock needs no bound.  `epollfd` of `main` shadows the global one: the
`epoll_ctl` of `cb_func` fails, and `close` alone takes the descriptor out of the
table, which is what the model does.  An `epoll_wait` that is interrupted returns
into the loop with nothing to do.  One `accept` is made for each edge: a connection
that came with the same edge stays in `backlog` until the next.

`DeletesAdded`.  Line 187 deletes the timer that was just added to the list, with
the first connection.  The model goes on until the list is used again and ends there
(`UseFreed`); the run also takes a `main` without the statement, of which the
properties then speak.  A failing `accept` writes `users[-1]` and ends the
behaviour too.

### Runs

| run | constants | shows |
|---|---|---|
| `nonactive` | 2 descriptors, time slot 1, signal pipe of 2, 2 connections, 2 messages, 2 ends, two SIGTERMs, 5 of these in all | `AlarmAlive`, `ActiveKept`, `NothingLingers` |

Two connections let one expire while the other is active, and a descriptor is used
again.  A message may be larger than the buffer of one `recv`, which is why a message
may leave a rest.  Two SIGTERMs fill the pipe of 2 bytes, and an alarm that comes then
loses its byte; an alarm and a SIGTERM fill it for the other SIGTERM.  A pipe of one
byte could lose the only SIGTERM to an alarm.  Time never stops, so that there is no end
of the behaviour but SIGTERM and the undefined ones.

Fairness: time passes, an alarm that is over is raised, pending signals are delivered,
and the server runs; nothing is assumed of the clients.

### What was found

* `AlarmAlive` holds although bytes may be lost: SIGALRM is only raised again by
  `timer_handler`, so there is one at a time, and what fills the pipe against it can
  only be SIGTERM.
* An end of a connection that comes as one edge with its last data is not looked for
  again; the timer closes the connection then (`NothingLingers`).
* Line 187, above.

### Proofs (in `LstTimerProofs`)

For every set of descriptors, every `TIMESLOT`, every capacity of the signal pipe and
with or without line 187, from the assumptions that the module makes of its constants
(`ServerAssumed`).  The module is instantiated as `N`, with `pc` and `expire`, which
`LstTimer` has too, under other names; the theorems are about `N!Spec`.

`AlarmStaysAlive`: `AlarmAlive` is inductive together with the types, in which every
open connection has its timer in the list and nothing is reported of a closed one.
`ActiveStaysOpen`: `ActiveKept` is about steps, and needs `KeepInv`: a timer that runs
out before the last data of its connection would have it belongs to a connection of
which an event is still to be handled, and none is left when `epoll_wait` or
`timer_handler` is next.  That is where it matters that the handler runs behind the
whole batch: run at the SIGALRM event, it would meet such a timer.
Only TLC: `NothingLingers`.

## 12. ChatroomServer

### Model and code

| model | code |
|---|---|
| `fds`, `user_counter`, `i` | the table of `poll`, and the loop over it |
| `write_buf`, `buf` | of `users[fd]`: whose `buf` its `write_buf` points to, and what its own `buf` holds |
| `backlog`, `open`, `unread`, `hup`, `err` | the kernel's |
| `Poll` | `poll` |
| `NothingReported`, `AcceptFails`, `AcceptFull`, `AcceptUser`, `ErrorSeen`, `UserLeft`, `Read`, `ReadError`, `NothingToWrite`, `Write` | the branches of the loop, with its `++i` |

`todo`, `heard` and `owed` are history: what `poll` reported and was not handled yet,
how many `recv`s have brought something, and the newest message that each user was
not yet written.

Abstractions.  What is in a buffer is who has sent it and the number of the `recv`
that has filled it, so that a message that was overwritten is told from the one that
was meant.  `write_buf` is set by nobody before it is first pointed to a buffer, and
never read before that, so it starts as null.  A connection can always be written to,
and the listening socket reports no errors.

### Runs

| run | constants | shows |
|---|---|---|
| `pollchat` | limit 3, 4 descriptors, 4 connections, 2 messages, 3 ends, one failing `accept`, 7 of these in all | `TableExact`, `BatchExact`, `EveryoneServed` |

A limit of 3 has a first, a middle and a last entry to remove; the fourth connection
is refused while the table is full and takes the place of one who left otherwise.
Two messages meet each other and the ends: a second one comes, from the same sender or
another, before the first was written to everybody.  Clients act between any two iterations.
The bounds of the clients end the behaviour, hence no deadlock check.

Fairness: the server runs.

### What was found

* `events |= ~POLLIN` and `events |= ~POLLOUT` only ever set bits.  That is why no
  `POLLIN` gets lost, and it means that from the first message on `poll` returns
  at once for ever, because POLLOUT stays asked for.
* `write_buf` points into the *sender's* buffer, and there is one for each reader.  Whoever
  has not been written a message when the next one comes never gets it: the same
  sender's next `recv` overwrites it, another sender's makes `write_buf` point
  elsewhere.  After the sender has left, its buffer is that of the last user, or of the
  next one with that descriptor.  `EveryoneServed` is what holds: the *newest* message
  is written to everybody else who stays, unless its sender leaves first.
* Data that comes with the end of a connection is discarded, as POLLRDHUP is looked at
  first.  A reset is handled as an error in one round and as an end in the next.
* The entry that takes the place of a removed one keeps its `revents`, and the loop
  looks at that place again: `BatchExact`.

### Proofs (in `SharedMemProofs`)

For every limit and every finite set of more descriptors than that (`ChatAssumed`).
The module is instantiated as `C`, with the names that `SharedMemChatroom` has too
replaced.  `ChatInv` is inductive: the types (`MainType`, `SystemType`; a listen event
stands for a client, and what is known of a client is about an open connection), the
descriptors in use differ (`Distinct`), they are the open connections (`OpenListed`),
and those ahead of the loop with something reported are what `poll` found and was
not handled (`AheadListed`).  A removal maps the entries that remain to the ones they
were, an injection that skips the removed one (`RemoveStep`); `accept` finds a free
descriptor because the open connections are fewer than the limit.
`ChatTableStaysExact` and `BatchStaysExact` follow; the number of entries ahead is that
of descriptors by a bijection.

`NobodyIsForgotten` is what `EveryoneServed` rests on: POLLRDHUP is asked for in every
entry in use, and whoever is owed the newest message is connected and has POLLOUT asked
for, and his `write_buf` points to the sender, who is connected too and whose buffer
still holds that message, whatever was moved and whichever descriptor is used again.  It
needs `InputThere`: a `recv` for which poll has reported input only finds some, or a
reset has taken it away; a `recv` of nothing would clear the buffer and point nobody
elsewhere.  A new user starts without debts because the descriptor it gets was not open.
Only TLC: `EveryoneServed`.

## 13. EpollOneShot

### Model and code

`EpollWait`, `Accept` and `StartWorker` are `main`'s loop; `WorkerStarts` is the thread's
read of its argument, `ReadData`, `ReadEnd`, `ReadLater` the results of `recv`, and
`ResetOneShot` the `epoll_ctl` that arms the descriptor again.  `fds_for_new_worker` is a
local of the loop's body: every iteration has it at the same place of the stack, and a
thread is given its address.

### Runs

| run | constants | shows |
|---|---|---|
| `oneshot_args` | 2 descriptors, 2 workers, 2 connections, 2 messages, one end | violation of `OneWorker` |

Two connections become readable at once; `main` starts a thread for the first, and
writes the second descriptor to the same place before that thread has read the first.
Both threads then serve the second connection.  With one descriptor `OneWorker` holds.
A worker whose descriptor was closed by the other one gets EBADF, which its loop
(lines 87 to 95) does not leave.

## 14. What is not covered

Liveness under fairness is checked by TLC and not proved: it needs ENABLED, which the
installed provers do not handle.  Every safety property that a passing run checks is a
theorem.  Texts, formatting, addresses and logging are abstracted in
every module.  Failures of `epoll_create`, `socketpair`, `fork` in constructors
are asserted in the code and end the program; they are not modelled, except
`pthread_create`, which throws.

`cgi_conn` of `15-2` (a read loop up to the first line end, then a fork whose child
runs the program named there) is planned.  `cond` of `14-2` is used by nobody.  The
client `9-6` moves bytes between two descriptors.  The components with status
`not_modelled` in `PROJECT.json` are programs of one system call or one event loop and
are listed there with the reason.
