------------------------------- MODULE TimeHeap -------------------------------
(***************************************************************************)
(* time_heap of "11-6 timeHeap.h": a binary heap of timers in an array.    *)
(* One action per member function; the two percolations, tick, the second  *)
(* constructor and the destructor take one step per iteration, so that     *)
(* time may pass while they run.                                           *)
(*                                                                         *)
(* Callers add a timer once after new, and cancel or count on timers that  *)
(* the heap has not freed yet.                                             *)
(***************************************************************************)
EXTENDS Integers, FiniteSets

CONSTANTS
    Timers,       \* the addresses a heap_timer can have
    NULL,         \* nullptr
    Cap,          \* the cap of the constructors
    Delays,       \* the delays that callers give
    MaxTime,      \* bound: the time at which the clock stops
    ResizeFrees   \* whether resize deletes what it copies, see AddGrow

ASSUME TimersAssumption == NULL \notin Timers
ASSUME CapAssumption == Cap \in Nat \ {0}
ASSUME TimeAssumption == MaxTime \in Nat /\ Delays \subseteq Nat
ASSUME ResizeAssumption == ResizeFrees \subseteq BOOLEAN

VARIABLES
    array,        \* its first cur_size elements; no other is ever read
    capacity, cur_size,
    expire,       \* of a timer
    cb_func,      \* timers that have a callback
    alloc,        \* timers between new and delete
    now,          \* time(nullptr)
    pc,           \* which loop runs, if any
    after,        \* where percolate_down returns to
    hole, temp,   \* of both percolations; temp is also the timer of add_timer
    i,            \* of the constructor and the destructor
    cur,          \* of tick
    fired         \* timers whose last life ended with the callback

vars == <<array, capacity, cur_size, expire, cb_func, alloc, now, pc, after, hole,
          temp, i, cur, fired>>
heap   == <<array, capacity, cur_size>>
timers == <<expire, cb_func, alloc, fired>>
locals == <<after, hole, temp, i, cur>>

-----------------------------------------------------------------------------
Parent(k) == (k - 1) \div 2

\* time_heap(cap), and time_heap(init_array, size, capacity) up to its loop.
Init ==
    /\ capacity = Cap /\ cur_size \in 0 .. Cap
    /\ array \in [0 .. cur_size - 1 -> Timers]
    /\ \A k, l \in 0 .. cur_size - 1 : array[k] = array[l] => k = l
    /\ alloc = {array[k] : k \in 0 .. cur_size - 1}
    /\ expire \in [Timers -> Delays \cup {0}]
    /\ \A t \in Timers \ alloc : expire[t] = 0
    /\ cb_func = alloc /\ fired = {} /\ now = 0
    /\ pc = (IF cur_size = 0 THEN "idle" ELSE "build")
    /\ i = (IF cur_size = 0 THEN -1 ELSE (cur_size - 1) \div 2)
    /\ after = "idle" /\ hole = 0 /\ temp = NULL /\ cur = 0

\* percolate_down(k) begins, in a heap arr; it returns to ret.
StartDown(arr, k, ret) ==
    /\ array' = arr /\ temp' = arr[k] /\ hole' = k
    /\ pc' = "down" /\ after' = ret

\* One round of the constructor's loop.
Build ==
    /\ pc = "build" /\ i >= 0
    /\ StartDown(array, i, "build")
    /\ i' = i - 1
    /\ UNCHANGED <<capacity, cur_size, timers, now, cur>>

BuildEnd ==
    /\ pc = "build" /\ i < 0 /\ pc' = "idle"
    /\ UNCHANGED <<heap, timers, now, locals>>

-----------------------------------------------------------------------------
(* percolate_down.                                                         *)

HasChild == hole * 2 + 1 <= cur_size - 1

MutChild == hole * 2 + 1
Child ==
    LET child == hole * 2 + 1 IN
    IF child < cur_size - 1 /\ expire[array[child + 1]] < expire[array[child]]
    THEN child + 1 ELSE child

DownMove ==
    /\ pc = "down" /\ HasChild
    /\ expire[array[Child]] < expire[temp]
    /\ array' = [array EXCEPT ![hole] = array[Child]]
    /\ hole' = Child
    /\ UNCHANGED <<capacity, cur_size, timers, now, pc, after, temp, i, cur>>

MutDownEnd ==
    /\ pc = "down" /\ (HasChild => expire[array[Child]] >= expire[temp])
    /\ pc' = after /\ after' = "idle" /\ hole' = 0 /\ temp' = NULL
    /\ UNCHANGED <<heap, timers, now, i, cur>>
DownEnd ==
    /\ pc = "down" /\ (HasChild => expire[array[Child]] >= expire[temp])
    /\ array' = [array EXCEPT ![hole] = temp]
    /\ pc' = after /\ after' = "idle" /\ hole' = 0 /\ temp' = NULL
    /\ UNCHANGED <<capacity, cur_size, timers, now, i, cur>>

-----------------------------------------------------------------------------
(* add_timer.                                                              *)

\* new heap_timer(delay), then add_timer makes a hole at the end of array.
Add(t, delay) ==
    /\ pc = "idle" /\ t \in Timers \ alloc
    /\ alloc' = alloc \cup {t} /\ cb_func' = cb_func \cup {t}
    /\ expire' = [expire EXCEPT ![t] = now + delay]
    /\ fired' = fired \ {t}
    /\ array' = [k \in 0 .. cur_size |-> IF k < cur_size THEN array[k] ELSE t]
    /\ hole' = cur_size /\ temp' = t /\ cur_size' = cur_size + 1
    /\ pc' = "up"
    /\ UNCHANGED <<now, after, i, cur>>

Full == cur_size >= capacity

AddTimer(t, delay) ==
    /\ ~Full
    /\ Add(t, delay)
    /\ UNCHANGED capacity

\* resize() deletes every timer it copies; the comparisons of add_timer and
\* everything after it then read freed memory.  FALSE is a resize without
\* that delete.
AddGrow(t, delay) ==
    /\ Full /\ FALSE \in ResizeFrees
    /\ Add(t, delay)
    /\ capacity' = 2 * capacity
AddFrees ==
    /\ pc = "idle" /\ Full /\ TRUE \in ResizeFrees
    /\ Timers \ alloc # {}
    /\ capacity' = 2 * capacity
    /\ alloc' = {} /\ pc' = "undefined"
    /\ UNCHANGED <<array, cur_size, expire, cb_func, fired, now, locals>>

Rises == hole > 0 /\ expire[array[Parent(hole)]] > expire[temp]

UpMove ==
    /\ pc = "up" /\ Rises
    /\ array' = [array EXCEPT ![hole] = array[Parent(hole)]]
    /\ hole' = Parent(hole)
    /\ UNCHANGED <<capacity, cur_size, timers, now, pc, after, temp, i, cur>>

UpEnd ==
    /\ pc = "up" /\ ~Rises
    /\ array' = [array EXCEPT ![hole] = temp]
    /\ pc' = "idle" /\ hole' = 0 /\ temp' = NULL
    /\ UNCHANGED <<capacity, cur_size, timers, now, after, i, cur>>

-----------------------------------------------------------------------------
(* del_timer, pop_timer and tick.                                          *)

\* del_timer only takes the callback away.
DelTimer(t) ==
    /\ pc = "idle" /\ t \in cb_func
    /\ cb_func' = cb_func \ {t}
    /\ UNCHANGED <<heap, expire, alloc, fired, now, pc, locals>>

\* pop_timer: the last timer takes the place of the top and percolates down.
Freed ==
    /\ cur_size > 0 /\ cur_size' = cur_size - 1
    /\ alloc' = alloc \ {array[0]} /\ cb_func' = cb_func \ {array[0]}
LastToTop ==
    [k \in 0 .. cur_size - 2 |-> IF k = 0 THEN array[cur_size - 1] ELSE array[k]]
Pop(ret) ==
    /\ Freed
    /\ \/ cur_size > 1 /\ StartDown(LastToTop, 0, ret)
       \/ /\ cur_size = 1 /\ array' = LastToTop
          /\ pc' = ret /\ UNCHANGED <<after, hole, temp>>

PopTimer ==
    /\ pc = "idle" /\ Pop("idle")
    /\ UNCHANGED <<capacity, expire, fired, now, i, cur>>

TickStart ==
    /\ pc = "idle" /\ pc' = "tick" /\ cur' = now
    /\ UNCHANGED <<heap, timers, now, after, hole, temp, i>>

MutDue == cur_size > 0 /\ expire[array[0]] <= cur + 1
Due == cur_size > 0 /\ expire[array[0]] <= cur

\* One round of tick: the callback, if it was not taken away, and pop_timer.
TickFire ==
    /\ pc = "tick" /\ Due
    /\ fired' = fired \cup ({array[0]} \cap cb_func)
    /\ Pop("tick")
    /\ UNCHANGED <<capacity, expire, now, i, cur>>

TickStop ==
    /\ pc = "tick" /\ ~Due
    /\ pc' = "idle" /\ cur' = 0
    /\ UNCHANGED <<heap, timers, now, after, hole, temp, i>>

-----------------------------------------------------------------------------
\* ~time_heap.
DestroyStart ==
    /\ pc = "idle" /\ pc' = "destroy" /\ i' = 0
    /\ UNCHANGED <<heap, timers, now, after, hole, temp, cur>>

DestroyStep ==
    /\ pc = "destroy" /\ i < cur_size /\ i' = i + 1
    /\ alloc' = alloc \ {array[i]} /\ cb_func' = cb_func \ {array[i]}
    /\ UNCHANGED <<heap, expire, fired, now, pc, after, hole, temp, cur>>

DestroyEnd ==
    /\ pc = "destroy" /\ i >= cur_size /\ pc' = "gone"
    /\ UNCHANGED <<heap, timers, now, locals>>

\* Time passes, also while a loop runs.
TimePasses ==
    /\ now < MaxTime /\ now' = now + 1
    /\ UNCHANGED <<heap, timers, pc, locals>>

-----------------------------------------------------------------------------
\* A call that the owner of the heap makes.
Call ==
    \/ \E t \in Timers, d \in Delays : AddTimer(t, d) \/ AddGrow(t, d)
    \/ \E t \in Timers : DelTimer(t)
    \/ AddFrees \/ PopTimer \/ TickStart \/ DestroyStart

\* An iteration of the loop of a call.
Loop ==
    \/ Build \/ BuildEnd \/ DownMove \/ DownEnd \/ UpMove \/ UpEnd
    \/ TickFire \/ TickStop \/ DestroyStep \/ DestroyEnd

Next == Call \/ Loop \/ TimePasses

Spec == Init /\ [][Next]_vars

-----------------------------------------------------------------------------
(* Properties.                                                             *)

\* Every variable stays in its type, and no loop leaves the array.
TypeOK ==
    /\ capacity \in Nat \ {0} /\ cur_size \in 0 .. capacity
    /\ array \in [0 .. cur_size - 1 -> Timers]
    /\ expire \in [Timers -> Nat]
    /\ alloc \in SUBSET Timers /\ cb_func \in SUBSET Timers
    /\ fired \in SUBSET Timers
    /\ now \in 0 .. MaxTime /\ cur \in Nat
    /\ pc \in {"build", "idle", "up", "down", "tick", "destroy", "gone", "undefined"}
    /\ after \in {"build", "idle", "tick"}
    /\ hole \in 0 .. capacity - 1 /\ temp \in Timers \cup {NULL}
    /\ i \in -1 .. capacity

\* The array once the hole is filled.
Filled ==
    [k \in 0 .. cur_size - 1 |->
        IF pc \in {"up", "down"} /\ k = hole THEN temp ELSE array[k]]

\* The heap holds every timer between new and delete exactly once: no
\* percolation, pop or growth loses, doubles or keeps one that is freed.
EachOnce ==
    pc \notin {"destroy", "gone", "undefined"} =>
        /\ \A k, l \in 0 .. cur_size - 1 : Filled[k] = Filled[l] => k = l
        /\ {Filled[k] : k \in 0 .. cur_size - 1} = alloc

\* No timer is due before its parent, whichever calls were made.
HeapOrder ==
    pc \in {"idle", "tick"} =>
        \A k \in 1 .. cur_size - 1 : expire[array[Parent(k)]] <= expire[array[k]]

\* When tick returns, no timer that was due when it started is left.
TickComplete ==
    [][pc = "tick" /\ pc' = "idle" => \A t \in alloc : expire[t] > cur]_vars

\* Callers see the same queue as with the sorted list: del_timer cancels,
\* pending timers fire in the order of their deadlines, and none too early.
Queue == INSTANCE TimerQueue WITH pending <- cb_func, deadline <- expire,
                                  clock <- now
ImplementsQueue == Queue!Spec
=============================================================================
