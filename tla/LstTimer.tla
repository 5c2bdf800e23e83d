------------------------------- MODULE LstTimer -------------------------------
(***************************************************************************)
(* sort_timer_lst of "11-2 lst_timer.h": an ascending doubly linked list   *)
(* of timers, pointer by pointer.  One action per member function; the     *)
(* loops (the walk of the private add_timer, tick, the destructor) take    *)
(* one step per iteration, so that time may pass while they run.           *)
(*                                                                         *)
(* The callers are modelled as "11-3 nonactive_connect.cpp" writes them:   *)
(* a timer is added once after new, adjust_timer is called after expire    *)
(* was moved to a later time, and del_timer on a timer of the list.  (That *)
(* program also deletes a timer it has just added, line 187; the list is   *)
(* specified for callers that leave the timers they added to it.)          *)
(***************************************************************************)
EXTENDS Integers

CONSTANTS
    Timers,    \* the addresses a util_timer can have
    NULL,      \* nullptr
    Delays,    \* the distances between now and a new expire
    MaxTime    \* bound: the time at which the clock stops

ASSUME TimersAssumption == NULL \notin Timers
ASSUME TimeAssumption == MaxTime \in Nat /\ Delays \subseteq Nat

VARIABLES
    head, tail,          \* of the list
    prev, next, expire,  \* the fields of a timer
    alloc,               \* timers between new and delete
    now,                 \* time(nullptr)
    pc,                  \* which loop runs, if any
    timer, wprev,        \* timer and prev of the private add_timer
    cur,                 \* cur of tick
    fired,               \* timers whose last life ended with the callback
    ahead                \* history: ahead[t] is the set of timers that come
                         \* before t in the list

vars == <<head, tail, prev, next, expire, alloc, now, pc, timer, wprev, cur,
          fired, ahead>>
locals == <<timer, wprev, cur>>

-----------------------------------------------------------------------------
\* The timers that hang in the list: one that is being moved or inserted is
\* out of it.
Linked == IF pc = "walk" THEN alloc \ {timer} ELSE alloc

\* The order of the list with t inserted behind p, before everything, and
\* without t.
AheadBehind(t, p) ==
    [u \in Timers |-> IF u = t THEN ahead[p] \cup {p}
                      ELSE IF p \in ahead[u] THEN ahead[u] \cup {t}
                      ELSE ahead[u]]
AheadFirst(t) ==
    [u \in Timers |-> IF u = t THEN {} ELSE ahead[u] \cup {t}]
AheadWithout(t) == [u \in Timers |-> ahead[u] \ {t}]

\* add_timer(timer, lst_head) begins.
StartWalk(t, lst_head) ==
    /\ pc' = "walk"
    /\ timer' = t
    /\ wprev' = lst_head
    /\ UNCHANGED cur

Init ==
    /\ head = NULL /\ tail = NULL
    /\ prev = [t \in Timers |-> NULL]
    /\ next = [t \in Timers |-> NULL]
    /\ expire = [t \in Timers |-> 0]
    /\ alloc = {} /\ fired = {}
    /\ now = 0
    /\ pc = "idle"
    /\ timer = NULL /\ wprev = NULL /\ cur = 0
    /\ ahead = [t \in Timers |-> {}]

\* new util_timer: its constructor clears the links, the caller sets expire.
NewTimer(t, e) ==
    /\ pc = "idle" /\ t \in Timers \ alloc
    /\ alloc' = alloc \cup {t}
    /\ fired' = fired \ {t}
    /\ expire' = [expire EXCEPT ![t] = e]

\* add_timer to an empty list.
AddFirst(t, e) ==
    /\ NewTimer(t, e)
    /\ head = NULL
    /\ head' = t /\ tail' = t
    /\ prev' = [prev EXCEPT ![t] = NULL]
    /\ next' = [next EXCEPT ![t] = NULL]
    /\ ahead' = [ahead EXCEPT ![t] = {}]
    /\ UNCHANGED <<now, pc, locals>>

\* add_timer of a timer that is due before all others.
AddHead(t, e) ==
    /\ NewTimer(t, e)
    /\ head # NULL /\ e < expire[head]
    /\ next' = [next EXCEPT ![t] = head]
    /\ prev' = [prev EXCEPT ![t] = NULL, ![head] = t]
    /\ head' = t
    /\ ahead' = AheadFirst(t)
    /\ UNCHANGED <<tail, now, pc, locals>>

\* add_timer otherwise: walk from the head.
AddWalk(t, e) ==
    /\ NewTimer(t, e)
    /\ head # NULL /\ e >= expire[head]
    /\ prev' = [prev EXCEPT ![t] = NULL]
    /\ next' = [next EXCEPT ![t] = NULL]
    /\ StartWalk(t, head)
    /\ UNCHANGED <<head, tail, now, ahead>>

-----------------------------------------------------------------------------
\* The caller extends the timeout and calls adjust_timer.
Extend(t, e) ==
    /\ pc = "idle" /\ t \in alloc /\ e >= expire[t]
    /\ expire' = [expire EXCEPT ![t] = e]

\* adjust_timer: no timer behind t is due earlier, nothing moves.
Stays(t, e) == IF next[t] = NULL THEN TRUE ELSE e < expire[next[t]]

AdjustStays(t, e) ==
    /\ Extend(t, e)
    /\ Stays(t, e)
    /\ UNCHANGED <<head, tail, prev, next, alloc, now, pc, locals, fired, ahead>>

\* adjust_timer of the head: unlink it, walk from the new head.
AdjustHead(t, e) ==
    /\ Extend(t, e)
    /\ ~Stays(t, e) /\ t = head
    /\ head' = next[t]
    /\ prev' = [prev EXCEPT ![next[t]] = NULL]
    /\ next' = [next EXCEPT ![t] = NULL]
    /\ ahead' = AheadWithout(t)
    /\ StartWalk(t, next[t])
    /\ UNCHANGED <<tail, alloc, now, fired>>

\* adjust_timer of any other timer: unlink it, walk from its successor.
AdjustMiddle(t, e) ==
    /\ Extend(t, e)
    /\ ~Stays(t, e) /\ t # head
    /\ next' = [next EXCEPT ![prev[t]] = next[t]]
    /\ prev' = [prev EXCEPT ![next[t]] = prev[t]]
    /\ ahead' = AheadWithout(t)
    /\ StartWalk(t, next[t])
    /\ UNCHANGED <<head, tail, alloc, now, fired>>

\* A loop ends and its function returns: the local variables are gone.
Return == pc' = "idle" /\ timer' = NULL /\ wprev' = NULL /\ cur' = 0

\* One iteration of the walk that finds the place: insert before tmp.
WalkInsert ==
    LET tmp == next[wprev] IN
    /\ pc = "walk" /\ tmp # NULL /\ expire[timer] < expire[tmp]
    /\ next' = [next EXCEPT ![wprev] = timer, ![timer] = tmp]
    /\ prev' = [prev EXCEPT ![tmp] = timer, ![timer] = wprev]
    /\ ahead' = AheadBehind(timer, wprev)
    /\ Return
    /\ UNCHANGED <<head, tail, expire, alloc, now, fired>>

\* One iteration that does not.
MutWalkOn ==
    LET tmp == next[wprev] IN
    /\ pc = "walk" /\ tmp # NULL /\ expire[timer] >= expire[tmp]
    /\ UNCHANGED vars
WalkOn ==
    LET tmp == next[wprev] IN
    /\ pc = "walk" /\ tmp # NULL /\ expire[timer] >= expire[tmp]
    /\ wprev' = tmp
    /\ UNCHANGED <<head, tail, prev, next, expire, alloc, now, pc, timer, cur,
                   fired, ahead>>

\* The walk has reached the end: the timer becomes the tail.
WalkAppend ==
    /\ pc = "walk" /\ next[wprev] = NULL
    /\ next' = [next EXCEPT ![wprev] = timer, ![timer] = NULL]
    /\ prev' = [prev EXCEPT ![timer] = wprev]
    /\ tail' = timer
    /\ ahead' = AheadBehind(timer, wprev)
    /\ Return
    /\ UNCHANGED <<head, expire, alloc, now, fired>>

-----------------------------------------------------------------------------
\* delete timer.
Delete(t) ==
    /\ pc = "idle" /\ t \in alloc
    /\ alloc' = alloc \ {t}
    /\ ahead' = AheadWithout(t)

\* del_timer, case by case: the only timer, the head, the tail, another one.
DelOnly(t) ==
    /\ Delete(t)
    /\ t = head /\ t = tail
    /\ head' = NULL /\ tail' = NULL
    /\ UNCHANGED <<prev, next, expire, now, pc, locals, fired>>

DelHead(t) ==
    /\ Delete(t)
    /\ t = head /\ t # tail
    /\ head' = next[t]
    /\ prev' = [prev EXCEPT ![next[t]] = NULL]
    /\ UNCHANGED <<tail, next, expire, now, pc, locals, fired>>

DelTail(t) ==
    /\ Delete(t)
    /\ t # head /\ t = tail
    /\ tail' = prev[t]
    /\ next' = [next EXCEPT ![prev[t]] = NULL]
    /\ UNCHANGED <<head, prev, expire, now, pc, locals, fired>>

MutDelMiddle(t) ==
    /\ Delete(t)
    /\ t # head /\ t # tail
    /\ next' = [next EXCEPT ![prev[t]] = next[t]]
    /\ UNCHANGED <<head, tail, prev, expire, now, pc, locals, fired>>
DelMiddle(t) ==
    /\ Delete(t)
    /\ t # head /\ t # tail
    /\ next' = [next EXCEPT ![prev[t]] = next[t]]
    /\ prev' = [prev EXCEPT ![next[t]] = prev[t]]
    /\ UNCHANGED <<head, tail, expire, now, pc, locals, fired>>

-----------------------------------------------------------------------------
\* tick: the time is read once, the loop starts at the head.
TickStart ==
    /\ pc = "idle" /\ head # NULL
    /\ cur' = now
    /\ pc' = "tick"
    /\ UNCHANGED <<head, tail, prev, next, expire, alloc, now, timer, wprev,
                   fired, ahead>>

\* head = tmp->next, the new head loses its predecessor, delete tmp.
DropHead ==
    /\ head' = next[head]
    /\ prev' = IF next[head] # NULL THEN [prev EXCEPT ![next[head]] = NULL] ELSE prev
    /\ alloc' = alloc \ {head}
    /\ ahead' = AheadWithout(head)

MutDue(t) == cur <= expire[t]
Due(t) == cur >= expire[t]

\* One iteration of tick: the callback runs, the head goes.
TickFire ==
    /\ pc = "tick" /\ head # NULL /\ Due(head)
    /\ DropHead
    /\ fired' = fired \cup {head}
    /\ UNCHANGED <<tail, next, expire, now, pc, locals>>

\* The loop ends: the list is empty, or its head is not due.
TickStop ==
    /\ pc = "tick" /\ IF head = NULL THEN TRUE ELSE ~Due(head)
    /\ Return
    /\ UNCHANGED <<head, tail, prev, next, expire, alloc, now, fired, ahead>>

\* ~sort_timer_lst: delete from the head on, without callbacks (and without
\* clearing the new head's prev, which nobody reads again).
DestroyStart ==
    /\ pc = "idle"
    /\ pc' = "destroy"
    /\ UNCHANGED <<head, tail, prev, next, expire, alloc, now, locals, fired, ahead>>

DestroyStep ==
    /\ pc = "destroy" /\ head # NULL
    /\ head' = next[head]
    /\ alloc' = alloc \ {head}
    /\ ahead' = AheadWithout(head)
    /\ UNCHANGED <<tail, prev, next, expire, now, pc, locals, fired>>

DestroyEnd ==
    /\ pc = "destroy" /\ head = NULL
    /\ pc' = "gone"
    /\ UNCHANGED <<head, tail, prev, next, expire, alloc, now, locals, fired, ahead>>

\* Time passes, also while a loop runs.
TimePasses ==
    /\ now < MaxTime
    /\ now' = now + 1
    /\ UNCHANGED <<head, tail, prev, next, expire, alloc, pc, locals, fired, ahead>>

-----------------------------------------------------------------------------
\* A call that the owner of the list makes.
Call ==
    \/ \E t \in Timers, d \in Delays :
         \/ AddFirst(t, now + d) \/ AddHead(t, now + d) \/ AddWalk(t, now + d)
         \/ AdjustStays(t, now + d) \/ AdjustHead(t, now + d)
         \/ AdjustMiddle(t, now + d)
    \/ \E t \in Timers : DelOnly(t) \/ DelHead(t) \/ DelTail(t) \/ DelMiddle(t)
    \/ TickStart \/ DestroyStart

\* An iteration of the loop of a call.
Loop ==
    \/ WalkInsert \/ WalkOn \/ WalkAppend \/ TickFire \/ TickStop
    \/ DestroyStep \/ DestroyEnd

Next == Call \/ Loop \/ TimePasses

Spec == Init /\ [][Next]_vars

\* A call that has begun runs on; nobody has to make one.
FairSpec == Spec /\ WF_vars(Loop)

-----------------------------------------------------------------------------
(* Properties.                                                             *)

\* Every variable stays in its type, and the walk never holds a null pointer
\* in prev or timer, which it dereferences unchecked.
TypeOK ==
    /\ head \in Timers \cup {NULL} /\ tail \in Timers \cup {NULL}
    /\ prev \in [Timers -> Timers \cup {NULL}]
    /\ next \in [Timers -> Timers \cup {NULL}]
    /\ expire \in [Timers -> Nat]
    /\ alloc \in SUBSET Timers
    /\ now \in 0 .. MaxTime
    /\ pc \in {"idle", "walk", "tick", "destroy", "gone"}
    /\ timer \in Timers \cup {NULL} /\ wprev \in Timers \cup {NULL}
    /\ pc = "walk" => timer \in Timers /\ wprev \in Timers
    /\ cur \in Nat
    /\ fired \in SUBSET Timers
    /\ ahead \in [Timers -> SUBSET Timers]

\* The links of the list, read from a timer: every pointer that will be
\* followed again leads to a timer that is still allocated, next and prev
\* are each other's inverse, and head and tail are the two ends.  (tail and
\* the prev of the head are dead in the destructor, tail also in an empty
\* list, where tick leaves it dangling.)
LinksMatch ==
    /\ head = NULL <=> Linked = {}
    /\ head # NULL => head \in Linked /\ (pc # "destroy" => prev[head] = NULL)
    /\ \A t \in Linked :
         /\ next[t] # NULL => next[t] \in Linked /\ prev[next[t]] = t
         /\ pc # "destroy" => (prev[t] = NULL <=> t = head)
         /\ next[t] = NULL <=> t = tail

\* The timers one finds by following next from t, which may be null: the
\* least set with t in it that no next pointer leaves.
Followed(S) == \A u \in S : next[u] # NULL => next[u] \in S
Reached(t) ==
    {u \in Timers : \A S \in SUBSET Timers :
                       (t # NULL => t \in S) /\ Followed(S) => u \in S}

\* No operation loses a timer, or leaves one in the list that was deleted:
\* the timers reached from the head are the allocated ones.
NothingLost == Reached(head) = Linked

\* The links are right, one by one and as a whole: a timer that is moved,
\* inserted or deleted takes no other with it, and no walk goes in circles.
ListExact == LinksMatch /\ NothingLost

\* The list is ascending wherever it is read: tick may stop at the first
\* timer that is not due.
Ascending ==
    \A t \in Linked : next[t] # NULL => expire[t] <= expire[next[t]]

\* When tick returns, no timer that was due when it started is left.
TickComplete ==
    [][pc = "tick" /\ pc' = "idle" => \A t \in alloc : expire[t] > cur]_vars

\* The destructor frees every timer.
NoLeak == pc = "gone" => alloc = {}

\* The walk, tick and the destructor come to an end.
CallsReturn == pc \in {"walk", "tick", "destroy"} ~> pc \in {"idle", "gone"}

\* Callers see a queue that fires every pending timer in the order of the
\* deadlines, and none too early.
Queue == INSTANCE TimerQueue WITH pending <- alloc, deadline <- expire,
                                  clock <- now
ImplementsQueue == Queue!Spec
=============================================================================
