------------------------------ MODULE TimeWheel ------------------------------
(***************************************************************************)
(* time_wheel of "11-5 time_wheel_timer.h": N slots, each an unordered     *)
(* doubly linked list of timers, of which tick handles one slot after the  *)
(* other.  A timer that is more than a turn away counts the turns.  One    *)
(* action per member function and branch; the loops of tick and of the     *)
(* destructor take one step per iteration.                                 *)
(*                                                                         *)
(* No program of the repository uses the wheel.  Its callers are taken to  *)
(* delete timers of the wheel only, and its callbacks to leave it alone.   *)
(***************************************************************************)
EXTENDS Integers

CONSTANTS
    Timers,      \* the addresses a tw_timer can have
    NULL,        \* nullptr
    N, SI,       \* slots, and seconds from tick to tick
    Timeouts,    \* what callers pass to add_timer
    DeletesNext, \* whether tick has the statement of line 200
    MaxTicks     \* bound: calls of tick

ASSUME TimersAssumption == NULL \notin Timers
ASSUME WheelAssumption == N \in Nat \ {0} /\ SI \in Nat \ {0}
ASSUME InputAssumption ==
    Timeouts \subseteq Nat /\ DeletesNext \subseteq BOOLEAN /\ MaxTicks \in Nat

VARIABLES
    slots, cur_slot,       \* of the wheel
    prev, next, rotation, time_slot,   \* the fields of a timer
    alloc,                 \* timers between new and delete
    pc, tmp,               \* which loop runs, and its timer
    ticks,                 \* history: calls of tick that have returned
    due,                   \* history: the call of tick that is to fire a timer
    fired                  \* history: timers whose last life ended with the
                           \* callback

vars == <<slots, cur_slot, prev, next, rotation, time_slot, alloc, pc, tmp,
          ticks, due, fired>>
links == <<slots, prev, next>>

-----------------------------------------------------------------------------
Slots == 0 .. N - 1

Init ==
    /\ slots = [s \in Slots |-> NULL] /\ cur_slot = 0
    /\ prev = [t \in Timers |-> NULL] /\ next = [t \in Timers |-> NULL]
    /\ rotation = [t \in Timers |-> 0] /\ time_slot = [t \in Timers |-> 0]
    /\ alloc = {}
    /\ pc = "idle" /\ tmp = NULL
    /\ ticks = 0 /\ due = [t \in Timers |-> 0] /\ fired = {}

\* How many ticks a timeout is, and where on the wheel that is.
TicksOf(timeout) == IF timeout < SI THEN 1 ELSE timeout \div SI
MutRotationOf(k) == (k + N - 1) \div N
RotationOf(k) == k \div N
SlotOf(k) == (cur_slot + (k % N)) % N

\* Pointers a function writes; a null pointer is not written through.
Set(f, p, v) == IF p = NULL THEN f ELSE [f EXCEPT ![p] = v]

\* add_timer: the timer becomes the head of its slot.  The first tick that
\* counts may come at once, so k ticks are over with the tick after them.
AddTimer(t, timeout) ==
    LET k == TicksOf(timeout)
        ts == SlotOf(k)
    IN
    /\ pc = "idle" /\ t \notin alloc
    /\ alloc' = alloc \cup {t} /\ fired' = fired \ {t}
    /\ rotation' = [rotation EXCEPT ![t] = RotationOf(k)]
    /\ time_slot' = [time_slot EXCEPT ![t] = ts]
    /\ next' = [next EXCEPT ![t] = slots[ts]]
    /\ prev' = Set([prev EXCEPT ![t] = NULL], slots[ts], t)
    /\ slots' = [slots EXCEPT ![ts] = t]
    /\ due' = [due EXCEPT ![t] = ticks + k + 1]
    /\ UNCHANGED <<cur_slot, pc, tmp, ticks>>

\* A timer leaves its slot and is deleted, as the head or from between two
\* others.
UnlinkHead(s) ==
    /\ slots' = [slots EXCEPT ![s] = next[@]]
    /\ prev' = Set(prev, next[slots[s]], NULL)
    /\ UNCHANGED next
MutUnlinkMiddle(t) ==
    /\ next' = [next EXCEPT ![prev[t]] = next[t]]
    /\ UNCHANGED <<slots, prev>>
UnlinkMiddle(t) ==
    /\ next' = [next EXCEPT ![prev[t]] = next[t]]
    /\ prev' = Set(prev, next[t], prev[t])
    /\ UNCHANGED slots

DelHead(t) ==
    /\ pc = "idle" /\ t \in alloc /\ t = slots[time_slot[t]]
    /\ UnlinkHead(time_slot[t])
    /\ alloc' = alloc \ {t}
    /\ UNCHANGED <<cur_slot, rotation, time_slot, pc, tmp, ticks, due, fired>>

DelMiddle(t) ==
    /\ pc = "idle" /\ t \in alloc /\ t # slots[time_slot[t]]
    /\ UnlinkMiddle(t)
    /\ alloc' = alloc \ {t}
    /\ UNCHANGED <<cur_slot, rotation, time_slot, pc, tmp, ticks, due, fired>>

-----------------------------------------------------------------------------
(* tick.                                                                   *)

TickStart ==
    /\ pc = "idle" /\ ticks < MaxTicks
    /\ pc' = "tick" /\ tmp' = slots[cur_slot]
    /\ UNCHANGED <<links, cur_slot, rotation, time_slot, alloc, ticks, due, fired>>

\* A timer that is to wait for another turn.
MutWaits(t) == rotation[t] > 1
Waits(t) == rotation[t] > 0
TickTurn ==
    /\ pc = "tick" /\ tmp # NULL /\ Waits(tmp)
    /\ rotation' = [rotation EXCEPT ![tmp] = @ - 1]
    /\ tmp' = next[tmp]
    /\ UNCHANGED <<links, cur_slot, time_slot, alloc, pc, ticks, due, fired>>

\* The callback of an expired timer, which is then deleted.
Expire ==
    /\ pc = "tick" /\ tmp # NULL /\ ~Waits(tmp)
    /\ alloc' = alloc \ {tmp} /\ fired' = fired \cup {tmp}
    /\ tmp' = next[tmp]
    /\ UNCHANGED <<cur_slot, rotation, time_slot, ticks, due>>

TickHead ==
    /\ Expire /\ tmp = slots[cur_slot]
    /\ UnlinkHead(cur_slot)
    /\ UNCHANGED pc

TickMiddle ==
    /\ Expire /\ tmp # slots[cur_slot]
    /\ next[tmp] = NULL \/ FALSE \in DeletesNext
    /\ UnlinkMiddle(tmp)
    /\ UNCHANGED pc

\* Line 200 deletes the timer behind it too, with which the loop goes on: what
\* it reads from there on is freed memory.
TickFrees ==
    /\ Expire /\ tmp # slots[cur_slot]
    /\ next[tmp] # NULL /\ TRUE \in DeletesNext
    /\ UnlinkMiddle(tmp)
    /\ pc' = "undefined"

TickEnd ==
    /\ pc = "tick" /\ tmp = NULL
    /\ cur_slot' = (cur_slot + 1) % N
    /\ ticks' = ticks + 1
    /\ pc' = "idle"
    /\ UNCHANGED <<links, rotation, time_slot, alloc, tmp, due, fired>>

-----------------------------------------------------------------------------
(* The destructor, from slot to slot.                                      *)

DestroyStart ==
    /\ pc = "idle" /\ pc' = "destroy"
    /\ UNCHANGED <<links, cur_slot, rotation, time_slot, alloc, tmp, ticks, due,
                   fired>>

DestroyStep(s) ==
    /\ pc = "destroy" /\ slots[s] # NULL
    /\ \A r \in Slots : r < s => slots[r] = NULL
    /\ slots' = [slots EXCEPT ![s] = next[@]]
    /\ alloc' = alloc \ {slots[s]}
    /\ UNCHANGED <<prev, next, cur_slot, rotation, time_slot, pc, tmp, ticks, due,
                   fired>>

DestroyEnd ==
    /\ pc = "destroy" /\ \A s \in Slots : slots[s] = NULL
    /\ pc' = "gone"
    /\ UNCHANGED <<links, cur_slot, rotation, time_slot, alloc, tmp, ticks, due,
                   fired>>

Loop ==
    \/ TickTurn \/ TickHead \/ TickMiddle \/ TickFrees \/ TickEnd
    \/ \E s \in Slots : DestroyStep(s)
    \/ DestroyEnd

Next ==
    \/ \E t \in Timers : \/ \E timeout \in Timeouts : AddTimer(t, timeout)
                         \/ DelHead(t) \/ DelMiddle(t)
    \/ TickStart \/ DestroyStart \/ Loop

Spec == Init /\ [][Next]_vars

-----------------------------------------------------------------------------
(* Properties.                                                             *)

\* Every variable stays in its type.
TypeOK ==
    /\ slots \in [Slots -> Timers \cup {NULL}] /\ cur_slot \in Slots
    /\ prev \in [Timers -> Timers \cup {NULL}]
    /\ next \in [Timers -> Timers \cup {NULL}]
    /\ rotation \in [Timers -> Nat] /\ time_slot \in [Timers -> Slots]
    /\ alloc \in SUBSET Timers /\ fired \in SUBSET Timers
    /\ pc \in {"idle", "tick", "destroy", "gone", "undefined"}
    /\ tmp \in Timers \cup {NULL}
    /\ ticks \in Nat /\ due \in [Timers -> Nat]

\* The timers one finds by following next from t, which may be null: the
\* least set with t in it that no next pointer leaves.
Followed(S) == \A u \in S : next[u] # NULL => next[u] \in S
Reached(t) ==
    {u \in Timers : \A S \in SUBSET Timers :
                       (t # NULL => t \in S) /\ Followed(S) => u \in S}

\* A slot's list holds exactly the live timers that name it: none is lost or
\* hangs there when it is freed.  Each has the right neighbours, so that it
\* can be unlinked without a look at the others.
SlotsExact ==
    pc # "undefined" =>
        /\ \A s \in Slots : Reached(slots[s]) = {t \in alloc : time_slot[t] = s}
        /\ pc # "destroy" =>
               \A t \in alloc :
                   /\ next[t] # NULL => prev[next[t]] = t
                   /\ prev[t] = NULL <=> slots[time_slot[t]] = t

\* tick leaves no timer that was to fire by then, however many turns of the
\* wheel it has had to wait.
TickComplete == pc = "idle" => \A t \in alloc : due[t] > ticks

\* Callers see the same queue as with the list and the heap, whose clock is
\* the number of ticks: no timer fires before its timeout is over.
Queue == INSTANCE TimerQueue
             WITH pending <- alloc, deadline <- due,
                  clock <- IF pc \in {"tick", "undefined"} THEN ticks + 1 ELSE ticks
ImplementsQueue == Queue!Spec
=============================================================================
