------------------------------ MODULE TimerQueue ------------------------------
(***************************************************************************)
(* What the timer containers promise to their callers: a set of pending   *)
(* timers, each with an absolute deadline.  A timer that is not cancelled  *)
(* fires, not before its deadline and in the order of the deadlines.       *)
(* Nothing is said of how the timers are kept.                             *)
(***************************************************************************)
EXTENDS Naturals

CONSTANT Timers

VARIABLES pending, deadline, fired, clock

queueVars == <<pending, deadline, fired, clock>>

\* There may be timers from the start.
Init ==
    /\ pending \in SUBSET Timers
    /\ deadline \in [Timers -> Nat]
    /\ fired = {}
    /\ clock = 0

\* t gets a deadline, whatever the caller chooses; the others keep theirs.
NewDeadline(t) ==
    /\ deadline'[t] \in Nat
    /\ deadline' = [deadline EXCEPT ![t] = deadline'[t]]

Start(t) ==
    /\ t \notin pending
    /\ pending' = pending \cup {t}
    /\ NewDeadline(t)
    /\ fired' = fired \ {t}
    /\ UNCHANGED clock

Postpone(t) ==
    /\ t \in pending
    /\ NewDeadline(t)
    /\ deadline'[t] >= deadline[t]
    /\ UNCHANGED <<pending, fired, clock>>

Cancel(t) ==
    /\ t \in pending
    /\ pending' = pending \ {t}
    /\ UNCHANGED <<deadline, fired, clock>>

Fire(t) ==
    /\ t \in pending /\ deadline[t] <= clock
    /\ \A u \in pending : deadline[t] <= deadline[u]
    /\ pending' = pending \ {t}
    /\ fired' = fired \cup {t}
    /\ UNCHANGED <<deadline, clock>>

TimePasses ==
    /\ clock' = clock + 1
    /\ UNCHANGED <<pending, deadline, fired>>

Next ==
    \/ \E t \in Timers : Start(t) \/ Postpone(t) \/ Cancel(t) \/ Fire(t)
    \/ TimePasses

Spec == Init /\ [][Next]_queueVars
=============================================================================
