-------------------------------- MODULE Lease --------------------------------
(* What the permissive window of driver/lockguard.c promises, without the   *)
(* locks, the threads and the unsynchronised flag.                          *)
(*                                                                          *)
(* The window is one deadline.  Whoever passes the password exchange opens  *)
(* it; whoever asks "are we permissive?" is either granted a lease (the     *)
(* deadline is pushed to at least Grace after the asker's sample of the     *)
(* time) or finds the window over and closes it.  Time is sampled before    *)
(* the lock is taken, so every operation works with a sample s that may be  *)
(* up to Stall old.                                                         *)
EXTENDS Naturals

CONSTANTS
    Window,   \* LG_UNLOCK_WINDOW_SECONDS
    Grace,    \* LG_PERMISSIVE_GRACE_SECONDS
    Stall,    \* longest time from sampling the clock to using the sample
    MaxTime   \* bound: the clock stops here

ASSUME LeaseAssumption ==
    /\ Window \in Nat
    /\ Grace \in Nat \ {0}
    /\ Stall \in Nat
    /\ MaxTime \in Nat \ {0}
    /\ Stall + Grace <= Window

VARIABLES
    clock,     \* system time
    deadline,  \* end of the window, 0 when it is closed
    promised   \* latest time until which some asker was promised the window

leaseVars == <<clock, deadline, promised>>

\* The larger of two times.
Later(a, b) == IF a < b THEN b ELSE a

\* The samples of the clock an operation may be holding.
RecentSamples == {s \in 1..clock : clock <= s + Stall}

TypeOK ==
    /\ clock \in 1 .. MaxTime
    /\ deadline \in 0 .. MaxTime + Window
    /\ promised \in 0 .. MaxTime + Grace

Init ==
    /\ clock = 1
    /\ deadline = 0
    /\ promised = 0

Tick ==
    /\ clock < MaxTime
    /\ clock' = clock + 1
    /\ UNCHANGED <<deadline, promised>>

\* Mutant: the window counted from one unit too late.
OpenLate(s) ==
    /\ deadline' = s + Window + 1
    /\ UNCHANGED <<clock, promised>>

Open(s) ==
    /\ deadline' = s + Window
    /\ UNCHANGED <<clock, promised>>

\* Mutant: the asker is promised Grace but the deadline is left alone.
GrantNoLease(s) ==
    /\ s < deadline
    /\ promised' = Later(promised, s + Grace)
    /\ UNCHANGED <<clock, deadline>>

Grant(s) ==
    /\ s < deadline
    /\ deadline' = Later(deadline, s + Grace)
    /\ promised' = Later(promised, s + Grace)
    /\ UNCHANGED clock

Close(s) ==
    /\ deadline # 0
    /\ s >= deadline
    /\ deadline' = 0
    /\ UNCHANGED <<clock, promised>>

Next ==
    \/ Tick
    \/ \E s \in RecentSamples : Open(s) \/ Grant(s) \/ Close(s)

Spec == Init /\ [][Next]_leaseVars

-----------------------------------------------------------------------------

\* No promise runs past the deadline while it is still due: a lease granted at
\* the expiry boundary is never cut short, neither by a sibling that closes the
\* window nor by a re-opening that computed its end from an older sample
\* (lockguard.c 74-80, 97-114).
LeasePromise == clock < promised => promised <= deadline

\* However often leases are renewed, the window never has more than one full
\* Window left to run (lockguard.c 74, 109-113).
RemainingBounded == deadline <= clock + Window
=============================================================================
