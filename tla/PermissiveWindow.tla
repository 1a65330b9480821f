--------------------------- MODULE PermissiveWindow ---------------------------
(* The permissive window of driver/lockguard.c, lines 70-120, as the threads *)
(* that call LgEnterPermissiveWindow and LgIsPermissive execute it: a flag   *)
(* and a deadline under gPermissiveLock, an unsynchronised look at the flag  *)
(* first, and the time sampled before the lock is taken.                     *)
(*                                                                           *)
(* The flag (line 90) and the deadline (lines 120 and 381) are also read     *)
(* outside the lock, so a section that stores both is two actions, with the  *)
(* lock held in between: an unlocked reader can see half of it.              *)
EXTENDS Naturals

CONSTANTS
    Thread,   \* threads running callbacks or IOCTLs
    Window,   \* LG_UNLOCK_WINDOW_SECONDS
    Grace,    \* LG_PERMISSIVE_GRACE_SECONDS
    Stall,    \* longest time from KeQuerySystemTime to the store it is used for
    MaxTime   \* bound: the clock stops here

ASSUME WindowAssumption ==
    /\ Window \in Nat
    /\ Grace \in Nat \ {0}
    /\ Stall \in Nat
    /\ MaxTime \in Nat \ {0}
    /\ Stall + Grace <= Window

VARIABLES
    clock,               \* KeQuerySystemTime
    gPermissive,
    gPermissiveExpires,
    pc,                  \* where each thread is, see PC below
    now,                 \* each thread's local sample of the time, 0 if none
    opened,              \* history: sample behind the last opening, 0 if none
    promised             \* history: latest time a lease was promised until

vars == <<clock, gPermissive, gPermissiveExpires, pc, now, opened, promised>>

\* "idle"     not in this component
\* "enter"    in LgEnterPermissiveWindow, time sampled, lock not taken
\* "sample"   in LgIsPermissive, saw the flag set
\* "check"    in LgIsPermissive, time sampled, lock not taken
\* "opening"  holds the lock, has set the flag, is about to set the deadline
\* "closing"  holds the lock, has cleared the flag, is about to clear the deadline
\* "active"   LgIsPermissive returned TRUE, the caller acts on it
\* "inactive" LgIsPermissive returned FALSE, the caller acts on it
PC == {"idle", "enter", "sample", "check", "opening", "closing", "active", "inactive"}

\* gPermissiveLock is free.  (A section with one store at most is one action.)
LockFree == \A t \in Thread : pc[t] \notin {"opening", "closing"}

Later(a, b) == IF a < b THEN b ELSE a

TypeOK ==
    /\ clock \in 1 .. MaxTime
    /\ gPermissive \in BOOLEAN
    /\ gPermissiveExpires \in 0 .. MaxTime + Window
    /\ pc \in [Thread -> PC]
    /\ now \in [Thread -> 0 .. MaxTime]
    /\ opened \in 0 .. MaxTime
    /\ promised \in 0 .. MaxTime + Grace

Init ==
    /\ clock = 1
    /\ gPermissive = FALSE
    /\ gPermissiveExpires = 0
    /\ pc = [t \in Thread |-> "idle"]
    /\ now = [t \in Thread |-> 0]
    /\ opened = 0
    /\ promised = 0

-----------------------------------------------------------------------------
\* The computations of the critical sections.

\* Mutant: LG_UNLOCK_WINDOW_SECONDS counted from a sample one unit too late.
WindowEndLate(s) == s + Window + 1

WindowEnd(s) == s + Window

\* Mutant: <= for <.
StillOpenClosed(s) == gPermissive /\ s <= gPermissiveExpires

StillOpen(s) == gPermissive /\ s < gPermissiveExpires

\* Mutants: no lease, and a lease counted from the old deadline.
NoLease(e, s) == e
LeaseFromDeadline(e, s) == e + Grace

\* The deadline e after a caller that sampled s was told TRUE.
Leased(e, s) == Later(e, s + Grace)

\* Mutant: the flag is flipped and the deadline left.
NotReset(e) == e

\* The deadline e after the first thread to notice that the window is over.
Reset(e) == 0

-----------------------------------------------------------------------------

\* LgEnterPermissiveWindow up to the lock.
EnterSample(t) ==
    /\ pc[t] = "idle"
    /\ now' = [now EXCEPT ![t] = clock]
    /\ pc' = [pc EXCEPT ![t] = "enter"]
    /\ UNCHANGED <<clock, gPermissive, gPermissiveExpires, opened, promised>>

\* The critical section of LgEnterPermissiveWindow: the flag ...
EnterFlag(t) ==
    /\ pc[t] = "enter" /\ LockFree
    /\ gPermissive' = TRUE
    /\ pc' = [pc EXCEPT ![t] = "opening"]
    /\ UNCHANGED <<clock, gPermissiveExpires, now, opened, promised>>

\* ... and the deadline.
EnterDeadline(t) ==
    /\ pc[t] = "opening"
    /\ gPermissiveExpires' = WindowEnd(now[t])
    /\ opened' = now[t]
    /\ pc' = [pc EXCEPT ![t] = "idle"]
    /\ now' = [now EXCEPT ![t] = 0]
    /\ UNCHANGED <<clock, gPermissive, promised>>

\* LgIsPermissive, the unsynchronised reject.
FastCheck(t) ==
    /\ pc[t] = "idle"
    /\ pc' = [pc EXCEPT ![t] = IF gPermissive THEN "sample" ELSE "inactive"]
    /\ UNCHANGED <<clock, gPermissive, gPermissiveExpires, now, opened, promised>>

\* LgIsPermissive, KeQuerySystemTime.
CheckSample(t) ==
    /\ pc[t] = "sample"
    /\ now' = [now EXCEPT ![t] = clock]
    /\ pc' = [pc EXCEPT ![t] = "check"]
    /\ UNCHANGED <<clock, gPermissive, gPermissiveExpires, opened, promised>>

\* The critical section of LgIsPermissive when it finds the window open.
CheckGrant(t) ==
    /\ pc[t] = "check" /\ LockFree
    /\ StillOpen(now[t])
    /\ gPermissiveExpires' = Leased(gPermissiveExpires, now[t])
    /\ promised' = Later(promised, now[t] + Grace)
    /\ pc' = [pc EXCEPT ![t] = "active"]
    /\ UNCHANGED <<clock, gPermissive, now, opened>>

\* The same section when another thread has closed the window.
CheckClosed(t) ==
    /\ pc[t] = "check" /\ LockFree
    /\ ~gPermissive
    /\ pc' = [pc EXCEPT ![t] = "inactive"]
    /\ UNCHANGED <<clock, gPermissive, gPermissiveExpires, now, opened, promised>>

\* The same section when this thread is the first to find the window over: it
\* clears the flag ...
CloseFlag(t) ==
    /\ pc[t] = "check" /\ LockFree
    /\ gPermissive /\ ~StillOpen(now[t])
    /\ gPermissive' = FALSE
    /\ pc' = [pc EXCEPT ![t] = "closing"]
    /\ UNCHANGED <<clock, gPermissiveExpires, now, opened, promised>>

\* ... and the deadline.
CloseDeadline(t) ==
    /\ pc[t] = "closing"
    /\ gPermissiveExpires' = Reset(gPermissiveExpires)
    /\ pc' = [pc EXCEPT ![t] = "inactive"]
    /\ UNCHANGED <<clock, gPermissive, now, opened, promised>>

\* The caller of LgIsPermissive has acted on the answer.
CallerDone(t) ==
    /\ pc[t] \in {"active", "inactive"}
    /\ pc' = [pc EXCEPT ![t] = "idle"]
    /\ now' = [now EXCEPT ![t] = 0]
    /\ UNCHANGED <<clock, gPermissive, gPermissiveExpires, opened, promised>>

\* Time passes, but no thread is held up for more than Stall between sampling
\* the clock and using the sample.
Tick ==
    /\ clock < MaxTime
    /\ \A t \in Thread : pc[t] \in {"enter", "check", "opening"} => clock < now[t] + Stall
    /\ clock' = clock + 1
    /\ UNCHANGED <<gPermissive, gPermissiveExpires, pc, now, opened, promised>>

ThreadStep(t) ==
    \/ EnterSample(t) \/ EnterFlag(t) \/ EnterDeadline(t)
    \/ FastCheck(t) \/ CheckSample(t)
    \/ CheckGrant(t) \/ CheckClosed(t) \/ CloseFlag(t) \/ CloseDeadline(t)
    \/ CallerDone(t)

Next == Tick \/ \E t \in Thread : ThreadStep(t)

Spec == Init /\ [][Next]_vars

-----------------------------------------------------------------------------
\* Properties.

\* A caller that was told TRUE still acts under its lease.
Leasing(t) == pc[t] = "active" /\ clock < now[t] + Grace

\* The flag and the deadline, set and reset by two functions on any thread, agree
\* whenever the lock is free (78-79, 99-100).  Who reads them without the lock, as
\* STATUS does, may see half a section; but a deadline he finds without the flag is
\* then one that has passed, not one that is still to come.
FlagMatchesExpiry ==
    /\ LockFree => (gPermissive <=> gPermissiveExpires # 0)
    /\ ~gPermissive => gPermissiveExpires <= clock

\* "Guarantee the caller a minimum LG_PERMISSIVE_GRACE_SECONDS of remaining
\* window" (lockguard.c 102-104): whatever the other threads do after a check
\* returned TRUE, the window stays open for Grace from the caller's sample.
LeaseHonoured ==
    \A t \in Thread :
        Leasing(t) => gPermissive /\ now[t] + Grace <= gPermissiveExpires

\* The TOCTOU the lease closes (lockguard.c 104-107): while one callback acts on
\* "allow" under its lease, no sibling's check comes out "deny".
SiblingsAgree ==
    [][\A t, u \in Thread :
         Leasing(t) => ~(pc[u] # "inactive" /\ pc'[u] = "inactive")]_vars

\* The window is only ever as long as the last opening or an actual promise to
\* a caller makes it: nothing else moves the deadline out (74, 109-113).
ExpiryJustified ==
    gPermissiveExpires # 0 => gPermissiveExpires \in {opened + Window, promised}

\* A check may extend a window whose deadline has passed by less than Stall,
\* because it compares the deadline with its own older sample (93-97); otherwise
\* "it cannot resurrect an expired window" (107-108).
ExtensionIsPrompt ==
    [][\A t \in Thread :
         (pc[t] = "check" /\ pc'[t] = "active")
         => clock < gPermissiveExpires + Stall]_vars

\* What lockguard.h 50-51 says of the lease: "The extension is bounded -- once
\* the original window is past, no extension fires."
ExtensionBounded ==
    [][\A t \in Thread :
         (pc[t] = "check" /\ pc'[t] = "active" /\ gPermissiveExpires' # gPermissiveExpires)
         => clock < opened + Window]_vars

\* The abstract window this component implements.
LeaseSpec == INSTANCE Lease WITH deadline <- gPermissiveExpires
ImplementsLease == LeaseSpec!Spec
=============================================================================
